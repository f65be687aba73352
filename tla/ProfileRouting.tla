--------------------------- MODULE ProfileRouting ---------------------------
(***************************************************************************)
(* The decoder's device profiles (services/decoder_aggregator: config.py,  *)
(* profiles.py, _on_message of service.py): a file of them is checked      *)
(* once, when the service starts, and every raw message is then parsed,    *)
(* routed by its query to one profile and decoded by that profile's type;  *)
(* the metrics go out under its output device and their output names.      *)
(***************************************************************************)
EXTENDS ModbusFrames, TLC

CONSTANTS
  Profile,            \* the entries of the file; a profile's id names a device too
  Device,             \* the devices of topics
  TypeOf,             \* profile_type
  Query,              \* the reads the gateway makes
  Sensor,             \* the registers of what it reads
  Recorded,           \* messages kept from a real gateway
  Open,               \* a field a match leaves out
  None,
  Definition          \* bound: the definitions an entry may have

\* PROFILE_METRICS.
MetricsOf(type) ==
  CASE type = "rs_ss"           -> {"ss", "temperature"}
    [] type = "rs_cod"          -> {"cod", "temperature", "turbidity", "toc"}
    [] type = "rs_zd_turbidity" -> {"turbidity", "temperature"}
    [] type = "rs_nhn_amnitro"  -> {"amnitro", "ph_compensation", "temperature"}
Metric == UNION {MetricsOf(type) : type \in ProfileType}

MatchFields == {"address", "function", "start", "count"}

ASSUME ProfileAssumption ==
  /\ Profile \subseteq Device /\ None \notin Device
  /\ TypeOf \in [Profile -> ProfileType]
\* A request of eight bytes has one of the functions 1 to 6, which are no characters of a
\* text; the answer to more than 127 words could not say how many bytes it holds.
ASSUME QueryAssumption ==
  /\ \A q \in Query :
       /\ DOMAIN q = MatchFields
       /\ q.address \in Byte /\ q.function \in Byte \ (White \cup HexDigit)
       /\ q.start \in Register /\ q.count \in 1..127
       /\ q.start..(q.start + q.count - 1) \subseteq DOMAIN Sensor
  /\ Sensor \in [DOMAIN Sensor -> Int]
ASSUME DefinitionAssumption ==
  \A d \in Definition :
    /\ d.source \in Device \cup {None} /\ d.target \in Device \cup {None}
    /\ \A m \in d.matches :
         m = [f \in MatchFields |-> m[f]] /\ \E f \in MatchFields : m[f] # Open
    /\ d.publish = None \/ d.publish \in (SUBSET Metric) \ {{}}
    /\ DOMAIN d.aliases \subseteq Metric /\ d.aliases \in [DOMAIN d.aliases -> Metric]

\* A message holds a read and an answer, not always the one it was made for; and what
\* it holds may be broken.
Sent(asked, answered) == Ask(asked) \o Answer(answered, Sensor)
Forms(bytes) == {bytes, HexText(bytes, TRUE), HexText(bytes, FALSE)}
Message    == UNION {Forms(Sent(asked, answered)) : asked \in Query, answered \in Query}
Understood == {Read(payload) : payload \in {m \in Message : Parses(m)}}
Malformed  == {m \in Message : ~Parses(m)}

VARIABLES
  file,      \* the definition of each profile
  phase,     \* "starting", "running", or "refused": the file is not accepted
  fed,       \* which profile's readings the output devices' metrics have had
  outcome    \* what became of the last message

vars == <<file, phase, fed, outcome>>

-----------------------------------------------------------------------------
(* DeviceProfile. *)

\* Defect: a profile without a target has no output device.
OutputTarget(p) == file[p].target

OutputDevice(p) == IF file[p].target = None THEN p ELSE file[p].target
InputDevice(p)  == IF file[p].source = None THEN p ELSE file[p].source

Matches(m, query) == \A f \in MatchFields : m[f] \in {Open, query[f]}
MatchesQuery(p, query) ==
  file[p].matches = {} \/ \E m \in file[p].matches : Matches(m, query)

OutputName(p, metric) ==
  IF metric \in DOMAIN file[p].aliases THEN file[p].aliases[metric] ELSE metric

\* The metrics a profile publishes of those a message holds.
Published(p, metrics) == IF file[p].publish = None THEN metrics ELSE metrics \cap file[p].publish

Clash(p, metrics) ==
  \E a, b \in Published(p, metrics) : a # b /\ OutputName(p, a) = OutputName(p, b)

-----------------------------------------------------------------------------
(* load_profiles. *)

\* _parse_publish_metrics and _parse_metric_aliases.
KnownMetrics(p) ==
  /\ file[p].publish = None \/ file[p].publish \subseteq MetricsOf(TypeOf[p])
  /\ DOMAIN file[p].aliases \subseteq MetricsOf(TypeOf[p])

\* _resolved_output_metrics: under their output names, all a profile may publish.
ResolvedOutputs(p) == {OutputName(p, metric) : metric \in Published(p, MetricsOf(TypeOf[p]))}

\* _validate_target_metric_collisions.
\* Defects: the profiles of one target are not compared; or only they are.
DistinctWithin == \A p \in Profile : ~Clash(p, MetricsOf(TypeOf[p]))
DistinctAcross ==
  \A p, q \in Profile :
    p # q /\ OutputDevice(p) = OutputDevice(q) =>
      ResolvedOutputs(p) \cap ResolvedOutputs(q) = {}
DistinctTargets ==
  /\ \A p \in Profile : ~Clash(p, MetricsOf(TypeOf[p]))
  /\ \A p, q \in Profile :
       p # q /\ OutputDevice(p) = OutputDevice(q) =>
         ResolvedOutputs(p) \cap ResolvedOutputs(q) = {}

\* _validate_source_device_routing.
Sharing(p) == {q \in Profile \ {p} : InputDevice(q) = InputDevice(p)}

\* Defect: profiles that share a source may have the same match.
RoutableUnsigned == \A p \in Profile : Sharing(p) # {} => file[p].matches # {}
RoutableSources ==
  \A p \in Profile :
    /\ Sharing(p) # {} => file[p].matches # {}
    /\ \A q \in Sharing(p) : file[p].matches \cap file[q].matches = {}

Start ==
  /\ phase = "starting"
  /\ phase' = IF /\ \A p \in Profile : KnownMetrics(p)
                 /\ DistinctTargets /\ RoutableSources
              THEN "running" ELSE "refused"
  /\ UNCHANGED <<file, fed, outcome>>

-----------------------------------------------------------------------------
(* _on_message. *)

Routes(source) == {p \in Profile : InputDevice(p) = source}
Candidates(source, query) == {p \in Routes(source) : MatchesQuery(p, query)}

\* The profile's decoder, on the registers of one answer.
Readings(p, read) == DOMAIN Decoded(TypeOf[p], file[p].range, read.registers)

\* A message of an unknown device.
Ignore(source) ==
  /\ phase = "running"
  /\ Routes(source) = {}
  /\ outcome' = "ignored"
  /\ UNCHANGED <<file, phase, fed>>

\* parse_read_frames raises: the message is dropped.
Drop(source) ==
  /\ phase = "running"
  /\ Routes(source) # {}
  /\ Malformed # {}
  /\ outcome' = "malformed"
  /\ UNCHANGED <<file, phase, fed>>

\* select_profile raises: it is dropped too.
Refuse(source, read) ==
  /\ phase = "running"
  /\ Routes(source) # {}
  /\ \A p \in Profile : Candidates(source, read.query) # {p}
  /\ outcome' = IF Candidates(source, read.query) = {} THEN "unmatched" ELSE "ambiguous"
  /\ UNCHANGED <<file, phase, fed>>

\* The profile it goes to has a sensor_range its type cannot take: load_profiles does
\* not look at it, so that every message is dropped.
Fail(source, read) ==
  /\ phase = "running"
  /\ \E p \in Profile :
       Candidates(source, read.query) = {p} /\ ~Decodable(TypeOf[p], file[p].range)
  /\ outcome' = "undecodable"
  /\ UNCHANGED <<file, phase, fed>>

\* It goes to one profile, which finds some of its metrics among the registers.
Decode(source, read) ==
  /\ phase = "running"
  /\ \E p \in Profile :
       /\ Candidates(source, read.query) = {p}
       /\ Decodable(TypeOf[p], file[p].range)
       /\ LET metrics == Readings(p, read) IN
          IF Clash(p, metrics)
          THEN outcome' = "clash" /\ UNCHANGED fed
          ELSE /\ outcome' = "decoded"
               /\ fed' = fed \cup
                    {<<OutputDevice(p), OutputName(p, m), p>> : m \in Published(p, metrics)}
  /\ UNCHANGED <<file, phase>>

Init ==
  /\ file \in [Profile -> Definition]
  /\ phase = "starting"
  /\ fed = {}
  /\ outcome = "none"

Next ==
  \/ Start
  \/ \E source \in Device :
       \/ Ignore(source)
       \/ Drop(source)
       \/ \E read \in Understood : Refuse(source, read) \/ Fail(source, read) \/ Decode(source, read)

Spec == Init /\ [][Next]_vars

-----------------------------------------------------------------------------
(* The properties. *)

TypeOK ==
  /\ file \in [Profile -> Definition]
  /\ phase \in {"starting", "running", "refused"}
  /\ fed \subseteq Device \X Metric \X Profile
  /\ outcome \in {"none", "ignored", "malformed", "unmatched", "ambiguous", "undecodable",
                  "clash", "decoded"}

\* Under any file the service starts with, a metric of an output device is only ever
\* fed by one profile.  A minute's mean then does not mix two sensors if each profile is
\* of one sensor, as the runbook has it; a profile whose matches are of two loads as well.
OneSensorPerMetric ==
  \A f, g \in fed : f[1] = g[1] /\ f[2] = g[2] => f[3] = g[3]

\* A file that loads never makes two metrics of one message clash.
NoClash == outcome # "clash"

\* Where no match leaves a field out, a file that loads never leaves a message without
\* its profile because two claim it.
Specific == \A p \in Profile : \A m \in file[p].matches : \A f \in MatchFields : m[f] # Open
SpecificIsUnambiguous == Specific => outcome # "ambiguous"

\* A running service parses a message if, and only if, its answer is of the read it
\* stands with, as far as a response tells, whichever way it is written: no bit turned
\* over on the way goes unnoticed, and bytes are never taken for text.
Alike(q, r) == \A f \in MatchFields \ {"start"} : q[f] = r[f]
ReadsParse ==
  /\ \A m \in Recorded : Parses(m)
  /\ \A q, r \in Query : \A m \in Forms(Sent(q, r)) :
       Parses(m) <=> Alike(q, r) /\ q.function \in {3, 4}
BrokenRefused == \A q, r \in Query : \A m \in Flips(Sent(q, r)) : ~Parses(m)
OnlyReadsParse == phase = "running" => ReadsParse /\ BrokenRefused

\* Every type decodes the values the sensor has, those below zero too, from whichever
\* window of its registers was read; a metric only partly in it is left out.
Measured(field, value) ==
  LET word == Sensor[field.register] IN
  CASE field.kind = "float"    -> value = BytesOf(word) \o BytesOf(Sensor[field.register + 1])
    [] field.kind = "signed"   -> 2 * value \in -Words..(Words - 1) /\ (value - word) % Words = 0
    [] field.kind = "unsigned" -> value \in 0..(Words - 1) /\ (value - word) % Words = 0
AsMeasured ==
  \A q \in Query, type \in ProfileType :
    q.function \in {3, 4} =>
      LET range   == IF Ranged(type) THEN 1000 ELSE None
          fields  == Layout(type, range)
          metrics == Decoded(type, range, Read(Sent(q, q)).registers)
      IN  /\ DOMAIN metrics =
               {m \in MetricsOf(type) : RegistersOf(fields[m]) \subseteq q.start..(q.start + q.count - 1)}
          /\ \A m \in DOMAIN metrics : Measured(fields[m], metrics[m].number)
MetricsAreTheSensors == phase = "running" => AsMeasured

=============================================================================
