--------------------------- MODULE RoutingProofs ---------------------------
(***************************************************************************)
(* Theorems about ProfileRouting, for every file of profiles the service   *)
(* starts with.  The file is checked once, against all a profile might     *)
(* publish; the proofs carry that to every message, which holds some of    *)
(* its metrics, in whatever order messages come.  What a message holds is  *)
(* followed byte by byte, from the sensor's registers to the metrics.      *)
(***************************************************************************)
EXTENDS ProfileRouting, FrameProofs

\* What load_profiles accepted.
Loaded ==
  phase = "running" => (\A p \in Profile : KnownMetrics(p)) /\ DistinctTargets /\ RoutableSources

\* Every metric that went out did so under the names its profile gives it.
FedAsDefined ==
  /\ fed # {} => phase = "running"
  /\ \A t \in fed : t[1] = OutputDevice(t[3]) /\ t[2] \in ResolvedOutputs(t[3])

RoutingInv == TypeOK /\ Loaded /\ FedAsDefined /\ NoClash /\ SpecificIsUnambiguous

-----------------------------------------------------------------------------
(* What a message holds, and the names it goes out under. *)

\* A profile finds no metric among the registers that its type has not.
LEMMA ReadingsKnown ==
  ASSUME NEW p \in Profile, NEW read
  PROVE  Readings(p, read) \subseteq MetricsOf(TypeOf[p])
<1>1. TypeOf[p] \in ProfileType
  BY ProfileAssumption
<1> DEFINE type == TypeOf[p]
<1> HIDE DEF type
<1>2. ASSUME type \in ProfileType, NEW range
      PROVE  DOMAIN Layout(type, range) = MetricsOf(type)
  BY <1>2 DEF Layout, MetricsOf, ProfileType
<1>3. \A range, registers :
        DOMAIN Decoded(type, range, registers) \subseteq DOMAIN Layout(type, range)
  BY DEF Decoded
<1> QED BY <1>1, <1>2, <1>3 DEF Readings, type

\* A profile's outputs are devices and metrics.
LEMMA OutputsTyped ==
  ASSUME TypeOK, NEW p \in Profile, NEW m \in MetricsOf(TypeOf[p])
  PROVE  OutputDevice(p) \in Device /\ OutputName(p, m) \in Metric /\ m \in Metric
<1>1. file[p] \in Definition
  BY DEF TypeOK
<1>2. m \in Metric
  BY ProfileAssumption DEF Metric
<1>3. OutputDevice(p) \in Device
  BY <1>1, ProfileAssumption, DefinitionAssumption DEF OutputDevice
<1>4. OutputName(p, m) \in Metric
  BY <1>1, <1>2, DefinitionAssumption DEF OutputName
<1> QED BY <1>2, <1>3, <1>4

\* What does not clash in all a type measures does not in a part of it.
LEMMA PartNoClash ==
  ASSUME NEW p, NEW whole, NEW part \in SUBSET whole, ~Clash(p, whole)
  PROVE  ~Clash(p, part)
BY DEF Clash, Published

\* Where no match leaves a field out, at most one profile of a device takes a read.
LEMMA OneCandidate ==
  ASSUME TypeOK, RoutableSources, Specific, NEW source, NEW query,
         NEW p \in Candidates(source, query), NEW q \in Candidates(source, query)
  PROVE  p = q
<1> SUFFICES ASSUME p # q PROVE FALSE
  OBVIOUS
<1>1. /\ p \in Profile /\ q \in Profile /\ q \in Sharing(p) /\ p \in Sharing(q)
      /\ MatchesQuery(p, query) /\ MatchesQuery(q, query)
  BY DEF Candidates, Routes, Sharing
<1>2. file[p].matches # {} /\ file[q].matches # {} /\ file[p].matches \cap file[q].matches = {}
  BY <1>1 DEF RoutableSources
<1>3. PICK m \in file[p].matches : Matches(m, query)
  BY <1>1, <1>2 DEF MatchesQuery
<1>4. PICK n \in file[q].matches : Matches(n, query)
  BY <1>1, <1>2 DEF MatchesQuery
<1>5. \A f \in MatchFields : m[f] = query[f] /\ n[f] = query[f]
  BY <1>1, <1>3, <1>4 DEF Matches, Specific
<1>6. m = [f \in MatchFields |-> m[f]] /\ n = [f \in MatchFields |-> n[f]]
  BY <1>1, DefinitionAssumption DEF TypeOK
<1>7. m = n
  BY <1>5, <1>6
<1> QED BY <1>2, <1>7

-----------------------------------------------------------------------------
(* The steps. *)

\* Before the first message nothing went out.
LEMMA InvInit == Init => RoutingInv
BY DEF Init, RoutingInv, TypeOK, Loaded, FedAsDefined, NoClash, SpecificIsUnambiguous

\* Starting checks the file; nothing has been fed by then.
LEMMA StartStep == RoutingInv /\ Start => RoutingInv'
<1> SUFFICES ASSUME RoutingInv, Start PROVE RoutingInv'
  OBVIOUS
<1>1. /\ TypeOK /\ Loaded /\ FedAsDefined /\ NoClash /\ SpecificIsUnambiguous
      /\ fed = {} /\ UNCHANGED <<file, fed, outcome>> /\ phase' \in {"running", "refused"}
  BY DEF RoutingInv, Start, FedAsDefined
<1>2. Loaded'
  BY <1>1 DEF Start, Loaded, KnownMetrics, DistinctTargets, RoutableSources, Clash, Published,
              OutputName, OutputDevice, ResolvedOutputs, Sharing, InputDevice
<1>3. TypeOK' /\ FedAsDefined' /\ NoClash' /\ SpecificIsUnambiguous'
  BY <1>1 DEF TypeOK, FedAsDefined, NoClash, SpecificIsUnambiguous, Specific
<1> QED BY <1>2, <1>3 DEF RoutingInv

\* The file does not change, so that what was found of it stays so.
LEMMA FileStays ==
  ASSUME Loaded, UNCHANGED <<file, phase>>
  PROVE  Loaded' /\ (Specific' <=> Specific)
BY DEF Loaded, KnownMetrics, DistinctTargets, RoutableSources, Clash, Published,
       OutputName, OutputDevice, ResolvedOutputs, Sharing, InputDevice, Specific

\* A message that feeds no device.
LEMMA NothingFedStep ==
  ASSUME RoutingInv, UNCHANGED <<file, phase, fed>>,
         outcome' \in {"none", "ignored", "malformed", "unmatched", "ambiguous", "undecodable",
                       "decoded"},
         outcome' = "ambiguous" => ~Specific
  PROVE  RoutingInv'
<1>1. TypeOK /\ Loaded /\ FedAsDefined /\ NoClash /\ SpecificIsUnambiguous
  BY DEF RoutingInv
<1>2. Loaded' /\ (Specific' <=> Specific)
  BY <1>1, FileStays
<1>3. TypeOK' /\ NoClash' /\ SpecificIsUnambiguous'
  BY <1>1, <1>2 DEF TypeOK, NoClash, SpecificIsUnambiguous
<1>4. FedAsDefined'
  BY <1>1 DEF FedAsDefined, OutputDevice, ResolvedOutputs, OutputName, Published
<1> QED BY <1>2, <1>3, <1>4 DEF RoutingInv

\* A message that two profiles claim is found only where a match leaves a field out.
LEMMA RefuseStep ==
  ASSUME RoutingInv, NEW source, NEW read, Refuse(source, read)
  PROVE  RoutingInv'
<1> DEFINE who == Candidates(source, read.query)
<1>1. /\ TypeOK /\ RoutableSources /\ \A p \in Profile : who # {p}
      /\ outcome' = IF who = {} THEN "unmatched" ELSE "ambiguous"
      /\ UNCHANGED <<file, phase, fed>>
  BY DEF RoutingInv, Loaded, Refuse
<1>2. Specific => who = {}
  <2> SUFFICES ASSUME Specific, NEW p \in who PROVE FALSE
    OBVIOUS
  <2>1. \A q \in who : q = p
    BY <1>1, OneCandidate
  <2> HIDE DEF who
  <2>2. who = {p}
    BY <2>1
  <2>3. p \in Profile
    BY DEF who, Candidates, Routes
  <2> QED BY <1>1, <2>2, <2>3
<1> HIDE DEF who
<1> QED BY <1>1, <1>2, NothingFedStep

\* The readings of one message, under the names that tell them from all others'.
LEMMA DecodeStep ==
  ASSUME RoutingInv, NEW source, NEW read, Decode(source, read)
  PROVE  RoutingInv'
<1>1. TypeOK /\ Loaded /\ FedAsDefined /\ NoClash /\ SpecificIsUnambiguous
      /\ phase = "running" /\ DistinctTargets /\ UNCHANGED <<file, phase>>
  BY DEF RoutingInv, Loaded, Decode
<1>2. PICK p \in Profile :
        LET metrics == Readings(p, read) IN
        IF Clash(p, metrics)
        THEN outcome' = "clash" /\ UNCHANGED fed
        ELSE /\ outcome' = "decoded"
             /\ fed' = fed \cup
                  {<<OutputDevice(p), OutputName(p, m), p>> : m \in Published(p, metrics)}
  BY DEF Decode
<1> DEFINE metrics == Readings(p, read)
           new == {<<OutputDevice(p), OutputName(p, m), p>> : m \in Published(p, metrics)}
<1>3. metrics \subseteq MetricsOf(TypeOf[p])
  BY ReadingsKnown
<1>4. ~Clash(p, metrics)
  BY <1>1, <1>3, PartNoClash DEF DistinctTargets
<1>5. outcome' = "decoded" /\ fed' = fed \cup new
  BY <1>2, <1>4
<1>6. Published(p, metrics) \subseteq Published(p, MetricsOf(TypeOf[p]))
      /\ Published(p, metrics) \subseteq metrics
  BY <1>3 DEF Published
<1>7. ASSUME NEW t \in new
      PROVE  /\ t \in Device \X Metric \X Profile
             /\ t[1] = OutputDevice(t[3]) /\ t[2] \in ResolvedOutputs(t[3])
  <2>1. PICK m \in Published(p, metrics) : t = <<OutputDevice(p), OutputName(p, m), p>>
    OBVIOUS
  <2>2. OutputDevice(p) \in Device /\ OutputName(p, m) \in Metric
    BY <1>1, <1>3, <1>6, OutputsTyped
  <2>3. OutputName(p, m) \in ResolvedOutputs(p)
    BY <1>6 DEF ResolvedOutputs
  <2> QED BY <2>1, <2>2, <2>3
<1> HIDE DEF new
<1>8. Loaded' /\ (Specific' <=> Specific)
  BY <1>1, FileStays
<1>9. TypeOK' /\ NoClash' /\ SpecificIsUnambiguous'
  BY <1>1, <1>5, <1>7, <1>8 DEF TypeOK, NoClash, SpecificIsUnambiguous
<1>10. \A t \in fed' : t[1] = OutputDevice(t[3]) /\ t[2] \in ResolvedOutputs(t[3])
  BY <1>1, <1>5, <1>7 DEF FedAsDefined
<1>11. FedAsDefined'
  BY <1>1, <1>10 DEF FedAsDefined, OutputDevice, ResolvedOutputs, OutputName, Published
<1> QED BY <1>8, <1>9, <1>11 DEF RoutingInv

\* Every step keeps the invariant.
LEMMA InvStep == RoutingInv /\ [Next]_vars => RoutingInv'
<1> SUFFICES ASSUME RoutingInv, [Next]_vars PROVE RoutingInv'
  OBVIOUS
<1>1. ASSUME NEW source, NEW read, Fail(source, read) \/ Ignore(source) \/ Drop(source)
      PROVE  RoutingInv'
  BY <1>1, NothingFedStep DEF Fail, Ignore, Drop
<1>2. CASE UNCHANGED vars
  <2>1. outcome' = outcome /\ UNCHANGED <<file, phase, fed>>
    BY <1>2 DEF vars
  <2> QED BY <2>1, NothingFedStep DEF RoutingInv, TypeOK, NoClash, SpecificIsUnambiguous
<1> QED BY <1>1, <1>2, StartStep, RefuseStep, DecodeStep DEF Next

-----------------------------------------------------------------------------
(* The bytes of a message. *)

\* The fields of a read are bytes and words, and what it reads the sensor has.
LEMMA QueryFields ==
  ASSUME NEW q \in Query
  PROVE  /\ q.address \in Byte /\ q.function \in Byte
         /\ q.start \in Register /\ q.count \in 1..127
         /\ q.function \notin White \cup HexDigit
BY QueryAssumption, Zenon

\* The sensor has every register a read asks for.
LEMMA SensorWords ==
  ASSUME NEW q \in Query, NEW a \in q.start..(q.start + q.count - 1)
  PROVE  Sensor[a] \in Int
BY QueryAssumption, Zenon

\* The eight bytes of a read.
LEMMA AskHolds ==
  ASSUME NEW q \in Query
  PROVE  /\ Long(Ask(q), Byte, 8) /\ ValidCrc(Ask(q))
         /\ Ask(q)[1] = q.address /\ Ask(q)[2] = q.function
         /\ Ask(q)[3] = BytesOf(q.start)[1] /\ Ask(q)[4] = BytesOf(q.start)[2]
         /\ Ask(q)[5] = BytesOf(q.count)[1] /\ Ask(q)[6] = BytesOf(q.count)[2]
<1>1. PICK a \in Byte, f \in Byte, s \in Int, c \in Int :
        a = q.address /\ f = q.function /\ s = q.start /\ c = q.count
  <2>1. Register \subseteq Int /\ 1..127 \subseteq Int
    BY DEF Register
  <2> QED BY <2>1, QueryFields, Zenon
<1> DEFINE data == ReadOf(a, f, s, c)
<1>2. /\ Long(data, Byte, 6)
      /\ data[1] = a /\ data[2] = f
      /\ data[3] = BytesOf(s)[1] /\ data[4] = BytesOf(s)[2]
      /\ data[5] = BytesOf(c)[1] /\ data[6] = BytesOf(c)[2]
  BY AskData
<1>3. Ask(q) = Framed(data)
  BY <1>1, Zenon DEF Ask, ReadOf
<1> HIDE DEF data
<1>4. 6 \in Nat \ {0} /\ 6 + 2 = 8
  OBVIOUS
<1>5. /\ Long(Framed(data), Byte, 6 + 2) /\ First(data, Framed(data), 6)
      /\ ValidCrc(Framed(data))
  BY <1>2, <1>4, FramedHolds, Zenon
<1>6. \A i \in {1, 2, 3, 4, 5, 6} : Framed(data)[i] = data[i]
  BY <1>5 DEF First
<1>7. Long(Framed(data), Byte, 8)
  BY <1>4, <1>5
<1> QED BY <1>1, <1>2, <1>3, <1>5, <1>6, <1>7

\* The bytes of an answer.
AnswerIs(answer, r) ==
  /\ Long(answer, Byte, 2 * r.count + 5) /\ ValidCrc(answer)
  /\ answer[1] = r.address /\ answer[2] = r.function /\ answer[3] = 2 * r.count
  /\ \A m \in 0..(r.count - 1) :
       /\ answer[3 + (2 * m + 1)] = BytesOf(Sensor[r.start + m])[1]
       /\ answer[3 + (2 * m + 2)] = BytesOf(Sensor[r.start + m])[2]

LEMMA AnswerHolds ==
  ASSUME NEW r \in Query
  PROVE  AnswerIs(Answer(r, Sensor), r)
<1>1. PICK a \in Byte, f \in Byte, s \in Int, c \in 1..127 :
        a = r.address /\ f = r.function /\ s = r.start /\ c = r.count
  <2>1. Register \subseteq Int
    BY DEF Register
  <2> QED BY <2>1, QueryFields, Zenon
<1>2. \A i \in s..(s + c - 1) : Sensor[i] \in Int
  BY <1>1, SensorWords, Zenon
<1> DEFINE answer == AnswerOf(a, f, s, c, Sensor)
<1>3. AnswerHas(answer, a, f, s, c, Sensor)
  BY <1>2, AnswerData, Zenon
<1>4. Answer(r, Sensor) = answer
  BY <1>1, Zenon DEF Answer, AnswerOf, BodyOf
<1> HIDE DEF answer
<1> QED BY <1>1, <1>3, <1>4, Zenon DEF AnswerHas, AnswerIs

\* What a message of a read and an answer holds, byte by byte.
AskIs(bytes, q) ==
  /\ bytes[1] = q.address /\ bytes[2] = q.function
  /\ bytes[3] = BytesOf(q.start)[1] /\ bytes[4] = BytesOf(q.start)[2]
  /\ bytes[5] = BytesOf(q.count)[1] /\ bytes[6] = BytesOf(q.count)[2]
DataIs(bytes, r) ==
  /\ bytes[9] = r.address /\ bytes[10] = r.function /\ bytes[11] = 2 * r.count
  /\ \A m \in 0..(r.count - 1) :
       /\ bytes[12 + 2 * m] = BytesOf(Sensor[r.start + m])[1]
       /\ bytes[13 + 2 * m] = BytesOf(Sensor[r.start + m])[2]

LEMMA SentHolds ==
  ASSUME NEW q \in Query, NEW r \in Query
  PROVE  /\ Long(Sent(q, r), Byte, 2 * r.count + 13)
         /\ AskIs(Sent(q, r), q) /\ DataIs(Sent(q, r), r)
<1> DEFINE ask == Ask(q)
           answer == Answer(r, Sensor)
           bytes == ask \o answer
<1>1. Sent(q, r) = bytes
  BY Zenon DEF Sent
<1>2. Long(ask, Byte, 8) /\ AskIs(ask, q)
  BY AskHolds, Zenon DEF AskIs
<1>3. AnswerIs(answer, r)
  BY AnswerHolds, Zenon
<1> HIDE DEF ask, answer
<1>4. PICK c \in Nat : c = r.count
  <2>1. 1..127 \subseteq Nat
    OBVIOUS
  <2> QED BY <2>1, QueryFields, Zenon
<1>5. PICK n \in Nat : n = 2 * c + 5
  OBVIOUS
<1>6. Long(answer, Byte, n)
  BY <1>3, <1>4, <1>5, Zenon DEF AnswerIs
<1>8. 8 \in Nat
  OBVIOUS
<1>9. Long(bytes, Byte, 8 + n) /\ First(ask, bytes, 8) /\ After(answer, 8, bytes, n)
  BY <1>2, <1>6, <1>8, JoinedLong, JoinedFirst, JoinedAfter, Zenon
<1>10. Long(bytes, Byte, 2 * c + 13)
  <2>1. 8 + n = 2 * c + 13
    BY <1>5
  <2> QED BY <1>9, <2>1
<1> HIDE DEF bytes
<1>11. AskIs(bytes, q)
  <2>1. \A i \in {1, 2, 3, 4, 5, 6} : bytes[i] = ask[i]
    BY <1>9 DEF First
  <2>2. /\ bytes[1] = ask[1] /\ bytes[2] = ask[2] /\ bytes[3] = ask[3]
        /\ bytes[4] = ask[4] /\ bytes[5] = ask[5] /\ bytes[6] = ask[6]
    BY <2>1
  <2> QED BY <1>2, <2>2, Zenon DEF AskIs
<1>12. DataIs(bytes, r)
  <2>1. \A k \in 1..n : bytes[8 + k] = answer[k]
    BY <1>9 DEF After
  <2>2. bytes[9] = answer[1] /\ bytes[10] = answer[2] /\ bytes[11] = answer[3]
    <3>1. 1 \in 1..n /\ 2 \in 1..n /\ 3 \in 1..n /\ 9 = 8 + 1 /\ 10 = 8 + 2 /\ 11 = 8 + 3
      BY <1>5
    <3> QED BY <2>1, <3>1
  <2>3. ASSUME NEW m \in 0..(c - 1)
        PROVE  /\ bytes[12 + 2 * m] = answer[3 + (2 * m + 1)]
               /\ bytes[13 + 2 * m] = answer[3 + (2 * m + 2)]
    <3>1. /\ 3 + (2 * m + 1) \in 1..n /\ 12 + 2 * m = 8 + (3 + (2 * m + 1))
          /\ 3 + (2 * m + 2) \in 1..n /\ 13 + 2 * m = 8 + (3 + (2 * m + 2))
      BY <1>5
    <3> QED BY <2>1, <3>1
  <2>4. /\ answer[1] = r.address /\ answer[2] = r.function /\ answer[3] = 2 * r.count
        /\ \A m \in 0..(c - 1) :
             /\ answer[3 + (2 * m + 1)] = BytesOf(Sensor[r.start + m])[1]
             /\ answer[3 + (2 * m + 2)] = BytesOf(Sensor[r.start + m])[2]
    BY <1>3, <1>4, Zenon DEF AnswerIs
  <2>5. \A m \in 0..(c - 1) :
             /\ bytes[12 + 2 * m] = BytesOf(Sensor[r.start + m])[1]
             /\ bytes[13 + 2 * m] = BytesOf(Sensor[r.start + m])[2]
    BY <2>3, <2>4
  <2>6. bytes[9] = r.address /\ bytes[10] = r.function /\ bytes[11] = 2 * r.count
    BY <2>2, <2>4, Zenon
  <2> QED BY <1>4, <2>5, <2>6, Zenon DEF DataIs
<1> QED BY <1>1, <1>4, <1>10, <1>11, <1>12, Zenon

\* A message begins with the read, and the rest of it is the answer.
LEMMA SentParts ==
  ASSUME NEW q \in Query, NEW r \in Query
  PROVE  /\ SubSeq(Sent(q, r), 1, 8) = Ask(q)
         /\ SubSeq(Sent(q, r), 9, Len(Sent(q, r))) = Answer(r, Sensor)
<1> DEFINE ask == Ask(q)
           answer == Answer(r, Sensor)
           bytes == ask \o answer
<1>1. Sent(q, r) = bytes
  BY Zenon DEF Sent
<1>2. PICK n \in Nat : n = 2 * r.count + 5
  <2>1. PICK c \in 1..127 : c = r.count
    BY QueryFields, Zenon
  <2> QED BY <2>1
<1>3. Long(ask, Byte, 8) /\ Long(answer, Byte, n)
  BY <1>2, AskHolds, AnswerHolds, Zenon DEF AnswerIs
<1> HIDE DEF ask, answer
<1>4. 8 \in Nat
  OBVIOUS
<1>5. Long(bytes, Byte, 8 + n) /\ First(ask, bytes, 8) /\ After(answer, 8, bytes, n)
  BY <1>2, <1>3, <1>4, JoinedLong, JoinedFirst, JoinedAfter, Zenon
<1> HIDE DEF bytes
<1>6. bytes \in Seq(Byte) /\ Len(bytes) = 8 + n /\ \A i \in 1..(8 + n) : bytes[i] \in Byte
  <2>1. bytes \in Seq(Byte) /\ Len(bytes) = 8 + n
    BY <1>5 DEF Long
  <2> QED BY <2>1, ElementOfSeq
<1>7. SubSeq(bytes, 1, 8) = ask
  <2> DEFINE part == SubSeq(bytes, 1, 8)
  <2>1. part \in Seq(Byte) /\ Len(part) = 8 /\ \A i \in 1..8 : part[i] = bytes[i]
    BY <1>6, SubSeqProperties
  <2>2. ask \in Seq(Byte) /\ Len(ask) = 8 /\ \A i \in 1..8 : bytes[i] = ask[i]
    BY <1>3, <1>5 DEF Long, First
  <2> HIDE DEF part
  <2>3. part = ask
    BY <2>1, <2>2, SeqEqual
  <2> QED BY <2>3 DEF part
<1>8. SubSeq(bytes, 9, 8 + n) = answer
  <2> DEFINE part == SubSeq(bytes, 9, 8 + n)
  <2>1. part \in Seq(Byte) /\ Len(part) = n /\ \A i \in 1..n : part[i] = bytes[8 + i]
    <3>1. 9 \in Int /\ 8 + n \in Int /\ \A k \in 9..(8 + n) : bytes[k] \in Byte
      BY <1>6
    <3>2. /\ part \in Seq(Byte)
          /\ Len(part) = IF 9 <= 8 + n THEN 8 + n - 9 + 1 ELSE 0
          /\ \A i \in 1..(8 + n - 9 + 1) : part[i] = bytes[9 + i - 1]
      BY <1>6, <3>1, SubSeqProperties
    <3>3. /\ (IF 9 <= 8 + n THEN 8 + n - 9 + 1 ELSE 0) = n /\ 8 + n - 9 + 1 = n
          /\ \A i \in 1..n : 9 + i - 1 = 8 + i
      OBVIOUS
    <3> HIDE DEF part
    <3> QED BY <3>2, <3>3
  <2>2. answer \in Seq(Byte) /\ Len(answer) = n /\ \A i \in 1..n : bytes[8 + i] = answer[i]
    BY <1>3, <1>5 DEF Long, After
  <2> HIDE DEF part
  <2>3. part = answer
    BY <2>1, <2>2, SeqEqual
  <2> QED BY <2>3 DEF part
<1> QED BY <1>1, <1>6, <1>7, <1>8 DEF ask, answer

\* The high byte of a count is zero, which is in no text, and nor is a function code.
LEMMA SentIsNoText ==
  ASSUME NEW q \in Query, NEW r \in Query
  PROVE  /\ Sent(q, r)[2] \notin White \cup HexDigit
         /\ Sent(q, r)[5] \notin White \cup HexDigit
<1>1. AskIs(Sent(q, r), q)
  BY SentHolds, Zenon
<1>2. Sent(q, r)[2] \notin White \cup HexDigit
  BY <1>1, QueryFields, Zenon DEF AskIs
<1>3. PICK c \in 1..127 : c = q.count
  BY QueryFields, Zenon
<1>4. BytesOf(c)[1] = 0
  BY DEF BytesOf
<1>5. 0 \notin White \cup HexDigit
  BY DEF White, HexDigit
<1> QED BY <1>1, <1>2, <1>3, <1>4, <1>5 DEF AskIs

\* The registers of an answer are the sensor's, in the window that was read.
LEMMA ReadHolds ==
  ASSUME NEW q \in Query
  PROVE  LET window == q.start..(q.start + q.count - 1) IN
         Read(Sent(q, q)).registers = [a \in window |-> BytesOf(Sensor[a])]
<1> DEFINE bytes == Sent(q, q)
<1>1. PICK s \in Register, c \in 1..127 : s = q.start /\ c = q.count
  BY QueryFields, Zenon
<1>2. Long(bytes, Byte, 2 * q.count + 13) /\ AskIs(bytes, q) /\ DataIs(bytes, q)
  BY SentHolds, Zenon
<1> HIDE DEF bytes
<1>3. PICK n \in Nat : n = 2 * c + 13
  OBVIOUS
<1>4. Long(bytes, Byte, n)
  BY <1>1, <1>2, <1>3, Zenon
<1>5. bytes[2] \notin White \cup HexDigit
  BY <1>2, QueryFields, Zenon DEF AskIs
<1>6. Normalized(bytes) = bytes
  <2>1. 2 \in 1..n
    BY <1>3
  <2> QED BY <1>4, <1>5, <2>1, NotText, Zenon
<1>7. Word(bytes, 3) = s /\ Word(bytes, 5) = c
  <2>1. 3 \in Int /\ 5 \in Int /\ 3 + 1 = 4 /\ 5 + 1 = 6
    OBVIOUS
  <2>2. c \in Register
    <3>1. c \in Int /\ 0 <= c /\ c < 256 * 256
      OBVIOUS
    <3> QED BY <3>1, RegisterIs, Zenon
  <2>3. /\ bytes[3] = BytesOf(s)[1] /\ bytes[3 + 1] = BytesOf(s)[2]
        /\ bytes[5] = BytesOf(c)[1] /\ bytes[5 + 1] = BytesOf(c)[2]
    BY <1>1, <1>2, <2>1 DEF AskIs
  <2> QED BY <2>1, <2>2, <2>3, WordIs, Zenon
<1>8. s \in Int
  BY RegisterIs
<1>9. ASSUME NEW a \in s..(s + c - 1)
      PROVE  SubSeq(bytes, 12 + 2 * (a - s), 13 + 2 * (a - s)) = BytesOf(Sensor[a])
  <2>1. PICK m \in 0..(c - 1) : m = a - s /\ a = s + m
    BY <1>8
  <2>2. PICK k \in 1..(n - 1) : k = 12 + 2 * m
    BY <1>3
  <2>3. 13 + 2 * m = k + 1
    BY <2>2
  <2>4. bytes[12 + 2 * m] = BytesOf(Sensor[a])[1] /\ bytes[13 + 2 * m] = BytesOf(Sensor[a])[2]
    BY <1>1, <1>2, <2>1 DEF DataIs
  <2>5. bytes[k] = BytesOf(Sensor[a])[1] /\ bytes[k + 1] = BytesOf(Sensor[a])[2]
    BY <2>2, <2>3, <2>4
  <2>6. PICK w \in Int : w = Sensor[a]
    BY <1>1, SensorWords
  <2>7. bytes[k] = BytesOf(w)[1] /\ bytes[k + 1] = BytesOf(w)[2]
    BY <2>5, <2>6
  <2>8. SubSeq(bytes, k, k + 1) = BytesOf(w)
    BY <1>4, <2>7, TwoOf
  <2> QED BY <2>1, <2>2, <2>3, <2>6, <2>8
<1>10. Read(bytes).registers =
         [a \in s..(s + c - 1) |-> SubSeq(bytes, 12 + 2 * (a - s), 13 + 2 * (a - s))]
  BY <1>6, <1>7 DEF Read
<1>11. Read(bytes).registers = [a \in s..(s + c - 1) |-> BytesOf(Sensor[a])]
  BY <1>9, <1>10
<1> QED BY <1>1, <1>11 DEF bytes

\* Words times over leaves nothing.
LEMMA WholeTurns ==
  ASSUME NEW k \in Int
  PROVE  (256 * (256 * k)) % (256 * 256) = 0
OBVIOUS

\* The unsigned and the signed number of a word's two bytes are it, modulo Words.
LEMMA Unsigned ==
  ASSUME NEW w \in Int
  PROVE  Whole(w) \in 0..(Words - 1) /\ (Whole(w) - w) % Words = 0
<1>1. PICK v \in Register, k \in Int : v = Whole(w) /\ w = 256 * (256 * k) + v
  BY WholeTimes
<1>2. -k \in Int /\ v \in Int
  BY RegisterIs
<1>3. v - w = 256 * (256 * (-k))
  BY <1>1, <1>2
<1>4. (v - w) % (256 * 256) = 0
  BY <1>2, <1>3, WholeTurns
<1> QED BY <1>1, <1>4, Zenon DEF Register, Words

\* A word taken as signed is the number it was sent for, but for whole turns of the register.
LEMMA Signed ==
  ASSUME NEW w \in Int
  PROVE  LET value == IF 2 * Whole(w) >= Words THEN Whole(w) - Words ELSE Whole(w) IN
         2 * value \in -Words..(Words - 1) /\ (value - w) % Words = 0
<1>1. PICK v \in Register, k \in Int : v = Whole(w) /\ w = 256 * (256 * k) + v
  BY WholeTimes
<1>2. v \in Int /\ 0 <= v /\ v < 256 * 256
  BY RegisterIs
<1> DEFINE value == IF 2 * v >= 256 * 256 THEN v - 256 * 256 ELSE v
<1>3. value \in Int /\ -(256 * 256) <= 2 * value /\ 2 * value < 256 * 256
  BY <1>2
<1>4. PICK n \in Int : value - w = 256 * (256 * n)
  <2>1. CASE 2 * v >= 256 * 256
    <3>1. -k - 1 \in Int /\ value - w = 256 * (256 * (-k - 1))
      BY <1>1, <1>2, <2>1
    <3> QED BY <3>1
  <2>2. CASE ~(2 * v >= 256 * 256)
    <3>1. -k \in Int /\ value - w = 256 * (256 * (-k))
      BY <1>1, <1>2, <2>2
    <3> QED BY <3>1
  <2> QED BY <2>1, <2>2
<1> HIDE DEF value
<1>5. (value - w) % (256 * 256) = 0
  BY <1>4, WholeTurns
<1>6. \E m \in Int : m = 256 * 256
  OBVIOUS
<1>7. 2 * value \in -(256 * 256)..(256 * 256 - 1)
  <2>1. \A m \in Int : -m <= 2 * value /\ 2 * value < m => 2 * value \in -m..(m - 1)
    BY <1>3
  <2>2. PICK m \in Int : m = 256 * 256
    BY <1>6
  <2>3. 2 * value \in -m..(m - 1)
    BY <1>3, <2>1, <2>2
  <2> QED BY <2>2, <2>3, Zenon
<1> QED BY <1>1, <1>5, <1>7, Zenon DEF value, Words

\* Every metric has a field that its type can decode.
LEMMA LayoutIs ==
  ASSUME NEW type \in ProfileType, NEW range
  PROVE  /\ DOMAIN Layout(type, range) = MetricsOf(type)
         /\ \A m \in MetricsOf(type) :
              Layout(type, range)[m].kind \in {"float", "signed", "unsigned"}
BY DEF Layout, MetricsOf, ProfileType, Field

\* A field whose registers are there has the value of the sensor's.
LEMMA DecodesAsMeasured ==
  ASSUME NEW field, field.kind \in {"float", "signed", "unsigned"}, NEW window, NEW registers,
         registers = [a \in window |-> BytesOf(Sensor[a])],
         \A a \in window : Sensor[a] \in Int,
         RegistersOf(field) \subseteq window
  PROVE  Measured(field, Value(field, registers))
<1>1. PICK r : r = field.register
  OBVIOUS
<1>2. r \in window
  BY <1>1 DEF RegistersOf
<1>3. PICK w \in Int : w = Sensor[r]
  BY <1>2
<1>4. Word(registers[r], 1) = Whole(w)
  BY <1>2, <1>3, WordOfBytes
<1>5. CASE field.kind = "float"
  <2>1. r + 1 \in window
    BY <1>1, <1>5 DEF RegistersOf
  <2>2. registers[r] = BytesOf(Sensor[r]) /\ registers[r + 1] = BytesOf(Sensor[r + 1])
    BY <1>2, <2>1
  <2>3. Value(field, registers) = registers[r] \o registers[r + 1]
    BY <1>1, <1>5, Zenon DEF Value
  <2> QED BY <1>1, <1>5, <2>2, <2>3, Zenon DEF Measured
<1>6. CASE field.kind = "unsigned"
  <2>1. Value(field, registers) = Whole(w)
    BY <1>1, <1>4, <1>6, Zenon DEF Value
  <2>2. Whole(w) \in 0..(Words - 1) /\ (Whole(w) - w) % Words = 0
    BY Unsigned
  <2> QED BY <1>1, <1>3, <1>6, <2>1, <2>2, Zenon DEF Measured
<1>7. CASE field.kind = "signed"
  <2> DEFINE value == IF 2 * Whole(w) >= Words THEN Whole(w) - Words ELSE Whole(w)
  <2>1. Value(field, registers) = value
    BY <1>1, <1>4, <1>7 DEF Value
  <2>2. 2 * value \in -Words..(Words - 1) /\ (value - w) % Words = 0
    BY Signed
  <2> HIDE DEF value
  <2> QED BY <1>1, <1>3, <1>7, <2>1, <2>2, Zenon DEF Measured
<1> QED BY <1>5, <1>6, <1>7

\* Every type decodes what the sensor has.
LEMMA DecodesTheSensor == AsMeasured
<1> SUFFICES ASSUME NEW q \in Query, NEW type \in ProfileType, q.function \in {3, 4}
             PROVE  LET range   == IF Ranged(type) THEN 1000 ELSE None
                        fields  == Layout(type, range)
                        metrics == Decoded(type, range, Read(Sent(q, q)).registers)
                    IN  /\ DOMAIN metrics =
                             {m \in MetricsOf(type) :
                                RegistersOf(fields[m]) \subseteq q.start..(q.start + q.count - 1)}
                        /\ \A m \in DOMAIN metrics : Measured(fields[m], metrics[m].number)
  BY DEF AsMeasured
<1> DEFINE range == IF Ranged(type) THEN 1000 ELSE None
           fields == Layout(type, range)
           registers == Read(Sent(q, q)).registers
           metrics == Decoded(type, range, registers)
           window == q.start..(q.start + q.count - 1)
           there == {m \in MetricsOf(type) : RegistersOf(fields[m]) \subseteq window}
<1>1. registers = [a \in window |-> BytesOf(Sensor[a])]
  BY ReadHolds, Zenon
<1>2. \A a \in window : Sensor[a] \in Int
  BY SensorWords, Zenon
<1> HIDE DEF range, registers, window
<1>3. /\ DOMAIN fields = MetricsOf(type)
      /\ \A m \in MetricsOf(type) : fields[m].kind \in {"float", "signed", "unsigned"}
  BY LayoutIs, Zenon
<1>4. DOMAIN registers = window
  BY <1>1
<1>5. metrics = [m \in there |-> [number |-> Value(fields[m], registers),
                                  scale |-> fields[m].scale]]
  BY <1>3, <1>4, Zenon DEF Decoded
<1> HIDE DEF metrics
<1>6. DOMAIN metrics = there /\ \A m \in there : metrics[m].number = Value(fields[m], registers)
  BY <1>5
<1>7. ASSUME NEW m \in there PROVE Measured(fields[m], metrics[m].number)
  <2>1. Measured(fields[m], Value(fields[m], registers))
    <3>1. PICK field : field = fields[m]
      OBVIOUS
    <3>2. field.kind \in {"float", "signed", "unsigned"} /\ RegistersOf(field) \subseteq window
      BY <1>3, <3>1
    <3>3. Measured(field, Value(field, registers))
      BY <1>1, <1>2, <3>2, DecodesAsMeasured
    <3> QED BY <3>1, <3>3
  <2> QED BY <1>6, <2>1, Zenon
<1>8. DOMAIN metrics = there /\ \A m \in DOMAIN metrics : Measured(fields[m], metrics[m].number)
  BY <1>6, <1>7, Zenon
<1> QED BY <1>8, Zenon DEF metrics, there, window, registers, fields, range

-----------------------------------------------------------------------------
(* The theorems. *)

\* The inductive invariant holds for every file and all messages.
THEOREM Invariance == Spec => []RoutingInv
<1> QED BY InvInit, InvStep, PTL DEF Spec

\* Every variable keeps its type.
THEOREM TypeCorrect == Spec => []TypeOK
<1>1. RoutingInv => TypeOK
  BY DEF RoutingInv
<1> QED BY <1>1, Invariance, PTL

\* No metric of an output device is fed by two profiles: where a file would let two in,
\* the service does not start.
THEOREM OneProfileFeeds == Spec => []OneSensorPerMetric
<1>1. ASSUME RoutingInv PROVE OneSensorPerMetric
  <2> SUFFICES ASSUME NEW f \in fed, NEW g \in fed, f[1] = g[1], f[2] = g[2], f[3] # g[3]
               PROVE  FALSE
    BY DEF OneSensorPerMetric
  <2>1. f[3] \in Profile /\ g[3] \in Profile
    BY <1>1 DEF RoutingInv, TypeOK
  <2>2. /\ OutputDevice(f[3]) = OutputDevice(g[3])
        /\ f[2] \in ResolvedOutputs(f[3]) \cap ResolvedOutputs(g[3])
    BY <1>1 DEF RoutingInv, FedAsDefined
  <2>3. DistinctTargets
    BY <1>1 DEF RoutingInv, FedAsDefined, Loaded
  <2> QED BY <2>1, <2>2, <2>3 DEF DistinctTargets
<1> QED BY <1>1, Invariance, PTL

\* No message of a service that started has two of its metrics under one name.
THEOREM NeverClashes == Spec => []NoClash
<1>1. RoutingInv => NoClash
  BY DEF RoutingInv
<1> QED BY <1>1, Invariance, PTL

\* Where every match is complete, no message is left out because two profiles claim it.
THEOREM Unambiguous == Spec => []SpecificIsUnambiguous
<1>1. RoutingInv => SpecificIsUnambiguous
  BY DEF RoutingInv
<1> QED BY <1>1, Invariance, PTL

\* Whatever the sensor's registers hold, and whichever window of them was read, every type
\* decodes the values they have, and all those metrics whose registers are in the window.
THEOREM DecodedAsMeasured == Spec => []MetricsAreTheSensors
<1>1. MetricsAreTheSensors
  BY DecodesTheSensor, Zenon DEF MetricsAreTheSensors
<1> QED BY <1>1, PTL

\* A read and an answer parse exactly if the answer is of such a read as it stands with, in
\* address, function and count, which is all that a response tells; if they are sent as
\* hexadecimal text the same is true of it.
THEOREM ReadsWithTheirAnswersParse ==
  ASSUME NEW q \in Query, NEW r \in Query, NEW m \in Forms(Sent(q, r))
  PROVE  Parses(m) <=> Alike(q, r) /\ q.function \in {3, 4}
<1> DEFINE bytes == Sent(q, r)
           query == Ask(q)
           response == Answer(r, Sensor)
<1>1. PICK c \in 1..127, d \in 1..127 : c = q.count /\ d = r.count
  BY QueryFields, Zenon
<1>2. PICK n \in Nat \ {0} : n = 2 * d + 13
  OBVIOUS
<1>3. Long(bytes, Byte, n) /\ AskIs(bytes, q)
  BY <1>1, <1>2, SentHolds, Zenon
<1>4. SubSeq(bytes, 1, 8) = query /\ SubSeq(bytes, 9, Len(bytes)) = response
  BY SentParts, Zenon
<1>5. Normalized(m) = bytes
  <2>1. Normalized(bytes) = bytes
    <3>1. 2 \in 1..n
      BY <1>2
    <3> QED BY <1>3, <3>1, SentIsNoText, NotText, Zenon
  <2>2. CASE m = bytes
    BY <2>1, <2>2, Zenon
  <2>3. CASE m = HexText(bytes, TRUE) \/ m = HexText(bytes, FALSE)
    <3> HIDE DEF bytes
    <3>1. TRUE \in BOOLEAN /\ FALSE \in BOOLEAN
      OBVIOUS
    <3> QED BY <1>3, <2>3, <3>1, TextIsItsBytes, Zenon
  <2> QED BY <2>2, <2>3 DEF Forms
<1>6. /\ Long(query, Byte, 8) /\ ValidCrc(query) /\ AskIs(query, q)
      /\ Long(response, Byte, 2 * d + 5) /\ ValidCrc(response)
      /\ response[1] = r.address /\ response[2] = r.function /\ response[3] = 2 * d
  BY <1>1, AskHolds, AnswerHolds, Zenon DEF AskIs, AnswerIs
<1> HIDE DEF bytes, query, response
<1>7. Parses(m) <=> Answers(query, response)
  <2>1. Len(bytes) >= 13
    BY <1>2, <1>3 DEF Long
  <2>2. Len(response) = 3 + response[3] + 2
    BY <1>6 DEF Long
  <2> QED BY <1>4, <1>5, <1>6, <2>1, <2>2, Zenon DEF Parses
<1>8. Word(query, 5) = c
  <2>1. c \in Register
    <3>1. c \in Int /\ 0 <= c /\ c < 256 * 256
      OBVIOUS
    <3> QED BY <3>1, RegisterIs, Zenon
  <2>2. 5 \in Int /\ 5 + 1 = 6
    OBVIOUS
  <2>3. query[5] = BytesOf(c)[1] /\ query[5 + 1] = BytesOf(c)[2]
    BY <1>1, <1>6, <2>2 DEF AskIs
  <2> QED BY <2>1, <2>2, <2>3, WordIs, Zenon
<1>9. /\ query[1] = q.address /\ query[2] = q.function
  BY <1>6 DEF AskIs
<1>10. 2 * c = 2 * d <=> q.count = r.count
  BY <1>1
<1>11. Answers(query, response) <=>
         /\ q.function \in {3, 4}
         /\ q.address = r.address /\ q.function = r.function /\ q.count = r.count
  BY <1>6, <1>8, <1>9, <1>10, Zenon DEF Answers
<1>12. Alike(q, r) <=> q.address = r.address /\ q.function = r.function /\ q.count = r.count
  BY DEF Alike, MatchFields
<1> QED BY <1>7, <1>11, <1>12

\* One bit turned over anywhere in a message, and it is refused; nor does it become a text.
THEOREM FlipsAreRefused == BrokenRefused
<1> SUFFICES ASSUME NEW q \in Query, NEW r \in Query, NEW m \in Flips(Sent(q, r))
             PROVE  ~Parses(m)
  BY DEF BrokenRefused
<1> DEFINE bytes == Sent(q, r)
<1>1. PICK d \in 1..127 : d = r.count
  BY QueryFields, Zenon
<1>2. PICK n \in Nat \ {0} : n = 2 * d + 13
  OBVIOUS
<1>3. Long(bytes, Byte, n)
  BY <1>1, <1>2, SentHolds, Zenon
<1>4. /\ Long(SubSeq(bytes, 1, 8), Byte, 8) /\ ValidCrc(SubSeq(bytes, 1, 8))
      /\ Long(SubSeq(bytes, 9, Len(bytes)), Byte, 2 * d + 5)
      /\ ValidCrc(SubSeq(bytes, 9, Len(bytes)))
  BY <1>1, SentParts, AskHolds, AnswerHolds, Zenon DEF AnswerIs
<1>5. bytes[2] \notin White \cup HexDigit /\ bytes[5] \notin White \cup HexDigit
  BY SentIsNoText, Zenon
<1>6. m \in Flips(bytes)
  OBVIOUS
<1> HIDE DEF bytes
<1>7. DOMAIN bytes = 1..n /\ Len(bytes) = n /\ bytes \in [1..n -> Byte]
  BY <1>3, LenProperties DEF Long
<1>8. PICK k \in 1..n, bit \in 0..7 :
        m = [bytes EXCEPT ![k] = ByteOf(Xor(Bits(bytes[k]), {bit}))]
  <2>1. \E i \in DOMAIN bytes, b \in 0..7 :
          m = [bytes EXCEPT ![i] = ByteOf(Xor(Bits(bytes[i]), {b}))]
    BY <1>6 DEF Flips
  <2> QED BY <1>7, <2>1, Zenon
<1>9. m[k] \in Byte /\ m[k] # bytes[k] /\ \A i \in 1..n : i # k => m[i] = bytes[i]
  <2> DEFINE bits == Xor(Bits(bytes[k]), {bit})
  <2>1. bits \in SUBSET (0..7)
    <3>1. Bits(bytes[k]) \subseteq 0..7 /\ {bit} \subseteq 0..7
      BY BitsType
    <3> QED BY <3>1, Zenon DEF Xor
  <2>2. bits # Bits(bytes[k])
    BY DEF Xor
  <2> HIDE DEF bits
  <2>3. ByteOf(bits) \in Byte /\ Bits(ByteOf(bits)) = bits
    BY <2>1, ByteOfBits
  <2>4. m[k] = ByteOf(bits) /\ \A i \in 1..n : i # k => m[i] = bytes[i]
    BY <1>7, <1>8 DEF bits
  <2> QED BY <2>2, <2>3, <2>4
<1>10. Long(m, Byte, n)
  <2>1. DOMAIN m = 1..n
    BY <1>7, <1>8
  <2>2. m \in [1..n -> Byte]
    BY <1>7, <1>8, <1>9
  <2>3. m \in Seq(Byte)
    BY <2>2, SeqDef
  <2> QED BY <2>1, <2>3, LenProperties DEF Long
<1>11. Normalized(m) = m
  <2>1. 2 \in 1..n /\ 5 \in 1..n /\ (k # 2 \/ k # 5)
    BY <1>2
  <2>2. m[2] \notin White \cup HexDigit \/ m[5] \notin White \cup HexDigit
    BY <1>5, <1>9, <2>1, Zenon
  <2> QED BY <1>10, <2>1, <2>2, NotText, Zenon
<1>12. CASE k \in 1..8
  <2> DEFINE good == SubSeq(bytes, 1, 8)
             bad == SubSeq(m, 1, 8)
  <2>1. 8 \in 1..n /\ 1 \in 1..n /\ 8 \in Nat
    BY <1>2
  <2>2. Long(bad, Byte, 8)
    BY <1>10, <2>1, PartLong
  <2>3. \A i \in 1..8 : good[i] = bytes[i] /\ bad[i] = m[i]
    <3>1. \A i \in 1..(8 - 1 + 1) : good[i] = bytes[1 - 1 + i]
      BY <1>3, <2>1, PartOf
    <3>2. \A i \in 1..(8 - 1 + 1) : bad[i] = m[1 - 1 + i]
      BY <1>10, <2>1, PartOf
    <3> QED BY <3>1, <3>2
  <2> HIDE DEF good, bad
  <2>4. good[k] # bad[k] /\ \A i \in 1..8 : i # k => good[i] = bad[i]
    <3>1. \A i \in 1..8 : i \in 1..n
      BY <1>2
    <3> QED BY <1>9, <1>12, <2>3, <3>1, Zenon
  <2>5. ~ValidCrc(bad)
    BY <1>4, <1>12, <2>1, <2>2, <2>4, OneByteIsFound, Zenon DEF good
  <2> QED BY <1>11, <2>5, Zenon DEF Parses, bad
<1>13. CASE k \notin 1..8
  <2> DEFINE good == SubSeq(bytes, 9, Len(bytes))
             bad == SubSeq(m, 9, Len(m))
  <2>1. PICK l \in Nat : l = 2 * d + 5 /\ l = n - 8
    BY <1>2
  <2>2. Len(m) = n /\ 9 \in 1..n /\ n \in 9..n /\ n - 9 + 1 = l /\ n - 8 = l
    BY <1>2, <1>10, <2>1 DEF Long
  <2>3. Long(bad, Byte, l)
    BY <1>10, <2>2, PartLong
  <2>4. \A i \in 1..l : good[i] = bytes[8 + i] /\ bad[i] = m[8 + i]
    <3>1. \A i \in 1..(n - 9 + 1) : SubSeq(bytes, 9, n)[i] = bytes[9 - 1 + i]
      BY <1>3, <2>2, PartOf
    <3>2. \A i \in 1..(n - 9 + 1) : SubSeq(m, 9, n)[i] = m[9 - 1 + i]
      BY <1>10, <2>2, PartOf
    <3> QED BY <1>7, <2>2, <3>1, <3>2
  <2> HIDE DEF good, bad
  <2>5. PICK j \in 1..l : k = 8 + j
    BY <1>2, <1>13, <2>1
  <2>6. good[j] # bad[j] /\ \A i \in 1..l : i # j => good[i] = bad[i]
    <3>1. \A i \in 1..l : 8 + i \in 1..n /\ (i # j => 8 + i # k)
      BY <2>1, <2>5
    <3> QED BY <1>9, <2>4, <2>5, <3>1
  <2>7. ~ValidCrc(bad)
    BY <1>4, <2>1, <2>3, <2>6, OneByteIsFound, Zenon DEF good
  <2> QED BY <1>11, <2>7, Zenon DEF Parses, bad
<1> QED BY <1>12, <1>13

\* For any reads of any registers, and messages on record that do parse: what the service
\* parses is the reads that stand with such an answer, and nothing one bit away from one.
THEOREM ParsesReadsOnly ==
  ASSUME \A m \in Recorded : Parses(m)
  PROVE  Spec => []OnlyReadsParse
<1>1. ReadsParse
  BY ReadsWithTheirAnswersParse, Zenon DEF ReadsParse
<1>2. OnlyReadsParse
  BY <1>1, FlipsAreRefused, Zenon DEF OnlyReadsParse
<1> QED BY <1>2, PTL

=============================================================================
