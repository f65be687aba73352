# A verified model of the water telemetry stack

TLA+ modules for the program's own logic: how a reading of a water sensor gets
from a serial line, a Modbus gateway or a public HTTP interface into the time
series database, and how operators change the registry, and the EMQX rules, meanwhile. TLC
checks the modules on small instances; TLAPS proves every safety property of theirs that
holds for every instance.

## The system

```
 sensor line --> serial-emqx-bridge --+ water/raw/v1 (JSON)
 Modbus gateway ----------------------+ water/raw/v1 (hex)
                                      v
                                    EMQX --> decoder-aggregator --+
 HTTP interface --> water-api-collector --> EMQX (water/v1) <-----+
                                      |  rules: one SQL call per message
                                      v
             ingest_telemetry: raw_message, metric_sample,
             metric_sample_source, device.last_seen_at
                                      ^
 Grafana forms, PostgREST --> admin_api.* : plant, point, device, metric_dict,
                                      point_metric_source, audit_log
```

| component | state it keeps | operations | what is hard | what makes it correct | module |
|---|---|---|---|---|---|
| telemetry store (`001_iot_init.sql`) | five tables | `ingest_telemetry` | replays, corrections, late messages, settings that change, a catalog derived message by message, calls that overlap | one row per observation; samples mirror it; the catalog agrees with the samples; overlapping calls act as if one after the other | `Ingest`, `IngestConcurrent`, `ObservationStore` |
| control plane (`002_admin_api.sql`) | the registry, the audit log | ten functions, `v_point_metric_resolved` | calls that overlap at READ COMMITTED, cascades | nothing dangles; no unasked deletion; the audit log tells the truth | `AdminApi` |
| water-api-collector | a cursor per source, in a file | one loop over the sources, `_map_record` | crashes between publish and save, late records, shifting pages, one bad source | no record is skipped; every healthy source is finished | `WaterCollector` |
| decoder-aggregator, service | minute buckets in memory, no lock | `_on_connect`, `_on_disconnect`, `_on_message` (MQTT thread), `run`, `_publish_ready` (main thread) | interleaving of the two, retries, lost and refused connections, restarts | means are whole; readings are lost only by a restart; it ends up subscribed | `DecoderService` |
| decoder-aggregator, profiles | a file read once | `load_profiles`, `select_profile`, `transform_metrics` | what validation must exclude for the whole run | one sensor per output metric | `ProfileRouting` |
| decoder-aggregator, Modbus frames | none | `parse_read_frames`, `decode_read_frames` | text or bytes, broken frames, answers to another read, values below zero | what parses is a read and its answer; what is decoded is what was measured | `ModbusFrames` |
| serial-emqx-bridge | a text buffer | `feed`, `parse_frame`, `run` | markers split between reads, noise, broken and overlong frames | each intact frame is published once, in order | `SerialBridge` |
| EMQX rules, `stack.sh configure` | two rules, an action, a connector | delete and create, in eight calls | telemetry that arrives in the gap; calls that fail half-way; a rule whose database call raises after the acknowledgement | what the gap drops is asked for again | `TelemetryPipeline` |
| views, export, dashboards, rs232 tester, roles, TLS, backups | none of their own | read, render, run tools | | not modelled | |

The components share no memory. They meet in the broker (messages, at least
once, acknowledged to the sender whatever becomes of the database call) and in the database
(transactions). The store's promise that a repeated observation replaces itself
is what lets the collector repeat windows; the registry decides which messages
the store accepts.

## Modules

**Ingest.** `raw`, `sample`, `catalog` and `lastSeen` are `raw_message`,
`metric_sample`, `metric_sample_source` and `device.last_seen_at`; `device` and
`plantOf` are the settings the function reads. The function is one transaction
and one action: `Accepts` is every check before and during the writes (a value
that is no number raises in the loop and rolls everything back), `Conflicting` the
partial unique index, `Without` the deletion of the samples of the payload
replaced, `Rows` and `Catalogued` the loop, `Seen` the last update. A JSON key is
a number, its place in jsonb's order of keys, so that two spellings of a metric
are two keys with one `Lower`, written in a known order. The row number of a new
message is any unused one, which is how two transactions at once may commit in
either order. `Reconfigure` and `MovePoint` are what operators do to the settings.
`Reconfigure` is of devices there are: that a device is deleted and entered anew, which
empties `last_seen_at` while its raw messages stay, is left out, and so is `msg_id`, which
every call writes anew, a repetition's too.
Times are natural numbers (a unit for a second), so the rounding of fractions of a
second by `to_timestamp` is not covered.

**ObservationStore** is the store with no tables: a function from topic and source
time to the last content accepted, plus the messages without a source time.
`Ingest` implements it under the mapping `Store` in that module.

**IngestConcurrent** is the same function as the database runs it. A session's
transaction is `Begin` (the checks and the SELECT of the device's settings),
`InsertRaw`, one `StoreMetric` per key and `Commit`; what it writes is private (`tx`)
until the commit, and `Ingest`'s variables are what is committed. `Held` and `Wants`
are the row locks: the observation's row in `raw_message`, by its partial unique index,
and the catalog rows. `Abort` is any failure, `BreakDeadlock` the database's way out of a
cycle. `ImplementsIngest` says that every commit is one step of `Ingest`; the one
exception is named, `StaleCommit`: a device changed between the SELECT and the commit,
since the SELECT locks nothing, so that the call stores under settings that are no longer
the device's. Operators change devices (`Operate`), not the plant of a point, in this
module.

**WaterCollector.** `Start` is `load_runtime_config` (`Loads`, `Overlap`) and the entry of
the loop; then one action per step of `collect_once`: `Open` (load the cursor,
make the window) or `Skip`, `FetchPage` until the count told by the last page is
reached, `Handle` or `Reject` each record, `Save`. The order of records within a
window is left open: nothing is saved before all of them are done. `MapRecord` says
what a record becomes: `Poison` records raise, `Blank` ones have no metric and are
passed over. Failures leave the call for the next source, as `main` does; `Crash` may come anywhere. The
interface is external: it lists records newest or oldest first and up to `MaxLate`
late, and cuts pages from what it lists when asked. Cursors are kept by `source_id`.

**TelemetryPipeline** composes the collector with the rule that hands its messages to
the store and with `configure_emqx_direct_ingest`. `emqx` is the set of objects there
are, `Calls` the eight calls in the script's order, `step` the one it is at. A deletion
that fails is ignored; a creation that fails ends the script, and it is run again. EMQX
acknowledges a message whether or not a rule takes it, and whether or not the rule's call
of `ingest_telemetry` ends well, so a record can be published and not stored. `Deliver` is a
publish whose call ends well, or is not made for want of a rule; `CallRaises` one whose call
raises: the device is missing, disabled or moved (`Accepts` of `Ingest`), or the transaction
is aborted (`Abort` and `BreakDeadlock` of `IngestConcurrent`). The registry is not part of
this module, so any call may raise, as one of the faults that `MaxFaults` bounds. `refused`
is the records whose last call raised. Nothing repeats such a call but the overlap, when a
later window still reaches back to the record; otherwise the record has `Lapsed`, and the
program has lost it. `NothingLost` says that this is the only way to lose one: what else the
database lacks is `Owed`, and is still to be asked for. `stored` is `Ingest`'s table
reduced to which observations have a row (`SameObservation` is the topic and source time `ObservationStore` is keyed by). Two
assumptions are about operation, not code: `CaughtUp`, configure is started when the
cursors of the healthy sources are near the clock and nothing of them is owed but what may
still be late; and `GapAssumption`, its gap with all repetitions is shorter
than what the overlap leaves over. Without them the program does lose records for good. So it
does for a source that has a record which always raises: nothing behind that record is
promised, and `Lacking`, what `NothingLost` is about, leaves such sources out, and the
records with a NaN, whose call always raises.

**DecoderService.** A bucket's sum and count are the sets of readings added to
each, by two steps of the MQTT thread; the main thread takes a snapshot of all
closed buckets (`Poll`), publishes them one at a time and drops each bucket on its
acknowledgement. A failed publish may have been delivered. `MaxLag` bounds the time
from a message's stamp to its bucket; that it is within the flush delay
(`LagAssumption`) is what the program relies on instead of a lock. `OnConnect` subscribes anew at each connection
(the session is clean; that the broker grants the subscription is assumed, as nothing looks
at its answer), `OnRefused` sets `stopping`, the event of the main thread, and
`GoOn` and `Stop` are what `run` does with it. `Restart` is a crash, or no connection
within the time `run` waits for one.

**ModbusFrames** is `modbus.py` and the four decoders, as operators on sequences of
bytes: `Normalized` (hexadecimal text or bytes), `Crc16` (a number is the set of its
bits, so that the exclusive or is `Xor`; the two loops are functions of the round), `Parses`
and `Read`, `Layout` and `Decoded`. A float is kept as its two words, a scaled value as number and scale. `Ask`, `Answer`,
`HexText` and `Flips` are the gateway and the line, external. `Layout`, the table of which
metric is in which register, is also what the sensor is taken to have: that the values are
decoded as measured does not say that the table is right.

**ProfileRouting** extends it. `Start` is `load_profiles` with its checks; `Ignore`,
`Drop`, `Refuse`, `Fail` and `Decode` are the ways `_on_message` takes with a message:
unknown device, malformed, no single profile, a `sensor_range` the decoder refuses,
decoded. The registers a message holds decide which metrics a decoder finds in it. That one
profile feeds a metric (`OneSensorPerMetric`) means one sensor as long as a profile is of one
sensor, as the runbook has it; a profile with matches for two slave addresses loads as well.

**SerialBridge.** The loop of `FrameBuffer.feed` takes a turn a step: `NoStart` (no BG: only
half a marker is kept), `Resync` (a second BG before the ED), `NoEnd` (wait for the rest, or
give up a text longer than the limit) and `Cut`; `cutting` says that it is running. `Read`,
`Publish` and `Discard` are the loop of `run`, which does nothing else meanwhile; the port
may fail and the process end between. An alphabet of the four letters of the markers stands
for all bytes (a letter outside a marker is any other byte). Which frames are valid is a
constant; `ValidAssumption` says what the regular expression demands of them.

**AdminApi.** A call is `Begin` (its checks, and the devices its audit entry will
list), for deletions of points and plants `Sweep` (the count and the forced removal
of devices, statements of their own), and its last write with the audit entry and
the commit. `locked` holds rows removed and not committed, which writers wait for.
Foreign keys are modelled by their effect: `Remove` demands RESTRICT, and
`SourceWithout` and `SourceMoved` cascade. `told` is what the newest audit entry
about each device leaves of it. Trimming and the optional columns are left out.

The definitions whose comment begins with *Defect* are not part of any
specification: each is a plausible fault, and PROJECT.json names the property that
must fail when it takes the place of the definition below it.

## Runs

| run | question | result |
|---|---|---|
| `ingest` | replays, corrections, late, unsourced and refused messages under changing settings: is each observation kept once and whole? | holds |
| `ingest_concurrent` | two calls interleaved statement by statement: do they act as if one came after the other, does the incremental catalog equal the rebuild query, and what can deadlock? | holds; only two spellings of a metric |
| `ingest_stale` | is the catalog the latest row of each metric, as the schema document says? | violated |
| `collector` | is any record left behind the cursor, and is a healthy source finished although another always fails? | no; yes |
| `pipeline` | is every record in the database in the end, across runs of configure that delete the rules, their failures, and calls of `ingest_telemetry` that raise? | holds, but for a record whose last call raised when no window reached back to it any more |
| `decoder` | are means whole, readings accounted for and delivered, and does the service recover from what the broker does? | holds |
| `decoder_filed` | is a mean filed under the minute it is of, as the design says? | violated |
| `profiles` | does a file that loads ever mix profiles in one metric, clash, or leave a specific query ambiguous; does exactly a read with its answer parse, in bytes and in text; are the metrics what the sensor has? | no; yes; yes |
| `bridge` | does each intact frame come out once and in order, however the line is cut; does the buffer stay within its limit; does `feed` return? | yes |
| `admin` | overlapping calls: is the registry consistent, are deletions only those asked for, does the audit log tell what became of a device? | holds |
| `admin_audit_race` | is every removal audited when calls overlap, as the documents say? | violated |
| `admin_shown` | is the only device of a point's history shown, as the schema document says? | violated |

Bounds, and why they reach the cases that matter:

- `ingest`: two rows of `raw_message`, three times, two intervals, payloads with no
  key, one key or one metric in two spellings, values of two kinds and one that is
  no number. A correction that drops a metric, a replay after the interval changed
  and two messages in one slot all occur.
- `ingest_concurrent`: two sessions and three calls, so that a third call meets what
  two that overlapped have left; three rows; payloads {`TOC`, `cod`} and {`cod`, `toc`},
  which lock the two metrics in opposite order; alignment that rounds, so that messages
  of different times share a slot. One interval, which `CatalogIsRebuild` presumes
  (`FixedSettings`). Sessions are symmetric: none is named, and no property is of liveness.
- `collector`: two sources, four records on pages of one, so that a page can shift; one
  record without a metric and one that raises; windows of two, an overlap of one,
  three ticks and one fault at any place, which suffices since after a fault the next
  window starts from the file alone.
- `pipeline`: one source with two records, one fault of collector, configure or the rule's
  call, two runs
  of configure (repeated when they die), so that the second may begin right after
  the first, four ticks, and an overlap of three: just
  lateness, lag and gap at one tick each, so that each record the gap can drop is
  barely within reach of the next window. A record at time 0 whose call raises in a window
  that ends at 4 has lapsed; in a shorter one it is stored after all.
- `decoder`: minutes of two ticks, three readings of two devices, two faults: a mean can
  fail, be delivered all the same and be lost by a restart; a connection can be lost
  and then refused.
- `profiles`: every pair out of 215 definitions: with and without source and target,
  up to two matches, one with fields left out, filters and aliases that collide, an
  unsupported range; six reads, each with each one's answer, as bytes and as text in both
  cases, and every bit of each turned over; one message recorded in the decoder's tests.
- `bridge`: nine bytes are the two valid frames, of four and five bytes, or one in noise;
  every other text between markers is a broken frame; chunks of up to two split a marker and
  join two; a text of six passes the limit of five.
- `admin`: two overlapping calls on all 226 consistent registries of two plants, two
  points and two devices; the races of this code are between two calls. Sessions and
  plants are symmetric: none is named and no property is of liveness.

CHECK_DEADLOCK is off where the model's own bounds, or a refused file, end the run (row
numbers, calls or the clock used up). `bridge`, `collector` and `pipeline` are checked for
deadlock: their processes have a step to take in every state, the last ones included.

Fairness. `collector`: the loop of `main` runs for ever and catches every
exception of a source (`Collect`), time passes, and the interface lists what it has;
failures are finite in number, which `MaxFaults` states (in `pipeline` the calls that raise
are among them: a device that stays disabled loses its records). Each publish is answered:
`wait_for_publish` has no timeout, so this is an assumption about the broker.
`pipeline` adds that configure is seen through: EMQX answers its calls, and a run that
died is repeated, within `MaxGap`, which `PassTime` states as a bound on the clock.
`decoder`: both threads keep running (the container restarts a process that ends), the
client connects again by itself (`OnConnect`; paho's loop does), `run` comes back to its
loop (`Run`), and time passes to its bound; a reading whose minute closes within the
bound must be delivered. No fairness is assumed of faults, of messages or of operators.

## What the violated runs show

- `ingest_stale`: observation 1 carries `cod`, its correction does not; the sample goes
  and the catalog row stays. The same after a change of `report_interval_sec`, when a
  correction moves the sample to another slot. `CatalogIsRebuild` holds
  when neither happens: `ingest_concurrent` checks it, and it is proved, for that case.
- `decoder_filed`: the payload of a mean has no `_observed_at`, so the store takes its
  receipt time. After an outage the means of several minutes share one.
- `admin_audit_race`: `delete_point(force)` reads the devices for the audit, another call
  moves a device there, the deletion takes it along.
- `admin_shown`: the catalog's key contains the plant; after a move of the point one
  device counts twice.

## Proofs

All theorems hold for every value of the constants under the assumptions that stand with
the constants; TLC evaluates those on every run. Each proof module has the same shape: an
inductive invariant, lemmas about the operators, an *effect* lemma for each action
(what it does to the variables that matter), one step lemma per action or per conjunct,
`Invariance`, and the theorems that follow from it. TLC checked each invariant on the
module's run before it was proved.

| module | theorems (property) |
|---|---|
| `IngestProofs` | `TypeCorrect`, `ObservationsAreUnique` (`OneRowPerObservation`), `SamplesAreWhole` (`SamplesMirrorPayload`), `CatalogSpansSamples` (`CatalogCoversSamples`), `LastSeenCorrect` (`LastSeenIsLatest`), `CatalogCorrect` (`CatalogIsRebuild`), `OriginsAreKept` (`OriginKept`), `ReplayIsHarmless` (`ReplayIsNoOp`), `StoreImplemented` (`ImplementsStore`) |
| `ConcurrentProofs` | `ConcurrentTypeCorrect`, `DeadlocksExplained` (`DeadlockNeedsTwoSpellings`), `CallsAreAtomic` (`ImplementsIngest`), `OverlapInvariance` (`IInv`), `OverlapStored` (`ImplementsStore`), `OverlapOrigins` (`OriginKept`), `OverlapCatalog` (`CatalogIsRebuild`) |
| `PipelineProofs` | of the collector: `TypeCorrect`, `NoneSkipped` (`NothingSkipped`), `CursorsInStep` (`CursorInStep`); of the pipeline: `PipelineTypeCorrect`, `RulesAreRouted` (`Routed`), `NoneLost` (`NothingLost`) |
| `DecoderProofs` | `TypeCorrect`, `WholeMeans` (`MeansAreWhole`), `AllAccounted` (`Accounted`), `FewRepeats` (`RepeatedOnlyByFaults`) |
| `AdminProofs` | `TypeCorrect`, `RegistryConsistent` (`NothingDangles`), `GoneOnRequest` (`DevicesGoOnRequest`), `ChangesAudited` (`ChangesAreAudited`) |
| `RoutingProofs` | `TypeCorrect`, `OneProfileFeeds` (`OneSensorPerMetric`), `NeverClashes` (`NoClash`), `Unambiguous` (`SpecificIsUnambiguous`), `DecodedAsMeasured` (`MetricsAreTheSensors`), `ReadsWithTheirAnswersParse`, `FlipsAreRefused`, `ParsesReadsOnly` (`OnlyReadsParse`) |
| `FrameProofs` | `OneByteIsFound`, `TextIsItsBytes` |
| `BridgeProofs` | `BridgeTypeCorrect` (`TypeOK`), `IntactFramesArePublished` (`IntactFramesPublished`), `BufferIsBounded` (`BufferIsOneBeginning`), `FeedReturns` (`EveryTurnShortens`) |

**The store.** Under the assumptions of `Ingest` (finite payloads are stated as
`LastKeyAssumption`: of the keys for a metric one is last) this is inductive:

    IInv == TypeOK /\ StoredPayloads /\ OneRowPerObservation /\ SamplesMirrorPayload
            /\ CatalogCoversSamples /\ LastSeenIsLatest

`StoredPayloads` is the strengthening: whatever is stored was accepted, so its payload
has a key. Without it a stored row could have no samples and `SamplesMirrorPayload` would
not be preserved when another row is replaced. `IngestEffect` names once what an `Ingest`
step does. `ReplayIsHarmless` needs one invariant more, `ShownIsCurrent`: at the newest
slot the catalog row names no earlier message than a sample does, and if it names the
sample's own message it shows that message's value; without it a replay could overwrite
the row with what the sample says. `StoreImplemented` is the refinement under the mapping
`Store`: an `Ingest` step accepts or replaces the content of one observation, or appends
an unsourced message, and each step of an operator is a stutter.

`CatalogCorrect`: under `FixedSettings` (one shape of payload, one interval and
alignment) the catalog is always what the rebuild query returns. The argument goes
through a description of a catalog row as a bound that is attained on both sides; a
replacement keeps the slot of the samples it deletes (`SameSlot`), so the row's old
witness can only be replaced by a newer value of the same message.

**Overlapping calls.** A transaction decides at one moment and commits at another.
`ConcurrentInv` says, of each transaction under way and the tables as they are committed
*now*: its checks hold for the settings it read (`Checked`); it went through its keys in
order (`InOrder`); the row number it holds is still the conflicting one, or still unused
(`HasId`); and each catalog row it wrote is the committed row merged with its last value
for that metric (`HasWritten`). What keeps the last two true while others commit is
`Apart`: no two transactions hold a row or a row number in common. `CallsAreAtomic`
follows: a commit puts in place exactly what `Ingest` would, computed at that moment from
the same tables, unless the device or the plant is no longer what was read (`StaleCommit`).
A `StaleCommit` is no step of `Ingest`, but it has the same effect on the tables in another
slot (`CommitEffect`), and neither `IInv` nor the refinement of `ObservationStore` depends on
which slot it is; so both hold of overlapping calls without exception (`OverlapInvariance`,
`OverlapStored`), and so does `OverlapOrigins`: the row a transaction will replace is, by
`HasId`, still the one of its own observation. `OverlapCatalog` holds too under `FixedSettings`, where all settings
give one slot. `DeadlocksExplained` uses `InOrder`: a transaction that waits holds only metrics that
come before, in its own payload, so two that wait for each other order two metrics
differently.

**The collector.** The hard part of `CollectorInv` is `PagesComplete`: pages are cut from
a list that grows while they are fetched, and still a record that was listed before the
window was made (`Settled`) is fetched, or on a page to come. With the newest first, a new record
pushes others to later pages, never to earlier ones; with the oldest first, what is listed
while a window is fetched is later than the settled ones or is late, and a late one only
pushes as well (`Position` counts records before, and that count only grows). Records
that are not settled are within `MaxLate` of the window's end, so within the overlap
(`Punctual`, `WindowFromCursor`, `TuningAssumption`).

**The pipeline.** A record can be published and not stored, so `NothingSkipped` says
nothing of it. `PipelineInv` ties the clock of configure to the window being collected:
what is owed is at most `MaxLag + MaxLate` older than the run under way
(`LacksOnlyRecent`), the run takes `MaxGap` at most (`RunIsShort`), and in the current
window what is owed is near the window's end, still to be handled, or refused
(`LacksOnlyPending`); `GapAssumption` closes the sum. What has lapsed is never owed again
(`OwedStep`): the windows only move forward (`StartGrows`), and what has been fetched lies in
the window (`TodoInWindow`), so no call is made for it any more. `NoneLost` speaks of healthy
sources only: it is false for the records behind one that always raises, if configure runs
while that source is stuck.

**The decoder.** No lock guards the buckets, and `DecoderInv` shows that the clock does.
`BucketsComplete`: a bucket that is there, or whose minute is open, has all
readings received for it but for the one in hand; `InHandInTime`: that one is not older than
`MaxLag`, hence by `LagAssumption` its minute is not closed; so a closed bucket is complete,
a copy made for publishing stays equal to it (`CopiesCurrent`), and a dropped bucket does
not come back (`DeliveredClosed`). `OneFaultEach` counts the deliveries of a bucket still there
by the faults that kept it.

**The registry.** No call locks what it reads, so `NothingDangles` holds because every
write checks again, as the foreign keys do: it is inductive with the types alone, and
one lemma per operation shows it. `SweptByForce` is what `DevicesGoOnRequest` needs: a call
that has removed devices was told to. These theorems are for any number of sessions.

**Profiles.** The file is checked once; `Loaded` keeps what was accepted, and
`FedAsDefined` that whatever went out has the names its profile gives it. A message holds
only some of a profile's metrics, and a part of what does not clash does not
(`PartNoClash`).

**The frames.** What the code computes in loops is a function of the round in the model. The
library's induction theorems take a predicate, which the provers cannot be given; but the
rounds of which something holds are a set, a set of numbers that lacks one has a least one it
lacks (`WFMin`), and so induction is a lemma about sets (`UpTo`). By it the loops can be run
(`RoundsRun`: there is a function that does what they do), and what holds of a round holds of
all. A round of the CRC leads no two states to one (`ShiftOutInjective`: bit 15 of the result
tells whether the polynomial came in), so states that differ stay apart whatever follows,
and frames that differ in one byte cannot both be valid: `OneByteIsFound`. `TextIsItsBytes`
follows a text digit by digit. The way back, that bytes are never taken for text, holds
because the second byte of a message, its function code, and the fifth, the high byte of its
count, are not characters of such a text, and a bit turned over changes one of the two at
most (`NotText`).

`ParsesReadsOnly` puts these together for every sensor, every start and every count from 1 to
127. `QueryAssumption` excludes function codes that are digits or white space (a request of
eight bytes has one from 1 to 6) and counts above 127, whose answers have no room for the
number of their bytes. Of the recorded messages, which are given data, the theorem takes as
its hypothesis that they parse; the run `profiles` computes it. `DecodedAsMeasured` follows a register through the answer's bytes to the metric,
for each of the four types and any window.

**The bridge.** `IntactFramesPublished` compares what is published with the whole line, of
which the buffer holds only the end. The inductive invariant:

    IInv == TypeOK /\ (cutting => port = "open") /\ BufferIsOneBeginning
            /\ EndOf(buffer, line) /\ Recorded(line, out, Consumed)

`Recorded` says of the bytes consumed, those before the buffer: the frames cut stand there in
order, and a valid frame that begins there and is not among them differs from the line at a
byte that has arrived (`Differs`), so that nothing to come can complete it. This is what the
drops of the code have to meet, each for its own reason (`NoiseHopeless`, `BegunHopeless`,
`BrokenHopeless`, `OverlongHopeless`): no BG begins there, a second BG stands inside, or the
text is longer than the limit and has no end. Between two reads the buffer is one beginning,
which holds no whole frame, so nothing is missing. `FeedReturns` is the measure by which the
loop ends.

Only model-checked, and why:

- Liveness (`AllPublished`, `AllStored`, `AllDelivered`, `Recovers`): the prover has no
  rule for fairness.
- That the recorded message parses: it is one given sequence of bytes, which TLC computes.
- The four violated properties, which are false.

## Not modelled

- Views that only read, the export and the token check: joins and filters on the tables the
  other modules model.
- The rs232 tester: a tool for a technician at the cabinet that no other part uses.
- Roles, accounts, TLS, backups, the seed of the Zouma source and the dashboards: shell
  around other programs, fixed upserts and generated files, with no state of their own.
- Of the EMQX objects only that they are there. That a deletion which fails, followed by a
  creation answered "already exists", leaves the old settings in force is listed as a hazard
  and not covered. Nor is the release order of `stack.sh`, which starts the services before
  configure has made the rules: `TelemetryPipeline` begins with them in place.
- Raw messages sent while the decoder has no subscription: the broker keeps none for a
  clean session, and nothing promises them.
- The values in the decoder's means: a NaN among a minute's floats makes the mean NaN.
- White space outside ASCII in hexadecimal text; fractions of a second in times; paho's
  own queues (a publish is delivered or not, and reported or not).

## Plan

Done: 1. `Ingest`, `ObservationStore` and their proofs. 2. `WaterCollector`,
`DecoderService`, `SerialBridge`. 3. `AdminApi`, `ProfileRouting`, `ModbusFrames`.
4. `IngestConcurrent` and `TelemetryPipeline`, the compositions.
5. Proofs: the refinement of the store, the overlapping calls, and the invariants of the
other modules. 6. Proofs of what is computed byte by byte: the frames of the decoder and the
buffer of the bridge.

Next: errors of more than one byte, of which a CRC finds every burst up to its own length;
the values in the decoder's means, with the NaN a float register may hold; the order in which
`release` starts the services and makes the rules.
