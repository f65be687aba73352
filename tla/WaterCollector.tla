--------------------------- MODULE WaterCollector ---------------------------
(***************************************************************************)
(* The water-api-collector (services/water_api_collector): one process     *)
(* that polls an HTTP interface for each configured source in turn,        *)
(* publishes every record of a time window and then moves that source's    *)
(* cursor to the window's end.  Time counts seconds, the interface's unit. *)
(*                                                                         *)
(* External: the interface, which lists records in one order or the other, *)
(* page by page, and may list a record late; the broker, which may take a  *)
(* message and still have the publisher report a failure.                  *)
(***************************************************************************)
EXTENDS Integers, FiniteSets

CONSTANTS
  Record,        \* natural numbers: the interface's own order among equal times
  NSource,       \* the configured sources are 1..NSource, in that order
  OfSource,      \* the source of a record
  Content,       \* what the interface says in each record
  Field,         \* the keys of METRIC_FIELDS
  File,          \* the configuration file
  SourceId, IdOf,
  Initial,       \* source.initial_start_time
  MaximumWindow, PageSize,
  MaxLate,       \* how late the interface may list a record
  MaxTime,       \* bound: the clock of the model stops here
  MaxFaults,     \* bound: failed calls, failed publishes and crashes
  None

Source == 1..NSource

ASSUME RecordAssumption ==
  /\ Record \subseteq Nat /\ IsFiniteSet(Record)
  /\ NSource \in Nat \ {0}
  /\ OfSource \in [Record -> Source]
  /\ Content \in [Record -> [code : {"own", "other"}, time : {"good", "bad"},
                            fields : [Field -> {"number", "nan", "null", "other"}]]]
\* The file has a base_url or not, sources or not, an offset in each start time or not.
ASSUME FileAssumption ==
  /\ File \in [url : BOOLEAN, sources : BOOLEAN, offsets : BOOLEAN, overlap : Int]
\* Two sources with one source_id would share a cursor: the program does not check it.
ASSUME IdAssumption ==
  IdOf \in [Source -> SourceId] /\ \A s, t \in Source : IdOf[s] = IdOf[t] => s = t
ASSUME BoundAssumption ==
  /\ Initial \in Nat /\ MaxTime \in Nat /\ MaxFaults \in Nat
  /\ MaximumWindow \in Nat /\ PageSize \in Nat \ {0}
  /\ MaxLate \in Nat /\ None \notin Nat
\* load_runtime_config: what it refuses, and the overlap it makes of the file's.
Loads   == File.url /\ File.sources /\ File.offsets
Overlap == IF File.overlap < 0 THEN 0 ELSE File.overlap

\* Neither is checked by the program: a record listed later than the overlap is not
\* looked for again, and a window no longer than the overlap never moves the cursor.
ASSUME TuningAssumption == MaxLate <= Overlap /\ Overlap < MaximumWindow

VARIABLES
  now,       \* the clock of the host
  at,        \* collectTime of each record
  newest,    \* whether the interface lists the newest record first
  listed,    \* the records the interface has so far
  cursor,    \* the state file: one cursor per source_id
  up,        \* whether the process is in its loop
  turn,      \* the source the process is at
  window,    \* the window being collected, or None between two calls
  page,      \* the page to fetch next
  pages,     \* total_pages, as the last page told it
  todo,      \* the records fetched and not yet handled
  sent,      \* the records the broker has
  faults

vars == <<now, at, newest, listed, cursor, up, turn, window, page, pages, todo, sent, faults>>
outside == <<now, at, newest, listed>>
call == <<up, turn, window, page, pages, todo>>

Times == 0..MaxTime
Window == [start : Nat, end : Nat]

-----------------------------------------------------------------------------
(* The interface. *)

\* A window's records: its end is taken to be excluded, the worse of the two readings.
Matching(w) ==
  {r \in listed : OfSource[r] = turn /\ w.start <= at[r] /\ at[r] < w.end}

Precedes(q, r) ==
  \/ at[q] # at[r] /\ (at[q] < at[r]) # newest
  \/ at[q] = at[r] /\ q < r

\* Page n of a window, cut from what is listed when it is asked for.
PageOf(w, n) ==
  {r \in Matching(w) :
     Cardinality({q \in Matching(w) : Precedes(q, r)}) \div PageSize = n - 1}

PageCount(w) ==
  LET n == (Cardinality(Matching(w)) + PageSize - 1) \div PageSize IN
  IF n = 0 THEN 1 ELSE n

\* A record is listed at MaxLate after its time at the latest.
List(r) ==
  /\ r \notin listed
  /\ at[r] <= now
  /\ listed' = listed \cup {r}
  /\ UNCHANGED <<now, at, newest, cursor, call, sent, faults>>

Tick ==
  /\ now < MaxTime
  /\ \A r \in Record : r \notin listed => now < at[r] + MaxLate
  /\ now' = now + 1
  /\ UNCHANGED <<at, newest, listed, cursor, call, sent, faults>>

-----------------------------------------------------------------------------
(* collect_once, for the source whose turn it is. *)

\* _map_record.
MapRecord(r) ==
  LET c      == Content[r]
      raises == c.code # "own" \/ c.time = "bad" \/ \E f \in Field : c.fields[f] = "other"
      empty  == \A f \in Field : c.fields[f] = "null"
  IN  CASE raises            -> "raises"
        [] ~raises /\ empty  -> "nothing"
        [] ~raises /\ ~empty -> "payload"

Poison == {r \in Record : MapRecord(r) = "raises"}
Blank  == {r \in Record : MapRecord(r) = "nothing"}

\* Defect: the window begins where the last one ended.
StartAtCursor(s) == IF cursor[IdOf[s]] = None THEN Initial ELSE cursor[IdOf[s]]

StartOf(s) ==
  LET c == cursor[IdOf[s]] IN
  IF c = None \/ c - Overlap < Initial THEN Initial ELSE c - Overlap

\* Defect: a window is always as long as it may be.
EndAhead(s) == StartOf(s) + MaximumWindow

EndOf(s) ==
  IF StartOf(s) + MaximumWindow < now THEN StartOf(s) + MaximumWindow ELSE now

\* Defect: the sources are gone through once.
FollowingOnce(s) == s + 1

Following(s) == IF s = NSource THEN 1 ELSE s + 1

\* The call returns or raises: main goes on to the next source.
Leave ==
  /\ window' = None
  /\ todo' = {}
  /\ page' = 1
  /\ pages' = 1
  /\ turn' = Following(turn)
  /\ UNCHANGED up

\* main, up to its loop: a file that is refused ends the process.
Start ==
  /\ ~up /\ Loads
  /\ up' = TRUE
  /\ UNCHANGED <<outside, cursor, turn, window, page, pages, todo, sent, faults>>

Open ==
  /\ up /\ window = None
  /\ StartOf(turn) < EndOf(turn)
  /\ window' = [start |-> StartOf(turn), end |-> EndOf(turn)]
  /\ UNCHANGED <<outside, cursor, up, turn, page, pages, todo, sent, faults>>

\* An empty window: the call returns 0.
Skip ==
  /\ up /\ window = None
  /\ EndOf(turn) <= StartOf(turn)
  /\ Leave
  /\ UNCHANGED <<outside, cursor, sent, faults>>

FetchPage ==
  /\ window # None
  /\ page <= pages
  /\ todo' = todo \cup PageOf(window, page)
  /\ pages' = PageCount(window)
  /\ page' = page + 1
  /\ UNCHANGED <<outside, cursor, up, turn, window, sent, faults>>

Handling == window # None /\ page > pages

\* A record is published, or passed over for want of a metric.
Finish(r) ==
  /\ Handling
  /\ r \in todo \ Poison
  /\ sent' = IF r \in Blank THEN sent ELSE sent \cup {r}
  /\ todo' = todo \ {r}
  /\ UNCHANGED <<outside, cursor, up, turn, window, page, pages>>

Handle(r) == Finish(r) /\ UNCHANGED faults

\* Defect: the process stays with the source that failed.
RejectAndRetry(r) ==
  /\ Handling
  /\ r \in todo \cap Poison
  /\ window' = None /\ todo' = {} /\ page' = 1 /\ pages' = 1
  /\ UNCHANGED <<outside, cursor, up, turn, sent, faults>>

\* Defect: a record that raises is passed over.
RejectAndSkip(r) ==
  /\ Handling
  /\ r \in todo \cap Poison
  /\ todo' = todo \ {r}
  /\ UNCHANGED <<outside, cursor, up, turn, window, page, pages, sent, faults>>

\* _map_record raises.
Reject(r) ==
  /\ Handling
  /\ r \in todo \cap Poison
  /\ Leave
  /\ UNCHANGED <<outside, cursor, sent, faults>>

\* The window is done: save the cursor, by replacing the file, and return.
Save ==
  /\ Handling
  /\ todo = {}
  /\ cursor' = [cursor EXCEPT ![IdOf[turn]] = window.end]
  /\ Leave
  /\ UNCHANGED <<outside, sent, faults>>

\* A page cannot be fetched.
FetchFails ==
  /\ window # None
  /\ page <= pages
  /\ faults < MaxFaults /\ faults' = faults + 1
  /\ Leave
  /\ UNCHANGED <<outside, cursor, sent>>

\* publish() raises; the message may have reached the broker all the same.
PublishFails(r) ==
  /\ Handling
  /\ r \in todo \ (Poison \cup Blank)
  /\ faults < MaxFaults /\ faults' = faults + 1
  /\ sent' \in {sent, sent \cup {r}}
  /\ Leave
  /\ UNCHANGED <<outside, cursor>>

\* The process dies at any point; it is started over, with its first source.
Crash ==
  /\ up
  /\ faults < MaxFaults /\ faults' = faults + 1
  /\ up' = FALSE
  /\ window' = None /\ todo' = {} /\ page' = 1 /\ pages' = 1 /\ turn' = 1
  /\ UNCHANGED <<outside, cursor, sent>>

-----------------------------------------------------------------------------
Init ==
  /\ now = 0
  /\ at \in [Record -> Initial..(MaxTime - 1)]
  /\ newest \in BOOLEAN
  /\ listed = {}
  /\ cursor = [i \in SourceId |-> None]
  /\ up = FALSE
  /\ turn = 1
  /\ window = None
  /\ page = 1 /\ pages = 1
  /\ todo = {}
  /\ sent = {}
  /\ faults = 0

Collect ==
  \/ Start \/ Open \/ Skip \/ FetchPage \/ Save
  \/ \E r \in Record : Handle(r) \/ Reject(r)

Next ==
  \/ Collect
  \/ FetchFails \/ Crash \/ \E r \in Record : PublishFails(r)
  \/ Tick \/ \E r \in Record : List(r)

Spec == Init /\ [][Next]_vars

\* The process runs and is restarted, time passes and the interface lists what it has;
\* its failures come to an end, which MaxFaults says.
FairSpec == Spec /\ WF_vars(Collect) /\ WF_vars(Tick) /\ WF_vars(\E r \in Record : List(r))

-----------------------------------------------------------------------------
(* The properties. *)

TypeOK ==
  /\ now \in Times
  /\ at \in [Record -> Times]
  /\ newest \in BOOLEAN
  /\ listed \subseteq Record
  /\ cursor \in [SourceId -> Times \cup {None}]
  /\ up \in BOOLEAN
  /\ turn \in Source
  /\ window = None \/ window \in Window
  /\ page \in Nat \ {0} /\ pages \in Nat \ {0}
  /\ todo \subseteq Record
  /\ sent \subseteq Record
  /\ faults \in 0..MaxFaults

\* A record is never left behind: one the broker does not have, because it was listed
\* late, fell between two pages, or failed, lies where the next window begins or after.
NothingSkipped ==
  \A r \in listed \ (sent \cup Blank) : StartOf(OfSource[r]) <= at[r]

\* A source's cursor never goes back, in spite of the overlap, failures and crashes,
\* and never passes the clock.
CursorInStep ==
  [][\A s \in SourceId : cursor'[s] # cursor[s] =>
       /\ cursor'[s] <= now
       /\ (cursor[s] # None => cursor[s] <= cursor'[s])]_vars

\* Every record of a source without a poisonous one is published in the end, also when
\* another source has one and fails for ever.
Healthy(s) == \A r \in Poison : OfSource[r] # s
AllPublished ==
  \A r \in Record \ (Blank \cup Poison) : Healthy(OfSource[r]) => <>(r \in sent)

=============================================================================
