---------------------------- MODULE SerialBridge ----------------------------
(***************************************************************************)
(* The serial bridge (serial-emqx-bridge): bytes arrive on a serial line   *)
(* in chunks of any size, a buffer cuts them into frames, and every frame  *)
(* that is valid is published.                                             *)
(*                                                                         *)
(* A byte is one of the four letters of the markers BG and ED; a letter    *)
(* outside a marker stands for every other byte.                           *)
(***************************************************************************)
EXTENDS Integers, Sequences

CONSTANTS
  Valid,       \* the frames parse_frame accepts
  Limit,       \* 4096
  MaxChunk,    \* bound: the longest chunk one read returns
  MaxLine      \* bound: the bytes read since the process started

Byte == {"B", "G", "E", "D"}
BG == <<"B", "G">>
ED == <<"E", "D">>

\* The index find(marker, from) returns, counted from 1; 0 for -1.
Find(marker, text, from) ==
  LET hits == {i \in from..(Len(text) - 1) : SubSeq(text, i, i + 1) = marker} IN
  IF hits = {} THEN 0 ELSE CHOOSE i \in hits : \A j \in hits : i <= j

\* What the expression of parse_frame demands of a frame, and the buffer can hold.
ASSUME ValidAssumption ==
  \A f \in Valid :
    /\ f \in Seq(Byte) /\ Len(f) >= 4 /\ Len(f) <= Limit
    /\ Find(BG, f, 1) = 1 /\ Find(BG, f, 2) = 0
    /\ Find(ED, f, 3) = Len(f) - 1
ASSUME BridgeBoundAssumption ==
  Limit \in Nat /\ MaxChunk \in Nat \ {0} /\ MaxLine \in Nat

VARIABLES
  port,        \* the serial port: "open" or "closed"
  cutting,     \* the loop of feed() is running
  line,        \* every byte read since the process started
  buffer,      \* FrameBuffer._buffer
  frames,      \* the frames of the last feed() still to be handled
  published    \* the frames the broker acknowledged since the process started

vars == <<port, cutting, line, buffer, frames, published>>

-----------------------------------------------------------------------------
(* FrameBuffer. *)

\* Defects: a split marker is dropped with the noise; nothing is dropped.
SplitMarkerLost(text) == <<>>
SplitMarkerAndNoise(text) == text

\* What is kept of text no frame begins in: the first half of a split marker.
SplitMarker(text) ==
  IF text # <<>> /\ text[Len(text)] = "B" THEN <<"B">> ELSE <<>>

From(text, i) == SubSeq(text, i, Len(text))

\* What is left of the buffer once the noise before the first BG is dropped, and where
\* the next markers stand in it.
Begun == From(buffer, Find(BG, buffer, 1))
End == Find(ED, Begun, 3)
NextStart == Find(BG, Begun, 3)

\* The loop of feed(), a turn a step; nothing else runs until it is left.
NoStart ==
  /\ cutting /\ Find(BG, buffer, 1) = 0
  /\ buffer' = SplitMarker(buffer)
  /\ cutting' = FALSE
  /\ UNCHANGED <<port, line, frames, published>>

\* A second BG before the ED: the frame before it is broken.
Resync ==
  /\ cutting /\ Find(BG, buffer, 1) > 0
  /\ NextStart > 0 /\ (End = 0 \/ NextStart < End)
  /\ buffer' = From(Begun, NextStart)
  /\ UNCHANGED <<port, cutting, line, frames, published>>

\* No ED yet: the rest is for a later read, unless it is longer than any frame.
NoEnd ==
  /\ cutting /\ Find(BG, buffer, 1) > 0
  /\ NextStart = 0 /\ End = 0
  /\ buffer' = IF Len(Begun) > Limit THEN SplitMarker(Begun) ELSE Begun
  /\ cutting' = FALSE
  /\ UNCHANGED <<port, line, frames, published>>

\* Defect: the frame that was cut is not taken off the buffer.
CutKeeps ==
  /\ cutting /\ Find(BG, buffer, 1) > 0
  /\ End > 0 /\ (NextStart = 0 \/ NextStart > End)
  /\ frames' = Append(frames, SubSeq(Begun, 1, End + 1))
  /\ buffer' = Begun
  /\ UNCHANGED <<port, cutting, line, published>>

Cut ==
  /\ cutting /\ Find(BG, buffer, 1) > 0
  /\ End > 0 /\ (NextStart = 0 \/ NextStart > End)
  /\ frames' = Append(frames, SubSeq(Begun, 1, End + 1))
  /\ buffer' = From(Begun, End + 2)
  /\ UNCHANGED <<port, cutting, line, published>>

-----------------------------------------------------------------------------
(* run() and publish(). *)

\* A read that times out returns nothing, and is fed like any other.
Read(chunk) ==
  /\ port = "open" /\ ~cutting /\ frames = <<>>
  /\ line' = line \o chunk
  /\ buffer' = buffer \o chunk
  /\ cutting' = TRUE
  /\ UNCHANGED <<port, frames, published>>

\* Defect: a frame is published as it was cut.
PublishAny ==
  /\ ~cutting /\ frames # <<>>
  /\ published' = Append(published, Head(frames))
  /\ frames' = Tail(frames)
  /\ UNCHANGED <<port, cutting, line, buffer>>

Publish ==
  /\ ~cutting /\ frames # <<>> /\ Head(frames) \in Valid
  /\ published' = Append(published, Head(frames))
  /\ frames' = Tail(frames)
  /\ UNCHANGED <<port, cutting, line, buffer>>

\* ValueError: the frame is dropped, those after it are not.
Discard ==
  /\ ~cutting /\ frames # <<>> /\ Head(frames) \notin Valid
  /\ frames' = Tail(frames)
  /\ UNCHANGED <<port, cutting, line, buffer, published>>

\* A read or the opening raises; the buffer stays as it is until the port is back.
PortFails ==
  /\ port = "open" /\ ~cutting /\ frames = <<>>
  /\ port' = "closed"
  /\ UNCHANGED <<cutting, line, buffer, frames, published>>

Reopen ==
  /\ port = "closed"
  /\ port' = "open"
  /\ UNCHANGED <<cutting, line, buffer, frames, published>>

\* wait_for_publish raises RuntimeError, which nothing catches: the process ends, with
\* the frames it has cut and the part of the next, and is started again.
PublishFails ==
  /\ ~cutting /\ frames # <<>> /\ Head(frames) \in Valid
  /\ port' = "open" /\ cutting' = FALSE
  /\ line' = <<>> /\ buffer' = <<>> /\ frames' = <<>> /\ published' = <<>>

Init ==
  /\ port = "open" /\ cutting = FALSE
  /\ line = <<>> /\ buffer = <<>> /\ frames = <<>> /\ published = <<>>

Chunk == UNION {[1..n -> Byte] : n \in 0..MaxChunk}

Next ==
  \/ \E chunk \in Chunk : Len(line) + Len(chunk) <= MaxLine /\ Read(chunk)
  \/ NoStart
  \/ Resync
  \/ NoEnd
  \/ Cut
  \/ Publish
  \/ Discard
  \/ PortFails
  \/ Reopen
  \/ PublishFails

Spec == Init /\ [][Next]_vars

-----------------------------------------------------------------------------
(* The properties. *)

TypeOK ==
  /\ port \in {"open", "closed"}
  /\ cutting \in BOOLEAN
  /\ line \in Seq(Byte)
  /\ buffer \in Seq(Byte)
  /\ frames \in Seq(Seq(Byte))
  /\ published \in Seq(Valid)

\* f is the text of the line that ends at its j-th byte.
EndsAt(f, j) == Len(f) <= j /\ SubSeq(line, j - Len(f) + 1, j) = f

out == published \o frames

\* Each valid frame that arrives unbroken is published once and in order, whatever
\* chunks it came in and whatever noise, broken frame or overlong text stood before it,
\* and nothing else is published: the frames published and to publish stand on the line
\* one after the other, and between two reads no valid frame of the line is missing.
IntactFramesPublished ==
  \E ends \in [1..Len(out) -> 1..Len(line)] :
    /\ \A i \in 1..Len(out) : EndsAt(out[i], ends[i])
    /\ \A i, k \in 1..Len(out) : i < k => ends[i] < ends[k]
    /\ ~cutting => \A f \in Valid : \A j \in 1..Len(line) :
          EndsAt(f, j) => \E i \in 1..Len(out) : ends[i] = j /\ out[i] = f

\* Between two reads the buffer holds the beginning of one frame at most, and never
\* grows beyond the limit.
BufferIsOneBeginning ==
  \/ cutting
  \/ buffer \in {<<>>, <<"B">>}
  \/ /\ Len(buffer) \in 2..Limit
     /\ Find(BG, buffer, 1) = 1
     /\ Find(BG, buffer, 3) = 0
     /\ Find(ED, buffer, 3) = 0

\* feed() returns: each turn of its loop either leaves it or shortens the buffer.
EveryTurnShortens == [][cutting /\ cutting' => Len(buffer') < Len(buffer)]_vars

=============================================================================
