---------------------------- MODULE ModbusFrames ----------------------------
(***************************************************************************)
(* What a raw message holds (services/decoder_aggregator: modbus.py and    *)
(* the decoders of profiles.py): a Modbus read and its answer, as bytes or *)
(* as hexadecimal text, checked, cut into registers and made into metrics. *)
(* Pure operators; a payload is a sequence of bytes.                       *)
(*                                                                         *)
(* External: the gateway, which sends a read with its answer, and the      *)
(* sensor, whose registers answer.  A value is a number and the scale it   *)
(* is divided by.  White space is that of ASCII.                           *)
(***************************************************************************)
EXTENDS Integers, Sequences
LOCAL INSTANCE TLC

\* How many words two bytes can be, and the word that stands at a place.
Words == 256 * 256
Byte == 0..255
Register == 0..(Words - 1)
Word(s, i) == 256 * s[i] + s[i + 1]

-----------------------------------------------------------------------------
(* normalize_payload_hex. *)

White == 9..13 \cup 28..32
HexDigit == 48..57 \cup 65..70 \cup 97..102
Digit(c) == IF c <= 57 THEN c - 48 ELSE IF c <= 70 THEN c - 55 ELSE c - 87

Squeezed(payload) ==
  LET kept[i \in 0..Len(payload)] ==
        IF i = 0 THEN <<>>
        ELSE IF payload[i] \in White THEN kept[i - 1]
        ELSE Append(kept[i - 1], payload[i])
  IN  kept[Len(payload)]

IsHex(payload) ==
  LET text == Squeezed(payload) IN
  /\ text # <<>> /\ Len(text) % 2 = 0
  /\ \A i \in 1..Len(payload) : payload[i] \in White \cup HexDigit

Normalized(payload) ==
  LET text == Squeezed(payload) IN
  IF IsHex(payload)
  THEN [i \in 1..(Len(text) \div 2) |-> 16 * Digit(text[2*i - 1]) + Digit(text[2*i])]
  ELSE payload

-----------------------------------------------------------------------------
(* crc16_modbus: a number is the set of its bits. *)

Bits(byte) == {i \in 0..7 : (byte \div 2^i) % 2 = 1}
ByteOf(bits) == CHOOSE byte \in Byte : Bits(byte) = bits
Xor(a, b) == (a \ b) \cup (b \ a)

\* 0xA001.
Polynomial == {0, 13, 15}

ShiftOut(crc) ==
  LET shifted == {i - 1 : i \in crc \ {0}} IN
  IF 0 \in crc THEN Xor(shifted, Polynomial) ELSE shifted

\* Eight rounds for a byte.
AddByte(crc, byte) ==
  LET after[round \in 0..8] ==
        IF round = 0 THEN Xor(crc, Bits(byte)) ELSE ShiftOut(after[round - 1])
  IN  after[8]

Crc16(data) ==
  LET crc[i \in 0..Len(data)] == IF i = 0 THEN 0..15 ELSE AddByte(crc[i - 1], data[i])
  IN  crc[Len(data)]

\* The bits of two bytes, the low byte first.
BitsOfTwo(low, high) == Bits(low) \cup {8 + i : i \in Bits(high)}

ValidCrc(frame) ==
  LET n == Len(frame) IN
  n >= 3 /\ Crc16(SubSeq(frame, 1, n - 2)) = BitsOfTwo(frame[n - 1], frame[n])

-----------------------------------------------------------------------------
(* parse_read_frames. *)

\* Defect: an answer is taken whatever it was asked for.
AnswersAny(query, response) == query[2] \in {3, 4}

\* The two frames belong together.
Answers(query, response) ==
  /\ query[2] \in {3, 4}
  /\ query[1] = response[1] /\ query[2] = response[2]
  /\ 2 * Word(query, 5) = response[3]

Parses(payload) ==
  LET bytes    == Normalized(payload)
      query    == SubSeq(bytes, 1, 8)
      response == SubSeq(bytes, 9, Len(bytes))
  IN  /\ Len(bytes) >= 13
      /\ ValidCrc(query) /\ ValidCrc(response)
      /\ Len(response) = 3 + response[3] + 2
      /\ Answers(query, response)

\* Defect: registers are numbered from zero in every answer.
ReadFromZero(payload) ==
  LET bytes == Normalized(payload) IN
  [query |-> [address |-> bytes[1], function |-> bytes[2],
              start |-> Word(bytes, 3), count |-> Word(bytes, 5)],
   registers |-> [i \in 0..(Word(bytes, 5) - 1) |-> SubSeq(bytes, 12 + 2*i, 13 + 2*i)]]

\* The query of a payload that parses, and the registers its response holds.
Read(payload) ==
  LET bytes == Normalized(payload)
      start == Word(bytes, 3)
      count == Word(bytes, 5)
  IN  [query     |-> [address |-> bytes[1], function |-> bytes[2], start |-> start, count |-> count],
       registers |-> [a \in start..(start + count - 1) |->
                        SubSeq(bytes, 12 + 2 * (a - start), 13 + 2 * (a - start))]]

-----------------------------------------------------------------------------
(* decode_read_frames. *)

ProfileType == {"rs_ss", "rs_cod", "rs_zd_turbidity", "rs_nhn_amnitro"}

\* The sensor_range a type needs, with the scale it gives the type's main metric.
Scales(type) ==
  CASE type = "rs_zd_turbidity" -> 50 :> 100 @@ 200 :> 10 @@ 1000 :> 10 @@ 4000 :> 1
    [] type = "rs_nhn_amnitro"  -> 10 :> 100 @@ 100 :> 100 @@ 1000 :> 10

Ranged(type) == type \in {"rs_zd_turbidity", "rs_nhn_amnitro"}
Decodable(type, range) == Ranged(type) => range \in DOMAIN Scales(type)

Field(kind, register, scale) == [kind |-> kind, register |-> register, scale |-> scale]

\* Where a type's metrics stand among its registers.
Layout(type, range) ==
  CASE type = "rs_ss" ->
         [ss |-> Field("float", 0, 1), temperature |-> Field("float", 2, 1)]
    [] type = "rs_cod" ->
         [cod |-> Field("unsigned", 0, 10), temperature |-> Field("signed", 1, 10),
          turbidity |-> Field("unsigned", 2, 10), toc |-> Field("unsigned", 16, 10)]
    [] type = "rs_zd_turbidity" ->
         [turbidity |-> Field("unsigned", 0, Scales(type)[range]),
          temperature |-> Field("signed", 1, 10)]
    [] type = "rs_nhn_amnitro" ->
         [amnitro |-> Field("unsigned", 0, Scales(type)[range]),
          ph_compensation |-> Field("unsigned", 1, 100),
          temperature |-> Field("signed", 2, 10)]

RegistersOf(field) ==
  IF field.kind = "float" THEN {field.register, field.register + 1} ELSE {field.register}

\* The two words of a float are kept as they are.
Value(field, registers) ==
  LET word == Word(registers[field.register], 1) IN
  CASE field.kind = "unsigned" -> word
    [] field.kind = "signed"   -> IF 2 * word >= Words THEN word - Words ELSE word
    [] field.kind = "float"    -> registers[field.register] \o registers[field.register + 1]

\* A metric is there when all its registers are.
Decoded(type, range, registers) ==
  LET fields  == Layout(type, range)
      present == {m \in DOMAIN fields : RegistersOf(fields[m]) \subseteq DOMAIN registers}
  IN  [m \in present |-> [number |-> Value(fields[m], registers), scale |-> fields[m].scale]]

-----------------------------------------------------------------------------
(* What the gateway sends, for a read of a sensor with these registers. *)

Framed(data) ==
  LET crc == Crc16(data) IN
  data \o <<ByteOf(crc \cap 0..7), ByteOf({i - 8 : i \in crc \cap 8..15})>>

BytesOf(word) == <<(word \div 256) % 256, word % 256>>

Ask(query) ==
  Framed(<<query.address, query.function>> \o BytesOf(query.start) \o BytesOf(query.count))

Answer(query, sensor) ==
  Framed(<<query.address, query.function, 2 * query.count>> \o
         [i \in 1..(2 * query.count) |->
            BytesOf(sensor[query.start + ((i - 1) \div 2)])[1 + ((i - 1) % 2)]])

\* In digits, big or small, set apart by a space.
HexText(bytes, big) ==
  LET digit(n) == IF n < 10 THEN n + 48 ELSE n + (IF big THEN 55 ELSE 87)
      text(byte) == <<digit(byte \div 16), digit(byte % 16), 32>>
  IN  [i \in 1..(3 * Len(bytes)) |-> text(bytes[(i + 2) \div 3])[1 + ((i - 1) % 3)]]

\* One bit of one byte turned over.
Flips(bytes) ==
  {[bytes EXCEPT ![i] = ByteOf(Xor(Bits(bytes[i]), {bit}))] : i \in DOMAIN bytes, bit \in 0..7}

=============================================================================
