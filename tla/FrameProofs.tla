---------------------------- MODULE FrameProofs ----------------------------
(***************************************************************************)
(* Theorems about ModbusFrames: what the check sum of a frame finds, and   *)
(* what bytes a message holds, whether it is sent as bytes or as text.     *)
(* What the code computes in loops is a function of the round; what holds  *)
(* of every round is shown by induction over the set of the rounds of      *)
(* which it holds.                                                         *)
(***************************************************************************)
EXTENDS ModbusFrames, SequenceTheorems, WellFoundedInduction, TLAPS

-----------------------------------------------------------------------------
(* What is computed round by round. *)

\* Induction: what the first of the numbers up to n has, and hands on to the next, all have.
LEMMA UpTo ==
  ASSUME NEW n \in Nat, NEW S, 0 \in S, \A i \in 1..n : i - 1 \in S => i \in S
  PROVE  \A i \in 0..n : i \in S
<1> SUFFICES ASSUME NEW k \in 0..n, k \notin S PROVE FALSE
  OBVIOUS
<1> DEFINE Out == {i \in Nat : i \in 0..n /\ i \notin S}
<1>1. PICK x \in Out : \A y \in Out : ~ (<<y, x>> \in OpToRel(<, Nat))
  <2>1. Out \subseteq Nat /\ Out # {}
    OBVIOUS
  <2> HIDE DEF Out
  <2> QED BY <2>1, NatLessThanWellFounded, WFMin
<1>2. \A y \in Out : ~ (y < x)
  BY <1>1 DEF OpToRel
<1>3. x \in 1..n /\ x \notin S /\ x - 1 \in 0..n /\ x - 1 < x
  <2>1. x \in 0..n /\ x \notin S
    BY <1>1
  <2>2. x # 0
    BY <2>1
  <2> QED BY <2>1, <2>2
<1>4. x - 1 \in S
  BY <1>2, <1>3
<1> QED BY <1>3, <1>4

\* n rounds, each a step of the one before, can be run.
Rounds(f, base, step, n) == f[0] = base /\ \A i \in 1..n : f[i] = step[<<i, f[i - 1]>>]

\* Rounds can be run: there is a function of the round that is what they make.
LEMMA RoundsRun ==
  ASSUME NEW S, NEW n \in Nat, NEW base \in S, NEW step \in [(1..n) \X S -> S]
  PROVE  \E f \in [0..n -> S] : Rounds(f, base, step, n)
<1> DEFINE T == {k \in 0..n : \E f \in [0..k -> S] : Rounds(f, base, step, k)}
<1>1. 0 \in T
  <2> DEFINE f == [i \in 0..0 |-> base]
  <2>1. f \in [0..0 -> S] /\ Rounds(f, base, step, 0)
    BY DEF Rounds
  <2>2. 0 \in 0..n
    OBVIOUS
  <2> HIDE DEF f
  <2> QED BY <2>1, <2>2
<1>2. ASSUME NEW i \in 1..n, i - 1 \in T PROVE i \in T
  <2>1. PICK f \in [0..(i - 1) -> S] : Rounds(f, base, step, i - 1)
    BY <1>2
  <2>2. i - 1 \in 0..(i - 1) /\ f[i - 1] \in S
    OBVIOUS
  <2>3. step[<<i, f[i - 1]>>] \in S
    BY <2>2
  <2> DEFINE g == [k \in 0..i |-> IF k = i THEN step[<<i, f[i - 1]>>] ELSE f[k]]
  <2>4. g \in [0..i -> S]
    BY <2>3
  <2>5. g[i] = step[<<i, f[i - 1]>>] /\ \A k \in 0..(i - 1) : g[k] = f[k]
    OBVIOUS
  <2> HIDE DEF g
  <2>6. g[0] = base
    BY <2>1, <2>5 DEF Rounds
  <2>7. ASSUME NEW k \in 1..i PROVE g[k] = step[<<k, g[k - 1]>>]
    <3>1. g[k - 1] = f[k - 1]
      BY <2>5
    <3>2. CASE k = i
      BY <2>5, <3>1, <3>2
    <3>3. CASE k # i
      <4>1. k \in 1..(i - 1)
        BY <3>3
      <4> QED BY <2>1, <2>5, <3>1, <4>1 DEF Rounds
    <3> QED BY <3>2, <3>3
  <2>8. Rounds(g, base, step, i)
    BY <2>6, <2>7, Zenon DEF Rounds
  <2> QED BY <2>4, <2>8
<1> HIDE DEF T
<1>3. n \in T
  BY <1>1, <1>2, UpTo
<1> QED BY <1>3 DEF T

-----------------------------------------------------------------------------
(* Sequences, byte by byte. *)

\* A sequence of n members of S; t begins with the n members of s; s stands in t after m others.
Long(s, S, n) == s \in Seq(S) /\ Len(s) = n
First(s, t, n) == \A i \in 1..n : t[i] = s[i]
After(s, m, t, n) == \A i \in 1..n : t[m + i] = s[i]

\* How long two sequences are together, and where each of them stands.
LEMMA JoinedLong ==
  ASSUME NEW S, NEW s, NEW t, NEW m \in Nat, NEW n \in Nat, Long(s, S, m), Long(t, S, n)
  PROVE  Long(s \o t, S, m + n)
BY DEF Long

\* Two sequences joined begin with the first.
LEMMA JoinedFirst ==
  ASSUME NEW S, NEW s, NEW t, NEW m \in Nat, NEW n \in Nat, Long(s, S, m), Long(t, S, n)
  PROVE  First(s, s \o t, m)
BY DEF Long, First

\* Two sequences joined end with the second.
LEMMA JoinedAfter ==
  ASSUME NEW S, NEW s, NEW t, NEW m \in Nat, NEW n \in Nat, Long(s, S, m), Long(t, S, n)
  PROVE  After(t, m, s \o t, n)
BY DEF Long, After

\* Values in a row are a sequence.
LEMMA PairLong ==
  ASSUME NEW S, NEW a \in S, NEW b \in S
  PROVE  Long(<<a, b>>, S, 2) /\ <<a, b>>[1] = a /\ <<a, b>>[2] = b
BY DEF Long

\* Three members, written out.
LEMMA TripleLong ==
  ASSUME NEW S, NEW a \in S, NEW b \in S, NEW c \in S
  PROVE  /\ Long(<<a, b, c>>, S, 3)
         /\ <<a, b, c>>[1] = a /\ <<a, b, c>>[2] = b /\ <<a, b, c>>[3] = c
BY DEF Long

\* What is a sequence over a set is one over a larger one.
LEMMA LongWider ==
  ASSUME NEW S, NEW T, NEW s, NEW n, Long(s, S, n), S \subseteq T
  PROVE  Long(s, T, n)
BY SeqMonotonic DEF Long

\* The part of a sequence from a place on.
LEMMA PartOf ==
  ASSUME NEW T, NEW s, NEW n \in Nat, Long(s, T, n), NEW j \in 1..n, NEW k \in j..n
  PROVE  \A i \in 1..(k - j + 1) : SubSeq(s, j, k)[i] = s[j - 1 + i]
<1>1. s \in Seq(T) /\ Len(s) = n
  BY DEF Long
<1>2. \A i \in 1..(k - j + 1) : SubSeq(s, j, k)[i] = s[j + i - 1]
  BY <1>1, SubSeqProperties
<1>3. \A i \in 1..(k - j + 1) : j + i - 1 = j - 1 + i
  OBVIOUS
<1> QED BY <1>2, <1>3

\* A part of a sequence is as long as its bounds say.
LEMMA PartLong ==
  ASSUME NEW T, NEW s, NEW n \in Nat, Long(s, T, n), NEW j \in 1..n, NEW k \in j..n
  PROVE  Long(SubSeq(s, j, k), T, k - j + 1)
<1>1. s \in Seq(T) /\ Len(s) = n /\ \A i \in j..k : s[i] \in T
  <2>1. s \in Seq(T) /\ Len(s) = n
    BY DEF Long
  <2> QED BY <2>1, ElementOfSeq
<1> QED BY <1>1, SubSeqProperties DEF Long

\* A sequence of two.
LEMMA PairOf ==
  ASSUME NEW T, NEW t \in Seq(T), Len(t) = 2
  PROVE  t = <<t[1], t[2]>>
<1>1. <<t[1], t[2]>> \in Seq(T)
  <2>1. t[1] \in T /\ t[2] \in T
    BY ElementOfSeq
  <2> QED BY <2>1
<1>2. Len(<<t[1], t[2]>>) = 2
  OBVIOUS
<1>3. \A i \in 1..Len(t) : t[i] = <<t[1], t[2]>>[i]
  OBVIOUS
<1> QED BY <1>1, <1>2, <1>3, SeqEqual

-----------------------------------------------------------------------------
(* The check sum: no two states, and no two bytes, are led to the same. *)

State == SUBSET (0..15)

\* Exclusive or with the same keeps what differs apart.
LEMMA XorProperties ==
  ASSUME NEW a, NEW b, NEW c
  PROVE  /\ Xor(a, b) = Xor(a, c) => b = c
         /\ Xor(b, a) = Xor(c, a) => b = c
BY DEF Xor

\* A round sets bit 15 exactly if bit 0 was set, and keeps to sixteen bits.
LEMMA ShiftOutProperties ==
  ASSUME NEW a \in State
  PROVE  /\ ShiftOut(a) \in State
         /\ 15 \in ShiftOut(a) <=> 0 \in a
<1> DEFINE shifted == {i - 1 : i \in a \ {0}}
<1>1. shifted \subseteq 0..14
  BY DEF State
<1>2. ShiftOut(a) = IF 0 \in a THEN Xor(shifted, Polynomial) ELSE shifted
  BY Zenon DEF ShiftOut
<1> HIDE DEF shifted
<1> QED BY <1>1, <1>2 DEF Xor, Polynomial, State

\* A round leads no two states to one: bit 15 tells whether the polynomial came in.
LEMMA ShiftOutInjective ==
  ASSUME NEW a \in State, NEW b \in State, ShiftOut(a) = ShiftOut(b)
  PROVE  a = b
<1> DEFINE Shifted(s) == {i - 1 : i \in s \ {0}}
<1>1. ASSUME NEW s \in State
      PROVE ShiftOut(s) = IF 0 \in s THEN Xor(Shifted(s), Polynomial) ELSE Shifted(s)
  BY Zenon DEF ShiftOut
<1>2. 0 \in a <=> 0 \in b
  BY ShiftOutProperties
<1>3. Shifted(a) = Shifted(b)
  <2> HIDE DEF Shifted
  <2> QED BY <1>1, <1>2, XorProperties
<1>4. ASSUME NEW s \in State, NEW i \in 1..15 PROVE i \in s <=> i - 1 \in Shifted(s)
  BY DEF State
<1> HIDE DEF Shifted
<1>5. \A i \in 1..15 : i \in a <=> i \in b
  BY <1>3, <1>4
<1>6. \A i \in 0..15 : i \in a <=> i \in b
  <2>1. \A i \in 0..15 : i = 0 \/ i \in 1..15
    OBVIOUS
  <2> QED BY <1>2, <1>5, <2>1, Zenon
<1>7. a \subseteq 0..15 /\ b \subseteq 0..15
  BY DEF State
<1> QED BY <1>6, <1>7, Zenon

\* The bits of a byte are numbered below eight.
LEMMA BitsType == ASSUME NEW b PROVE Bits(b) \subseteq 0..7
BY DEF Bits

\* The eight rounds for a byte.
LEMMA AddByteRuns ==
  ASSUME NEW c \in State, NEW b
  PROVE  \E f \in [0..8 -> State] :
           /\ f[0] = Xor(c, Bits(b)) /\ \A i \in 1..8 : f[i] = ShiftOut(f[i - 1])
           /\ AddByte(c, b) = f[8]
<1> DEFINE base == Xor(c, Bits(b))
           step == [p \in (1..8) \X State |-> ShiftOut(p[2])]
           Again(f) == [i \in 0..8 |-> IF i = 0 THEN base ELSE ShiftOut(f[i - 1])]
           run == CHOOSE f : f = Again(f)
<1>1. AddByte(c, b) = run[8]
  BY Zenon DEF AddByte
<1>2. base \in State
  <2>1. Bits(b) \subseteq 0..7 /\ 0..7 \subseteq 0..15
    BY BitsType
  <2>2. c \subseteq 0..15
    BY DEF State
  <2> QED BY <2>1, <2>2, Zenon DEF Xor, State
<1>3. step \in [(1..8) \X State -> State]
  BY ShiftOutProperties
<1>4. \A i \in 1..8, s \in State : step[<<i, s>>] = ShiftOut(s)
  OBVIOUS
<1> HIDE DEF base, step
<1>5. PICK f \in [0..8 -> State] : Rounds(f, base, step, 8)
  BY <1>2, <1>3, RoundsRun
<1>6. f[0] = base /\ \A i \in 1..8 : f[i] = ShiftOut(f[i - 1])
  BY <1>4, <1>5 DEF Rounds
<1>7. f = Again(f)
  BY <1>6
<1>8. run = Again(run)
  BY <1>7, Zenon
<1> HIDE DEF run
<1>9. run[0] = base /\ \A i \in 1..8 : run[i] = ShiftOut(run[i - 1])
  BY <1>8
<1>10. run = f
  <2> DEFINE S == {i \in 0..8 : run[i] = f[i]}
  <2>1. 0 \in S
    BY <1>6, <1>9
  <2>2. ASSUME NEW i \in 1..8, i - 1 \in S PROVE i \in S
    BY <1>6, <1>9, <2>2
  <2> HIDE DEF S
  <2>3. \A i \in 0..8 : i \in S
    BY <2>1, <2>2, UpTo
  <2>4. \A i \in 0..8 : run[i] = f[i]
    BY <2>3 DEF S
  <2> QED BY <1>8, <2>4
<1> QED BY <1>1, <1>6, <1>10 DEF base

\* What differs before the eight rounds for a byte differs after them.
LEMMA AddByteInjective ==
  ASSUME NEW c \in State, NEW d \in State, NEW b, NEW e,
         Xor(c, Bits(b)) # Xor(d, Bits(e))
  PROVE  AddByte(c, b) # AddByte(d, e)
<1>1. PICK f \in [0..8 -> State] :
         /\ f[0] = Xor(c, Bits(b)) /\ \A i \in 1..8 : f[i] = ShiftOut(f[i - 1])
         /\ AddByte(c, b) = f[8]
  BY AddByteRuns
<1>2. PICK g \in [0..8 -> State] :
         /\ g[0] = Xor(d, Bits(e)) /\ \A i \in 1..8 : g[i] = ShiftOut(g[i - 1])
         /\ AddByte(d, e) = g[8]
  BY AddByteRuns
<1> DEFINE S == {i \in 0..8 : f[i] # g[i]}
<1>3. 0 \in S
  BY <1>1, <1>2
<1>4. ASSUME NEW i \in 1..8, i - 1 \in S PROVE i \in S
  BY <1>1, <1>2, <1>4, ShiftOutInjective
<1> HIDE DEF S
<1>5. 8 \in S
  BY <1>3, <1>4, UpTo
<1> QED BY <1>1, <1>2, <1>5 DEF S

\* A state keeps to sixteen bits.
LEMMA AddByteType ==
  ASSUME NEW c \in State, NEW b PROVE AddByte(c, b) \in State
BY AddByteRuns

\* The state it begins in.
Ones == 0..15

\* The check sum of a sequence, byte by byte.
LEMMA CrcRuns ==
  ASSUME NEW data, NEW n \in Nat, Len(data) = n
  PROVE  \E f \in [0..n -> State] :
           /\ f[0] = Ones /\ \A i \in 1..n : f[i] = AddByte(f[i - 1], data[i])
           /\ Crc16(data) = f[n]
<1> DEFINE step == [p \in (1..n) \X State |-> AddByte(p[2], data[p[1]])]
           Again(f) == [i \in 0..n |-> IF i = 0 THEN Ones ELSE AddByte(f[i - 1], data[i])]
           run == CHOOSE f : f = Again(f)
<1>1. Crc16(data) = run[n]
  BY Zenon DEF Crc16, Ones
<1>2. Ones \in State
  BY DEF Ones, State
<1>3. step \in [(1..n) \X State -> State]
  BY AddByteType
<1>4. \A i \in 1..n, s \in State : step[<<i, s>>] = AddByte(s, data[i])
  OBVIOUS
<1> HIDE DEF step
<1>5. PICK f \in [0..n -> State] : Rounds(f, Ones, step, n)
  BY <1>2, <1>3, RoundsRun
<1>6. f[0] = Ones /\ \A i \in 1..n : f[i] = AddByte(f[i - 1], data[i])
  <2>1. ASSUME NEW i \in 1..n PROVE f[i] = AddByte(f[i - 1], data[i])
    <3>1. f[i - 1] \in State
      OBVIOUS
    <3>2. f[i] = step[<<i, f[i - 1]>>]
      BY <1>5 DEF Rounds
    <3> QED BY <1>4, <3>1, <3>2, Zenon
  <2> QED BY <1>5, <2>1 DEF Rounds
<1>7. f = Again(f)
  BY <1>6
<1>8. run = Again(run)
  BY <1>7, Zenon
<1> HIDE DEF run
<1>9. run[0] = Ones /\ \A i \in 1..n : run[i] = AddByte(run[i - 1], data[i])
  BY <1>8
<1>10. run = f
  <2> DEFINE S == {i \in 0..n : run[i] = f[i]}
  <2>1. 0 \in S
    BY <1>6, <1>9
  <2>2. ASSUME NEW i \in 1..n, i - 1 \in S PROVE i \in S
    BY <1>6, <1>9, <2>2
  <2> HIDE DEF S
  <2>3. \A i \in 0..n : i \in S
    BY <2>1, <2>2, UpTo
  <2>4. \A i \in 0..n : run[i] = f[i]
    BY <2>3 DEF S
  <2> QED BY <1>8, <2>4
<1> QED BY <1>1, <1>6, <1>10

\* Two sequences that differ in one place only have different check sums.
LEMMA CrcDiffers ==
  ASSUME NEW n \in Nat, NEW s, NEW t, Len(s) = n, Len(t) = n, NEW k \in 1..n,
         Bits(s[k]) # Bits(t[k]), \A i \in 1..n : i # k => s[i] = t[i]
  PROVE  Crc16(s) # Crc16(t)
<1>1. PICK f \in [0..n -> State] :
         /\ f[0] = Ones /\ \A i \in 1..n : f[i] = AddByte(f[i - 1], s[i])
         /\ Crc16(s) = f[n]
  BY CrcRuns
<1>2. PICK g \in [0..n -> State] :
         /\ g[0] = Ones /\ \A i \in 1..n : g[i] = AddByte(g[i - 1], t[i])
         /\ Crc16(t) = g[n]
  BY CrcRuns
<1> DEFINE Same == {i \in 0..n : i < k => f[i] = g[i]}
           Apart == {i \in 0..n : i >= k => f[i] # g[i]}
<1>3. 0 \in Same /\ 0 \in Apart
  BY <1>1, <1>2
<1>4. ASSUME NEW i \in 1..n, i - 1 \in Same PROVE i \in Same
  <2>1. CASE i < k
    <3>1. i # k /\ i - 1 < k
      BY <2>1
    <3>2. f[i - 1] = g[i - 1] /\ s[i] = t[i]
      BY <1>4, <3>1
    <3> QED BY <1>1, <1>2, <3>2
  <2>2. CASE ~(i < k)
    BY <2>2
  <2> QED BY <2>1, <2>2
<1> HIDE DEF Same
<1>5. \A i \in 0..n : i \in Same
  BY <1>3, <1>4, UpTo
<1>6. ASSUME NEW i \in 1..n, i - 1 \in Apart PROVE i \in Apart
  <2>1. f[i - 1] \in State /\ g[i - 1] \in State
    OBVIOUS
  <2>2. f[i] = AddByte(f[i - 1], s[i]) /\ g[i] = AddByte(g[i - 1], t[i])
    BY <1>1, <1>2
  <2>3. CASE i < k
    BY <2>3
  <2>4. CASE i = k
    <3>1. f[i - 1] = g[i - 1]
      <4>1. i - 1 \in Same
        BY <1>5
      <4> QED BY <2>4, <4>1 DEF Same
    <3>2. Xor(f[i - 1], Bits(s[i])) # Xor(g[i - 1], Bits(t[i]))
      <4>1. Bits(s[i]) # Bits(t[i])
        BY <2>4
      <4> QED BY <3>1, <4>1, XorProperties, Zenon
    <3>3. f[i] # g[i]
      BY <2>1, <2>2, <3>2, AddByteInjective
    <3> QED BY <3>3
  <2>5. CASE i > k
    <3>1. f[i - 1] # g[i - 1] /\ s[i] = t[i]
      BY <1>6, <2>5
    <3>2. Xor(f[i - 1], Bits(s[i])) # Xor(g[i - 1], Bits(t[i]))
      BY <3>1, XorProperties
    <3>3. f[i] # g[i]
      BY <2>1, <2>2, <3>2, AddByteInjective
    <3> QED BY <3>3
  <2> QED BY <2>3, <2>4, <2>5
<1> HIDE DEF Apart
<1>7. n \in Apart
  <2>1. 0 \in Apart
    BY <1>3
  <2>2. \A i \in 0..n : i \in Apart
    BY <1>6, <2>1, UpTo
  <2> QED BY <2>2
<1>8. f[n] # g[n]
  BY <1>7 DEF Apart
<1> QED BY <1>1, <1>2, <1>8

-----------------------------------------------------------------------------
(* The bits of a byte. *)

\* Each bit, as a number.
Bit(b, i) ==
  CASE i = 0 -> b % 2
    [] i = 1 -> (b \div 2) % 2
    [] i = 2 -> (b \div 4) % 2
    [] i = 3 -> (b \div 8) % 2
    [] i = 4 -> (b \div 16) % 2
    [] i = 5 -> (b \div 32) % 2
    [] i = 6 -> (b \div 64) % 2
    [] i = 7 -> (b \div 128) % 2

\* Each bit of a byte, written out.
LEMMA BitsAre ==
  ASSUME NEW b \in Int
  PROVE  Bits(b) = {i \in 0..7 : Bit(b, i) = 1}
<1>1. ASSUME NEW i \in 0..7 PROVE (b \div 2^i) % 2 = Bit(b, i)
  <2>1. 2^0 = 1 /\ 2^1 = 2 /\ 2^2 = 4 /\ 2^3 = 8 /\ 2^4 = 16 /\ 2^5 = 32 /\ 2^6 = 64 /\ 2^7 = 128
    OBVIOUS
  <2>2. i \in {0, 1, 2, 3, 4, 5, 6, 7}
    OBVIOUS
  <2>3. /\ Bit(b, 0) = b % 2
        /\ Bit(b, 1) = (b \div 2) % 2
        /\ Bit(b, 2) = (b \div 4) % 2
        /\ Bit(b, 3) = (b \div 8) % 2
        /\ Bit(b, 4) = (b \div 16) % 2
        /\ Bit(b, 5) = (b \div 32) % 2
        /\ Bit(b, 6) = (b \div 64) % 2
        /\ Bit(b, 7) = (b \div 128) % 2
    BY DEF Bit
  <2>4. b \div 1 = b
    OBVIOUS
  <2>5. /\ (b \div 2^0) % 2 = Bit(b, 0)
        /\ (b \div 2^1) % 2 = Bit(b, 1)
        /\ (b \div 2^2) % 2 = Bit(b, 2)
        /\ (b \div 2^3) % 2 = Bit(b, 3)
        /\ (b \div 2^4) % 2 = Bit(b, 4)
        /\ (b \div 2^5) % 2 = Bit(b, 5)
        /\ (b \div 2^6) % 2 = Bit(b, 6)
        /\ (b \div 2^7) % 2 = Bit(b, 7)
    BY <2>1, <2>3, <2>4, Zenon
  <2> QED BY <2>2, <2>5
<1> QED BY <1>1 DEF Bits

\* What is left of a number is twice its half, and its last bit.
LEMMA Halving ==
  ASSUME NEW h \in Int
  PROVE  h = 2 * (h \div 2) + (h % 2) /\ h % 2 \in 0..1
OBVIOUS

\* A byte is what its bits add up to.
LEMMA ByteIsSum ==
  ASSUME NEW b \in Byte
  PROVE  /\ \A i \in 0..7 : Bit(b, i) \in 0..1
         /\ b = Bit(b, 0) + 2 * Bit(b, 1) + 4 * Bit(b, 2) + 8 * Bit(b, 3)
                + 16 * Bit(b, 4) + 32 * Bit(b, 5) + 64 * Bit(b, 6) + 128 * Bit(b, 7)
<1>1. b \in Int /\ 0 <= b /\ b < 256
  BY DEF Byte
<1>2. PICK h1 \in Int, h2 \in Int, h3 \in Int, h4 \in Int, h5 \in Int, h6 \in Int, h7 \in Int :
        /\ h1 = b \div 2 /\ h2 = b \div 4 /\ h3 = b \div 8 /\ h4 = b \div 16
        /\ h5 = b \div 32 /\ h6 = b \div 64 /\ h7 = b \div 128
  BY <1>1
<1>3. /\ Bit(b, 0) = b % 2 /\ Bit(b, 1) = h1 % 2 /\ Bit(b, 2) = h2 % 2 /\ Bit(b, 3) = h3 % 2
      /\ Bit(b, 4) = h4 % 2 /\ Bit(b, 5) = h5 % 2 /\ Bit(b, 6) = h6 % 2 /\ Bit(b, 7) = h7 % 2
  BY <1>2 DEF Bit
<1>4. /\ h1 = b \div 2 /\ h2 = h1 \div 2 /\ h3 = h2 \div 2 /\ h4 = h3 \div 2
      /\ h5 = h4 \div 2 /\ h6 = h5 \div 2 /\ h7 = h6 \div 2 /\ h7 \div 2 = 0
  BY <1>1, <1>2
<1>5. /\ b = 2 * h1 + Bit(b, 0) /\ h1 = 2 * h2 + Bit(b, 1) /\ h2 = 2 * h3 + Bit(b, 2)
      /\ h3 = 2 * h4 + Bit(b, 3) /\ h4 = 2 * h5 + Bit(b, 4) /\ h5 = 2 * h6 + Bit(b, 5)
      /\ h6 = 2 * h7 + Bit(b, 6) /\ h7 = 2 * 0 + Bit(b, 7)
  <2>1. b = 2 * h1 + Bit(b, 0)
    BY <1>1, <1>3, <1>4, Halving, Zenon
  <2>2. h1 = 2 * h2 + Bit(b, 1)
    BY <1>1, <1>3, <1>4, Halving, Zenon
  <2>3. h2 = 2 * h3 + Bit(b, 2)
    BY <1>1, <1>3, <1>4, Halving, Zenon
  <2>4. h3 = 2 * h4 + Bit(b, 3)
    BY <1>1, <1>3, <1>4, Halving, Zenon
  <2>5. h4 = 2 * h5 + Bit(b, 4)
    BY <1>1, <1>3, <1>4, Halving, Zenon
  <2>6. h5 = 2 * h6 + Bit(b, 5)
    BY <1>1, <1>3, <1>4, Halving, Zenon
  <2>7. h6 = 2 * h7 + Bit(b, 6)
    BY <1>1, <1>3, <1>4, Halving, Zenon
  <2>8. h7 = 2 * 0 + Bit(b, 7)
    BY <1>1, <1>3, <1>4, Halving, Zenon
  <2> QED BY <2>1, <2>2, <2>3, <2>4, <2>5, <2>6, <2>7, <2>8
<1>6. /\ Bit(b, 0) \in 0..1 /\ Bit(b, 1) \in 0..1 /\ Bit(b, 2) \in 0..1 /\ Bit(b, 3) \in 0..1
      /\ Bit(b, 4) \in 0..1 /\ Bit(b, 5) \in 0..1 /\ Bit(b, 6) \in 0..1 /\ Bit(b, 7) \in 0..1
  BY <1>1, <1>3, Halving, Zenon
<1>7. \A i \in 0..7 : Bit(b, i) \in 0..1
  <2>1. \A i \in 0..7 : i \in {0, 1, 2, 3, 4, 5, 6, 7}
    OBVIOUS
  <2> QED BY <1>6, <2>1
<1>8. b = Bit(b, 0) + 2 * Bit(b, 1) + 4 * Bit(b, 2) + 8 * Bit(b, 3)
            + 16 * Bit(b, 4) + 32 * Bit(b, 5) + 64 * Bit(b, 6) + 128 * Bit(b, 7)
  <2>1. PICK e0 \in 0..1, e1 \in 0..1, e2 \in 0..1, e3 \in 0..1,
             e4 \in 0..1, e5 \in 0..1, e6 \in 0..1, e7 \in 0..1 :
          /\ e0 = Bit(b, 0) /\ e1 = Bit(b, 1) /\ e2 = Bit(b, 2) /\ e3 = Bit(b, 3)
          /\ e4 = Bit(b, 4) /\ e5 = Bit(b, 5) /\ e6 = Bit(b, 6) /\ e7 = Bit(b, 7)
    BY <1>6, Zenon
  <2>2. b = 2 * h1 + e0 /\ h1 = 2 * h2 + e1 /\ h2 = 2 * h3 + e2 /\ h3 = 2 * h4 + e3
    BY <1>5, <2>1, Zenon
  <2>3. h4 = 2 * h5 + e4 /\ h5 = 2 * h6 + e5 /\ h6 = 2 * h7 + e6 /\ h7 = 2 * 0 + e7
    BY <1>5, <2>1, Zenon
  <2>4. b = e0 + 2 * e1 + 4 * e2 + 8 * e3 + 16 * e4 + 32 * e5 + 64 * e6 + 128 * e7
    BY <1>1, <2>2, <2>3
  <2> QED BY <2>1, <2>4, Zenon
<1> QED BY <1>7, <1>8

\* Two bytes with the same bits are the same.
LEMMA BitsInjective ==
  ASSUME NEW b \in Byte, NEW c \in Byte, Bits(b) = Bits(c)
  PROVE  b = c
<1>1. b \in Int /\ c \in Int
  BY DEF Byte
<1>2. \A i \in 0..7 : Bit(b, i) \in 0..1 /\ Bit(c, i) \in 0..1
  BY ByteIsSum
<1>3. \A i \in 0..7 : Bit(b, i) = 1 <=> Bit(c, i) = 1
  BY <1>1, BitsAre
<1>4. \A i \in 0..7 : Bit(b, i) = Bit(c, i)
  BY <1>2, <1>3
<1>5. /\ Bit(b, 0) = Bit(c, 0) /\ Bit(b, 1) = Bit(c, 1) /\ Bit(b, 2) = Bit(c, 2)
      /\ Bit(b, 3) = Bit(c, 3) /\ Bit(b, 4) = Bit(c, 4) /\ Bit(b, 5) = Bit(c, 5)
      /\ Bit(b, 6) = Bit(c, 6) /\ Bit(b, 7) = Bit(c, 7)
  BY <1>4
<1> QED BY <1>5, ByteIsSum, Zenon

\* Eight bits are those of a byte.
LEMMA ByteOfBits ==
  ASSUME NEW bits \in SUBSET (0..7)
  PROVE  ByteOf(bits) \in Byte /\ Bits(ByteOf(bits)) = bits
<1> DEFINE One(i) == IF i \in bits THEN 1 ELSE 0
           b == One(0) + 2 * One(1) + 4 * One(2) + 8 * One(3)
                + 16 * One(4) + 32 * One(5) + 64 * One(6) + 128 * One(7)
<1>1. \A i \in 0..7 : One(i) \in 0..1 /\ (One(i) = 1 <=> i \in bits)
  OBVIOUS
<1> HIDE DEF One
<1>2. PICK e0 \in 0..1, e1 \in 0..1, e2 \in 0..1, e3 \in 0..1,
           e4 \in 0..1, e5 \in 0..1, e6 \in 0..1, e7 \in 0..1 :
        /\ e0 = One(0) /\ e1 = One(1) /\ e2 = One(2) /\ e3 = One(3)
        /\ e4 = One(4) /\ e5 = One(5) /\ e6 = One(6) /\ e7 = One(7)
  BY <1>1
<1>3. b = e0 + 2 * e1 + 4 * e2 + 8 * e3 + 16 * e4 + 32 * e5 + 64 * e6 + 128 * e7
  BY <1>2
<1> HIDE DEF b
<1>4. /\ b \in Byte
      /\ b % 2 = e0 /\ (b \div 2) % 2 = e1 /\ (b \div 4) % 2 = e2 /\ (b \div 8) % 2 = e3
      /\ (b \div 16) % 2 = e4 /\ (b \div 32) % 2 = e5 /\ (b \div 64) % 2 = e6
      /\ (b \div 128) % 2 = e7
  BY <1>3 DEF Byte
<1>5. \A i \in 0..7 : Bit(b, i) = One(i)
  <2>1. \A i \in 0..7 : i \in {0, 1, 2, 3, 4, 5, 6, 7}
    OBVIOUS
  <2> QED BY <1>2, <1>4, <2>1 DEF Bit
<1>6. Bits(b) = bits
  <2>1. b \in Int
    BY <1>4 DEF Byte
  <2> QED BY <1>1, <1>5, <2>1, BitsAre
<1> QED BY <1>4, <1>6, Zenon DEF ByteOf

-----------------------------------------------------------------------------
(* Words. *)

\* The two bytes of a word, and the number they make.
High(w) == (w \div 256) % 256
Low(w) == w % 256
Whole(w) == 256 * High(w) + Low(w)

\* The numbers of two bytes.
LEMMA RegisterIs ==
  ASSUME NEW w
  PROVE  w \in Register <=> w \in Int /\ 0 <= w /\ w < 256 * 256
<1>1. PICK n \in Nat : Register = 0..n /\ n + 1 = 256 * 256
  <2>1. 256 * 256 - 1 \in Nat /\ (256 * 256 - 1) + 1 = 256 * 256
    OBVIOUS
  <2> QED BY <2>1, Zenon DEF Register, Words
<1>2. w \in 0..n <=> w \in Int /\ 0 <= w /\ w < 256 * 256
  BY <1>1
<1> QED BY <1>1, <1>2, Zenon

\* Two of them that differ by a multiple of their number are the same.
LEMMA OneRegister ==
  ASSUME NEW v \in Register, NEW w \in Register, NEW k \in Int, v = 256 * (256 * k) + w
  PROVE  v = w
<1>1. v \in Int /\ w \in Int /\ 0 <= v /\ v < 256 * 256 /\ 0 <= w /\ w < 256 * 256
  BY RegisterIs
<1> QED BY <1>1

\* Two bytes make a word.
LEMMA TwoBytes ==
  ASSUME NEW a \in Byte, NEW b \in Byte
  PROVE  256 * a + b \in Register
<1>1. 256 * a + b \in Int /\ 0 <= 256 * a + b /\ 256 * a + b < 256 * 256
  BY DEF Byte
<1> QED BY <1>1, RegisterIs, Zenon

\* A number is 256 times its quotient, and its low byte.
LEMMA Division ==
  ASSUME NEW w \in Int
  PROVE  w \div 256 \in Int /\ w = 256 * (w \div 256) + Low(w) /\ Low(w) \in Byte
BY DEF Low, Byte
\* A number is what its two bytes make, and a multiple of the number of words.
LEMMA WholeTimes ==
  ASSUME NEW w \in Int
  PROVE  /\ High(w) \in Byte /\ Low(w) \in Byte
         /\ Whole(w) \in Register
         /\ \E k \in Int : w = 256 * (256 * k) + Whole(w)
<1>1. PICK d \in Int : d = w \div 256 /\ w = 256 * d + Low(w)
  BY Division
<1>2. PICK k \in Int : d = 256 * k + Low(d)
  BY Division
<1>3. High(w) = Low(d)
  BY <1>1, Zenon DEF High, Low
<1>4. Low(w) \in Byte /\ Low(d) \in Byte
  BY Division
<1>5. Low(w) \in Int /\ Low(d) \in Int
  BY <1>4 DEF Byte
<1>6. w = 256 * (256 * k + Low(d)) + Low(w)
  BY <1>1, <1>2
<1>7. w = 256 * (256 * k) + (256 * Low(d) + Low(w))
  BY <1>5, <1>6
<1>8. Whole(w) = 256 * Low(d) + Low(w)
  BY <1>3 DEF Whole
<1>9. Whole(w) \in Register
  BY <1>4, <1>8, TwoBytes
<1> QED BY <1>3, <1>4, <1>7, <1>8, <1>9
\* A word is the number its two bytes make.
LEMMA WholeRegister ==
  ASSUME NEW w \in Register
  PROVE  Whole(w) = w
<1>1. w \in Int
  BY RegisterIs
<1>2. PICK k \in Int : w = 256 * (256 * k) + Whole(w)
  BY <1>1, WholeTimes
<1>3. Whole(w) \in Register
  BY <1>1, WholeTimes
<1> QED BY <1>2, <1>3, OneRegister
\* The gateway sends the high byte first.
LEMMA BytesAre ==
  ASSUME NEW w
  PROVE  BytesOf(w) = <<High(w), Low(w)>>
BY DEF BytesOf, High, Low

\* A word goes out as its two bytes, which make it again.
LEMMA WordOfBytes ==
  ASSUME NEW w \in Int
  PROVE  /\ BytesOf(w) \in Seq(Byte) /\ Len(BytesOf(w)) = 2
         /\ BytesOf(w)[1] \in Byte /\ BytesOf(w)[2] \in Byte
         /\ Word(BytesOf(w), 1) = Whole(w)
<1>1. High(w) \in Byte /\ Low(w) \in Byte
  BY WholeTimes
<1>2. BytesOf(w) = <<High(w), Low(w)>>
  BY BytesAre
<1>3. /\ BytesOf(w) \in Seq(Byte) /\ Len(BytesOf(w)) = 2
      /\ BytesOf(w)[1] = High(w) /\ BytesOf(w)[2] = Low(w)
  BY <1>1, <1>2
<1>4. Word(BytesOf(w), 1) = Whole(w)
  BY <1>1, <1>3 DEF Word, Whole
<1> QED BY <1>1, <1>3, <1>4

\* A word is two bytes.
LEMMA BytesLong ==
  ASSUME NEW w \in Int
  PROVE  Long(BytesOf(w), Byte, 2)
BY WordOfBytes DEF Long

\* Two bytes of a sequence, as a sequence.
LEMMA TwoOf ==
  ASSUME NEW T, NEW s, NEW n \in Nat, Long(s, T, n), NEW k \in 1..(n - 1), NEW w \in Int,
         s[k] = BytesOf(w)[1], s[k + 1] = BytesOf(w)[2]
  PROVE  SubSeq(s, k, k + 1) = BytesOf(w)
<1>1. BytesOf(w) = <<BytesOf(w)[1], BytesOf(w)[2]>>
  BY BytesAre
<1>2. SubSeq(s, k, k + 1) = <<s[k], s[k + 1]>>
  <2>1. s \in Seq(T) /\ Len(s) = n /\ k \in 1..(k+1) /\ k + 1 \in Int /\ k \in Int
    BY DEF Long
  <2>2. SubSeq(s, k, k + 1) \in Seq(T) /\ Len(SubSeq(s, k, k + 1)) = 2
        /\ \A i \in 1..2 : SubSeq(s, k, k + 1)[i] = s[k + i - 1]
    BY <2>1, SubSeqProperties
  <2> DEFINE t == SubSeq(s, k, k + 1)
  <2>3. t \in Seq(T) /\ Len(t) = 2 /\ t[1] = s[k] /\ t[2] = s[k + 1]
    BY <2>1, <2>2
  <2> HIDE DEF t
  <2>4. t = <<t[1], t[2]>>
    BY <2>3, PairOf
  <2>5. t = <<s[k], s[k + 1]>>
    BY <2>3, <2>4
  <2> QED BY <2>5 DEF t
<1> QED BY <1>1, <1>2

\* Two bytes of a sequence, as a word.
LEMMA WordIs ==
  ASSUME NEW w \in Register, NEW s, NEW k \in Int, s[k] = BytesOf(w)[1], s[k + 1] = BytesOf(w)[2]
  PROVE  Word(s, k) = w
<1>1. w \in Int
  BY DEF Register
<1>2. Word(BytesOf(w), 1) = w
  BY <1>1, WordOfBytes, WholeRegister
<1> QED BY <1>2 DEF Word

-----------------------------------------------------------------------------
(* Frames. *)

\* The bits of two bytes are each byte's.
LEMMA BitsOfEach ==
  ASSUME NEW low, NEW high
  PROVE  /\ Bits(low) = BitsOfTwo(low, high) \cap 0..7
         /\ Bits(high) = {i \in 0..7 : 8 + i \in BitsOfTwo(low, high)}
<1>1. \A i \in Bits(low) : i \in 0..7
  BY BitsType
<1>2. \A i \in Bits(high) : i \in 0..7
  BY BitsType
<1>3. ASSUME NEW i \in 0..7 PROVE i \in BitsOfTwo(low, high) <=> i \in Bits(low)
  BY <1>2 DEF BitsOfTwo
<1>4. ASSUME NEW i \in 0..7 PROVE 8 + i \in BitsOfTwo(low, high) <=> i \in Bits(high)
  BY <1>1, <1>2 DEF BitsOfTwo
<1> QED BY <1>1, <1>2, <1>3, <1>4

\* The bits of two bytes tell the bits of each.
LEMMA BitsOfTwoInjective ==
  ASSUME NEW a \in Byte, NEW b \in Byte, NEW c \in Byte, NEW d \in Byte,
         BitsOfTwo(a, b) = BitsOfTwo(c, d)
  PROVE  a = c /\ b = d
<1> DEFINE all == BitsOfTwo(a, b)
<1>1. Bits(a) = all \cap 0..7 /\ Bits(b) = {i \in 0..7 : 8 + i \in all}
  BY BitsOfEach, Zenon
<1>2. Bits(c) = all \cap 0..7 /\ Bits(d) = {i \in 0..7 : 8 + i \in all}
  <2>1. /\ Bits(c) = BitsOfTwo(c, d) \cap 0..7
        /\ Bits(d) = {i \in 0..7 : 8 + i \in BitsOfTwo(c, d)}
    BY BitsOfEach, Zenon
  <2> QED BY <2>1
<1>3. Bits(a) = Bits(c) /\ Bits(b) = Bits(d)
  BY <1>1, <1>2, Zenon
<1> QED BY <1>3, BitsInjective, Zenon

\* Two bytes hold a check sum.
LEMMA CrcInTwo ==
  ASSUME NEW crc \in State
  PROVE  LET low == ByteOf(crc \cap 0..7)
             high == ByteOf({i - 8 : i \in crc \cap 8..15})
         IN  low \in Byte /\ high \in Byte /\ BitsOfTwo(low, high) = crc
<1> DEFINE first == crc \cap 0..7
           second == {i - 8 : i \in crc \cap 8..15}
<1>1. first \in SUBSET (0..7) /\ second \in SUBSET (0..7)
  OBVIOUS
<1>2. /\ ByteOf(first) \in Byte /\ Bits(ByteOf(first)) = first
      /\ ByteOf(second) \in Byte /\ Bits(ByteOf(second)) = second
  BY <1>1, ByteOfBits, Zenon
<1>3. first \cup {8 + i : i \in second} = crc
  <2>1. crc \subseteq 0..15
    BY DEF State
  <2>2. \A i \in 8..15 : 8 + (i - 8) = i
    OBVIOUS
  <2>3. {8 + i : i \in second} = crc \cap 8..15
    BY <2>2
  <2>4. \A i \in 0..15 : i \in 0..7 \/ i \in 8..15
    OBVIOUS
  <2> QED BY <2>1, <2>3, <2>4, Zenon
<1> HIDE DEF first, second
<1>4. BitsOfTwo(ByteOf(first), ByteOf(second)) = crc
  BY <1>2, <1>3, Zenon DEF BitsOfTwo
<1> QED BY <1>2, <1>4, Zenon DEF first, second

\* A frame is valid, and begins with the data it was made of.
LEMMA FramedHolds ==
  ASSUME NEW n \in Nat \ {0}, NEW data, Long(data, Byte, n)
  PROVE  /\ Long(Framed(data), Byte, n + 2) /\ First(data, Framed(data), n)
         /\ ValidCrc(Framed(data))
<1> DEFINE crc == Crc16(data)
           low == ByteOf(crc \cap 0..7)
           high == ByteOf({i - 8 : i \in crc \cap 8..15})
           tail == <<low, high>>
           frame == data \o tail
           part == SubSeq(frame, 1, n)
<1>1. Framed(data) = frame
  BY Zenon DEF Framed
<1>2. crc \in State
  <2>1. n \in Nat /\ Len(data) = n
    BY DEF Long
  <2>2. PICK f \in [0..n -> State] : crc = f[n]
    BY <2>1, CrcRuns
  <2>3. n \in 0..n
    BY <2>1
  <2> QED BY <2>2, <2>3
<1> HIDE DEF crc
<1>3. low \in Byte /\ high \in Byte /\ BitsOfTwo(low, high) = crc
  BY <1>2, CrcInTwo, Zenon
<1> HIDE DEF low, high
<1>4. Long(tail, Byte, 2) /\ tail[1] = low /\ tail[2] = high
  BY <1>3, PairLong
<1> HIDE DEF tail
<1>5. 2 \in Nat /\ n \in Nat
  OBVIOUS
<1>6. Long(frame, Byte, n + 2) /\ First(data, frame, n) /\ After(tail, n, frame, 2)
  BY <1>4, <1>5, JoinedLong, JoinedFirst, JoinedAfter, Zenon
<1> HIDE DEF frame
<1>7. part = data
  <2>1. n + 2 \in Nat /\ 1 \in 1..(n + 2) /\ n \in 1..(n + 2) /\ n - 1 + 1 = n
    BY <1>5
  <2>2. frame \in Seq(Byte) /\ Len(frame) = n + 2
    BY <1>6 DEF Long
  <2>3. part \in Seq(Byte) /\ Len(part) = n /\ \A i \in 1..n : part[i] = frame[i]
    BY <2>1, <2>2, SubSeqProperties
  <2>4. data \in Seq(Byte) /\ Len(data) = n /\ \A i \in 1..n : frame[i] = data[i]
    BY <1>6 DEF Long, First
  <2> HIDE DEF part
  <2> QED BY <2>3, <2>4, SeqEqual
<1>8. frame[n + 1] = low /\ frame[n + 2] = high
  BY <1>4, <1>6 DEF After
<1>9. ValidCrc(frame)
  <2>1. Len(frame) = n + 2 /\ n + 2 >= 3 /\ n + 2 - 2 = n /\ n + 2 - 1 = n + 1
    BY <1>5, <1>6 DEF Long
  <2>2. Crc16(SubSeq(frame, 1, n + 2 - 2)) = BitsOfTwo(frame[n + 2 - 1], frame[n + 2])
    BY <1>3, <1>7, <1>8, <2>1 DEF crc, part
  <2> QED BY <2>1, <2>2 DEF ValidCrc
<1> QED BY <1>1, <1>6, <1>9, Zenon

\* Two frames of one length that differ in one byte are not both valid: whichever bits of a
\* byte the line has turned over, in the data or in the check sum itself, the frame is refused.
THEOREM OneByteIsFound ==
  ASSUME NEW n \in Nat, NEW s, NEW t, Long(s, Byte, n), Long(t, Byte, n), NEW k \in 1..n,
         s[k] # t[k], \A i \in 1..n : i # k => s[i] = t[i],
         ValidCrc(s)
  PROVE  ~ValidCrc(t)
<1> SUFFICES ASSUME ValidCrc(t) PROVE FALSE
  OBVIOUS
<1>1. /\ s \in Seq(Byte) /\ Len(s) = n /\ t \in Seq(Byte) /\ Len(t) = n
      /\ \A i \in 1..n : s[i] \in Byte /\ t[i] \in Byte
  <2>1. s \in Seq(Byte) /\ Len(s) = n /\ t \in Seq(Byte) /\ Len(t) = n
    BY DEF Long
  <2> QED BY <2>1, ElementOfSeq
<1>2. /\ n >= 3 /\ Crc16(SubSeq(s, 1, n - 2)) = BitsOfTwo(s[n - 1], s[n])
      /\ Crc16(SubSeq(t, 1, n - 2)) = BitsOfTwo(t[n - 1], t[n])
  BY <1>1 DEF ValidCrc
<1> DEFINE m == n - 2
           head == SubSeq(s, 1, m)
           other == SubSeq(t, 1, m)
<1>3. m \in Nat /\ m \in 1..n
  BY <1>2
<1>4. /\ head \in Seq(Byte) /\ Len(head) = m /\ \A i \in 1..m : head[i] = s[i]
      /\ other \in Seq(Byte) /\ Len(other) = m /\ \A i \in 1..m : other[i] = t[i]
  <2>1. ASSUME NEW u \in Seq(Byte), Len(u) = n
        PROVE  /\ SubSeq(u, 1, m) \in Seq(Byte) /\ Len(SubSeq(u, 1, m)) = m
               /\ \A i \in 1..m : SubSeq(u, 1, m)[i] = u[i]
    <3>1. \A i \in 1..m : u[i] \in Byte
      BY <1>3, <2>1, ElementOfSeq
    <3> QED BY <1>3, <2>1, <3>1, SubSeqProperties
  <2> QED BY <1>1, <2>1, Zenon
<1>5. CASE k \in 1..m
  <2>1. s[n - 1] = t[n - 1] /\ s[n] = t[n]
    <3>1. n - 1 \in 1..n /\ n - 1 # k /\ n \in 1..n /\ n # k
      BY <1>2, <1>5
    <3> QED BY <3>1
  <2>2. Crc16(head) = Crc16(other)
    BY <1>2, <2>1
  <2>3. Bits(head[k]) # Bits(other[k])
    <3>1. head[k] = s[k] /\ other[k] = t[k]
      BY <1>4, <1>5
    <3>2. s[k] \in Byte /\ t[k] \in Byte
      BY <1>1
    <3> QED BY <3>1, <3>2, BitsInjective
  <2>4. \A i \in 1..m : i # k => head[i] = other[i]
    <3>1. \A i \in 1..m : i \in 1..n
      BY <1>3
    <3> QED BY <1>4, <3>1, Zenon
  <2> HIDE DEF head, other, m
  <2> QED BY <1>3, <1>4, <1>5, <2>2, <2>3, <2>4, CrcDiffers
<1>6. CASE k \notin 1..m
  <2>1. \A i \in 1..m : i \in 1..n /\ i # k
    BY <1>3, <1>6
  <2>2. \A i \in 1..m : head[i] = other[i]
    BY <1>4, <2>1, Zenon
  <2>3. head = other
    <3> HIDE DEF head, other, m
    <3> QED BY <1>4, <2>2, SeqEqual
  <2>4. BitsOfTwo(s[n - 1], s[n]) = BitsOfTwo(t[n - 1], t[n])
    BY <1>2, <2>3, Zenon
  <2>5. n - 1 \in 1..n /\ n \in 1..n /\ (k = n - 1 \/ k = n)
    BY <1>2, <1>6
  <2>6. s[n - 1] = t[n - 1] /\ s[n] = t[n]
    <3>1. PICK a \in Byte, b \in Byte, c \in Byte, d \in Byte :
            a = s[n - 1] /\ b = s[n] /\ c = t[n - 1] /\ d = t[n]
      BY <1>1, <2>5
    <3>2. a = c /\ b = d
      BY <2>4, <3>1, BitsOfTwoInjective
    <3> QED BY <3>1, <3>2
  <2> QED BY <2>5, <2>6
<1> QED BY <1>5, <1>6

\* The data of a read.
ReadOf(a, f, s, c) == <<a, f>> \o BytesOf(s) \o BytesOf(c)

\* The six bytes of a read that its check sum is of.
LEMMA AskData ==
  ASSUME NEW a \in Byte, NEW f \in Byte, NEW s \in Int, NEW c \in Int
  PROVE  /\ Long(ReadOf(a, f, s, c), Byte, 6)
         /\ ReadOf(a, f, s, c)[1] = a /\ ReadOf(a, f, s, c)[2] = f
         /\ ReadOf(a, f, s, c)[3] = BytesOf(s)[1] /\ ReadOf(a, f, s, c)[4] = BytesOf(s)[2]
         /\ ReadOf(a, f, s, c)[5] = BytesOf(c)[1] /\ ReadOf(a, f, s, c)[6] = BytesOf(c)[2]
<1> DEFINE head == <<a, f>>
           start == BytesOf(s)
           count == BytesOf(c)
           both == head \o start
           data == both \o count
<1>1. Long(head, Byte, 2) /\ Long(start, Byte, 2) /\ Long(count, Byte, 2)
      /\ head[1] = a /\ head[2] = f
  BY PairLong, BytesLong
<1> HIDE DEF head, start, count
<1>2. 2 \in Nat /\ 4 \in Nat /\ 2 + 2 = 4 /\ 4 + 2 = 6
  OBVIOUS
<1>3. Long(both, Byte, 2 + 2) /\ First(head, both, 2) /\ After(start, 2, both, 2)
  BY <1>1, <1>2, JoinedLong, JoinedFirst, JoinedAfter, Zenon
<1>4. Long(both, Byte, 4)
  BY <1>2, <1>3
<1> HIDE DEF both
<1>5. Long(data, Byte, 4 + 2) /\ First(both, data, 4) /\ After(count, 4, data, 2)
  BY <1>1, <1>2, <1>4, JoinedLong, JoinedFirst, JoinedAfter, Zenon
<1>6. Long(data, Byte, 6)
  BY <1>2, <1>5
<1> HIDE DEF data
<1>7. both[1] = head[1] /\ both[2] = head[2] /\ both[3] = start[1] /\ both[4] = start[2]
  BY <1>3 DEF First, After
<1>8. /\ data[1] = both[1] /\ data[2] = both[2] /\ data[3] = both[3] /\ data[4] = both[4]
      /\ data[5] = count[1] /\ data[6] = count[2]
  BY <1>5 DEF First, After
<1>9. /\ Long(data, Byte, 6)
      /\ data[1] = a /\ data[2] = f /\ data[3] = start[1] /\ data[4] = start[2]
      /\ data[5] = count[1] /\ data[6] = count[2]
  BY <1>1, <1>6, <1>7, <1>8
<1> QED BY <1>9 DEF ReadOf, data, both, head, start, count

\* Two bytes to a register.
LEMMA Halves ==
  ASSUME NEW m \in Nat
  PROVE  /\ (2 * m) \div 2 = m /\ (2 * m) % 2 = 0
         /\ (2 * m + 1) \div 2 = m /\ (2 * m + 1) % 2 = 1
OBVIOUS

\* The register that the i-th byte of an answer's data is of, and which of its two it is.
Nth(start, i) == start + ((i - 1) \div 2)
Half(i) == 1 + ((i - 1) % 2)

\* The word a byte of the answer is of, and which half of it.
LEMMA NthTyped ==
  ASSUME NEW s \in Int, NEW c \in Nat, NEW i \in 1..(2 * c)
  PROVE  Nth(s, i) \in s..(s + c - 1) /\ Half(i) \in {1, 2}
BY DEF Nth, Half

\* The two bytes of the word counted m.
LEMMA NthOf ==
  ASSUME NEW s \in Int, NEW m \in Nat
  PROVE  /\ Nth(s, 2 * m + 1) = s + m /\ Half(2 * m + 1) = 1
         /\ Nth(s, 2 * m + 2) = s + m /\ Half(2 * m + 2) = 2
<1>1. 2 * m + 1 - 1 = 2 * m /\ 2 * m + 2 - 1 = 2 * m + 1
  OBVIOUS
<1> QED BY <1>1, Halves DEF Nth, Half

\* The data of an answer: two bytes for each register it reads, in their order.
BodyOf(s, c, sensor) ==
  [i \in 1..(2 * c) |-> BytesOf(sensor[s + ((i - 1) \div 2)])[1 + ((i - 1) % 2)]]

LEMMA BodyHolds ==
  ASSUME NEW s \in Int, NEW c \in Nat, NEW sensor, \A a \in s..(s + c - 1) : sensor[a] \in Int
  PROVE  /\ Long(BodyOf(s, c, sensor), Byte, 2 * c)
         /\ \A m \in 0..(c - 1) :
              /\ BodyOf(s, c, sensor)[2 * m + 1] = BytesOf(sensor[s + m])[1]
              /\ BodyOf(s, c, sensor)[2 * m + 2] = BytesOf(sensor[s + m])[2]
<1> DEFINE n == 2 * c
           body == [i \in 1..n |-> BytesOf(sensor[Nth(s, i)])[Half(i)]]
<1>1. ASSUME NEW i \in 1..n PROVE BytesOf(sensor[Nth(s, i)])[Half(i)] \in Byte
  <2>1. sensor[Nth(s, i)] \in Int /\ Half(i) \in {1, 2}
    BY NthTyped
  <2> QED BY <2>1, WordOfBytes
<1>2. n \in Nat
  OBVIOUS
<1> HIDE DEF n
<1>3. body \in [1..n -> Byte]
  BY <1>1
<1>4. Long(body, Byte, n)
  <2> HIDE DEF body
  <2>1. body \in Seq(Byte)
    BY <1>2, <1>3, SeqDef
  <2> QED BY <1>2, <1>3, <2>1, LenProperties DEF Long
<1>5. ASSUME NEW m \in 0..(c - 1)
      PROVE  /\ body[2 * m + 1] = BytesOf(sensor[s + m])[1]
             /\ body[2 * m + 2] = BytesOf(sensor[s + m])[2]
  <2>1. 2 * m + 1 \in 1..n /\ 2 * m + 2 \in 1..n /\ m \in Nat
    BY DEF n
  <2>2. /\ Nth(s, 2 * m + 1) = s + m /\ Half(2 * m + 1) = 1
        /\ Nth(s, 2 * m + 2) = s + m /\ Half(2 * m + 2) = 2
    BY <2>1, NthOf
  <2> QED BY <2>1, <2>2
<1> QED BY <1>4, <1>5 DEF BodyOf, n, Nth, Half

\* The bytes of an answer, over the numbers of its query.
AnswerOf(a, f, s, c, sensor) == Framed(<<a, f, 2 * c>> \o BodyOf(s, c, sensor))
AnswerHas(answer, a, f, s, c, sensor) ==
  /\ Long(answer, Byte, 2 * c + 5) /\ ValidCrc(answer)
  /\ answer[1] = a /\ answer[2] = f /\ answer[3] = 2 * c
  /\ \A m \in 0..(c - 1) :
       /\ answer[3 + (2 * m + 1)] = BytesOf(sensor[s + m])[1]
       /\ answer[3 + (2 * m + 2)] = BytesOf(sensor[s + m])[2]

LEMMA AnswerData ==
  ASSUME NEW a \in Byte, NEW f \in Byte, NEW s \in Int, NEW c \in 1..127, NEW sensor,
         \A i \in s..(s + c - 1) : sensor[i] \in Int
  PROVE  AnswerHas(AnswerOf(a, f, s, c, sensor), a, f, s, c, sensor)
<1> DEFINE n == 2 * c
           head == <<a, f, n>>
           body == BodyOf(s, c, sensor)
           data == head \o body
           answer == Framed(data)
<1>1. n \in Nat /\ 3 \in Nat /\ 3 + n \in Nat \ {0} /\ 3 + n + 2 = n + 5 /\ c \in Nat
  OBVIOUS
<1>2. /\ Long(body, Byte, n)
      /\ \A m \in 0..(c - 1) : /\ body[2 * m + 1] = BytesOf(sensor[s + m])[1]
                               /\ body[2 * m + 2] = BytesOf(sensor[s + m])[2]
  BY <1>1, BodyHolds
<1>3. \A m \in 0..(c - 1) : 2 * m + 1 \in 1..n /\ 2 * m + 2 \in 1..n
  OBVIOUS
<1>4. n \in Byte
  BY <1>1 DEF Byte
<1> HIDE DEF n, body
<1>5. /\ Long(head, Byte, 3) /\ head[1] = a /\ head[2] = f /\ head[3] = n
  BY <1>4, TripleLong
<1> HIDE DEF head
<1>6. Long(data, Byte, 3 + n) /\ First(head, data, 3) /\ After(body, 3, data, n)
  BY <1>1, <1>2, <1>5, JoinedLong, JoinedFirst, JoinedAfter, Zenon
<1> HIDE DEF data
<1>7. Long(answer, Byte, 3 + n + 2) /\ First(data, answer, 3 + n) /\ ValidCrc(answer)
  BY <1>1, <1>6, FramedHolds, Zenon
<1>8. Long(answer, Byte, n + 5)
  BY <1>1, <1>7
<1> HIDE DEF answer
<1>9. data[1] = a /\ data[2] = f /\ data[3] = n
  BY <1>5, <1>6 DEF First
<1>10. answer[1] = data[1] /\ answer[2] = data[2] /\ answer[3] = data[3]
  BY <1>1, <1>7 DEF First
<1>11. \A k \in 1..n : answer[3 + k] = body[k]
  <2>1. \A k \in 1..n : 3 + k \in 1..(3 + n)
    BY <1>1
  <2> QED BY <1>6, <1>7, <2>1, Zenon DEF First, After
<1>12. \A m \in 0..(c - 1) :
         /\ answer[3 + (2 * m + 1)] = BytesOf(sensor[s + m])[1]
         /\ answer[3 + (2 * m + 2)] = BytesOf(sensor[s + m])[2]
  BY <1>2, <1>3, <1>11
<1> QED BY <1>7, <1>8, <1>9, <1>10, <1>12 DEF AnswerHas, AnswerOf, answer, data, head, body, n

-----------------------------------------------------------------------------
(* Text. *)

\* Bytes that no text holds are taken as they are.
LEMMA NotText ==
  ASSUME NEW payload, NEW T, NEW n \in Nat, Long(payload, T, n), NEW i \in 1..n,
         payload[i] \notin White \cup HexDigit
  PROVE  Normalized(payload) = payload
<1>1. i \in 1..Len(payload)
  BY DEF Long
<1>2. ~IsHex(payload)
  BY <1>1, Zenon DEF IsHex
<1> QED BY <1>2, Zenon DEF Normalized

\* What is kept of a payload, byte by byte.
LEMMA SqueezedRuns ==
  ASSUME NEW n \in Nat, NEW payload, Long(payload, Byte, n)
  PROVE  \E f \in [0..n -> Seq(Byte)] :
           /\ f[0] = <<>>
           /\ \A i \in 1..n : f[i] = IF payload[i] \in White THEN f[i - 1]
                                     ELSE Append(f[i - 1], payload[i])
           /\ Squeezed(payload) = f[n]
<1> DEFINE Kept(s, i) == IF payload[i] \in White THEN s ELSE Append(s, payload[i])
           step == [p \in (1..n) \X Seq(Byte) |-> Kept(p[2], p[1])]
           Again(f) == [i \in 0..n |-> IF i = 0 THEN <<>> ELSE Kept(f[i - 1], i)]
           run == CHOOSE f : f = Again(f)
<1>1. Len(payload) = n /\ \A i \in 1..n : payload[i] \in Byte
  <2>1. payload \in Seq(Byte) /\ Len(payload) = n
    BY DEF Long
  <2> QED BY <2>1, ElementOfSeq
<1>2. Squeezed(payload) = run[n]
  BY <1>1, Zenon DEF Squeezed
<1>3. <<>> \in Seq(Byte)
  OBVIOUS
<1>4. \A i \in 1..n, s \in Seq(Byte) : Kept(s, i) \in Seq(Byte)
  BY <1>1, AppendProperties
<1> HIDE DEF Kept
<1>5. step \in [(1..n) \X Seq(Byte) -> Seq(Byte)]
  BY <1>4
<1>6. \A i \in 1..n, s \in Seq(Byte) : step[<<i, s>>] = Kept(s, i)
  OBVIOUS
<1> HIDE DEF step
<1>7. PICK f \in [0..n -> Seq(Byte)] : Rounds(f, <<>>, step, n)
  BY <1>3, <1>5, RoundsRun
<1>8. f[0] = <<>> /\ \A i \in 1..n : f[i] = Kept(f[i - 1], i)
  <2>1. ASSUME NEW i \in 1..n PROVE f[i] = Kept(f[i - 1], i)
    <3>1. f[i - 1] \in Seq(Byte)
      OBVIOUS
    <3>2. f[i] = step[<<i, f[i - 1]>>]
      BY <1>7 DEF Rounds
    <3> QED BY <1>6, <3>1, <3>2, Zenon
  <2> QED BY <1>7, <2>1 DEF Rounds
<1>9. f = Again(f)
  BY <1>8
<1>10. run = Again(run)
  BY <1>9, Zenon
<1> HIDE DEF run
<1>11. run[0] = <<>> /\ \A i \in 1..n : run[i] = Kept(run[i - 1], i)
  BY <1>10
<1>12. run = f
  <2> DEFINE S == {i \in 0..n : run[i] = f[i]}
  <2>1. 0 \in S
    BY <1>8, <1>11
  <2>2. ASSUME NEW i \in 1..n, i - 1 \in S PROVE i \in S
    BY <1>8, <1>11, <2>2
  <2> HIDE DEF S
  <2>3. \A i \in 0..n : i \in S
    BY <2>1, <2>2, UpTo
  <2>4. \A i \in 0..n : run[i] = f[i]
    BY <2>3 DEF S
  <2> QED BY <1>10, <2>4
<1> QED BY <1>2, <1>8, <1>12 DEF Kept

\* A digit of a text, and the byte of a text that stands for a part of a byte.
DigitOf(d, big) == IF d < 10 THEN d + 48 ELSE d + (IF big THEN 55 ELSE 87)

\* The two digits of a byte are hexadecimal, and make the byte again.
LEMMA DigitsAre ==
  ASSUME NEW d \in 0..15, NEW big \in BOOLEAN
  PROVE  /\ DigitOf(d, big) \in HexDigit /\ DigitOf(d, big) \notin White
         /\ DigitOf(d, big) \in Byte /\ Digit(DigitOf(d, big)) = d
<1>1. DigitOf(d, big) \in HexDigit /\ Digit(DigitOf(d, big)) = d
  BY DEF DigitOf, HexDigit, Digit
<1>2. DigitOf(d, big) \notin White /\ DigitOf(d, big) \in Byte
  BY <1>1 DEF HexDigit, White, Byte
<1> QED BY <1>1, <1>2

\* The places of a text that stand for a byte.
LEMMA TextHolds ==
  ASSUME NEW n \in Nat, NEW bytes, Long(bytes, Byte, n), NEW big \in BOOLEAN
  PROVE  /\ Long(HexText(bytes, big), Byte, 3 * n)
         /\ \A k \in 1..n :
              /\ HexText(bytes, big)[3 * k - 2] = DigitOf(bytes[k] \div 16, big)
              /\ HexText(bytes, big)[3 * k - 1] = DigitOf(bytes[k] % 16, big)
              /\ HexText(bytes, big)[3 * k] = 32
<1> DEFINE Three(byte) == <<DigitOf(byte \div 16, big), DigitOf(byte % 16, big), 32>>
           text == [i \in 1..(3 * n) |-> Three(bytes[(i + 2) \div 3])[1 + ((i - 1) % 3)]]
<1>1. HexText(bytes, big) = text
  BY DEF HexText, DigitOf, Long
<1>2. ASSUME NEW b \in Byte
      PROVE  /\ Three(b)[1] = DigitOf(b \div 16, big) /\ Three(b)[2] = DigitOf(b % 16, big)
             /\ Three(b)[3] = 32
             /\ Three(b)[1] \in Byte /\ Three(b)[2] \in Byte /\ Three(b)[3] \in Byte
  <2>1. b \div 16 \in 0..15 /\ b % 16 \in 0..15
    BY DEF Byte
  <2> QED BY <2>1, DigitsAre DEF Byte
<1> HIDE DEF Three
<1>3. \A k \in 1..n : bytes[k] \in Byte
  <2>1. bytes \in Seq(Byte) /\ Len(bytes) = n
    BY DEF Long
  <2> QED BY <2>1, ElementOfSeq
<1>4. ASSUME NEW i \in 1..(3 * n)
      PROVE  (i + 2) \div 3 \in 1..n /\ 1 + ((i - 1) % 3) \in {1, 2, 3}
  OBVIOUS
<1>5. text \in [1..(3 * n) -> Byte]
  <2>1. ASSUME NEW i \in 1..(3 * n)
        PROVE  Three(bytes[(i + 2) \div 3])[1 + ((i - 1) % 3)] \in Byte
    <3>1. bytes[(i + 2) \div 3] \in Byte /\ 1 + ((i - 1) % 3) \in {1, 2, 3}
      BY <1>3, <1>4
    <3> QED BY <1>2, <3>1
  <2> QED BY <2>1
<1>6. Long(text, Byte, 3 * n)
  <2> HIDE DEF text
  <2>1. PICK m \in Nat : m = 3 * n
    OBVIOUS
  <2>2. text \in [1..m -> Byte]
    BY <1>5, <2>1
  <2>3. text \in Seq(Byte)
    BY <2>1, <2>2, SeqDef
  <2> QED BY <2>1, <2>2, <2>3, LenProperties DEF Long
<1>7. ASSUME NEW k \in 1..n
      PROVE  /\ text[3 * k - 2] = DigitOf(bytes[k] \div 16, big)
             /\ text[3 * k - 1] = DigitOf(bytes[k] % 16, big)
             /\ text[3 * k] = 32
  <2>1. /\ 3 * k - 2 \in 1..(3 * n) /\ 3 * k - 1 \in 1..(3 * n) /\ 3 * k \in 1..(3 * n)
        /\ (3 * k - 2 + 2) \div 3 = k /\ 1 + ((3 * k - 2 - 1) % 3) = 1
        /\ (3 * k - 1 + 2) \div 3 = k /\ 1 + ((3 * k - 1 - 1) % 3) = 2
        /\ (3 * k + 2) \div 3 = k /\ 1 + ((3 * k - 1) % 3) = 3
    OBVIOUS
  <2>2. bytes[k] \in Byte
    BY <1>3
  <2> QED BY <1>2, <2>1, <2>2
<1> QED BY <1>1, <1>6, <1>7

\* Of a text the digits are kept, two for a byte.
LEMMA TextSqueezed ==
  ASSUME NEW n \in Nat, NEW bytes, Long(bytes, Byte, n), NEW big \in BOOLEAN
  PROVE  LET text == Squeezed(HexText(bytes, big)) IN
         /\ Long(text, Byte, 2 * n)
         /\ \A k \in 1..n : /\ text[2 * k - 1] = DigitOf(bytes[k] \div 16, big)
                            /\ text[2 * k] = DigitOf(bytes[k] % 16, big)
<1> DEFINE payload == HexText(bytes, big)
           Tens(k) == DigitOf(bytes[k] \div 16, big)
           Units(k) == DigitOf(bytes[k] % 16, big)
<1>1. /\ Long(payload, Byte, 3 * n)
      /\ \A k \in 1..n : /\ payload[3 * k - 2] = Tens(k) /\ payload[3 * k - 1] = Units(k)
                         /\ payload[3 * k] = 32
  BY TextHolds
<1>2. \A k \in 1..n : /\ Tens(k) \in Byte /\ Tens(k) \notin White
                      /\ Units(k) \in Byte /\ Units(k) \notin White
  <2>1. bytes \in Seq(Byte) /\ Len(bytes) = n
    BY DEF Long
  <2>2. ASSUME NEW k \in 1..n PROVE bytes[k] \div 16 \in 0..15 /\ bytes[k] % 16 \in 0..15
    <3>1. bytes[k] \in Byte
      BY <2>1, ElementOfSeq
    <3> QED BY <3>1 DEF Byte
  <2> QED BY <2>2, DigitsAre
<1>3. 32 \in White
  BY DEF White
<1> HIDE DEF payload, Tens, Units
<1>4. PICK f \in [0..(3 * n) -> Seq(Byte)] :
        /\ f[0] = <<>>
        /\ \A i \in 1..(3 * n) : f[i] = IF payload[i] \in White THEN f[i - 1]
                                        ELSE Append(f[i - 1], payload[i])
        /\ Squeezed(payload) = f[3 * n]
  <2>1. 3 * n \in Nat
    OBVIOUS
  <2> QED BY <1>1, <2>1, SqueezedRuns
<1> DEFINE Holds(s, k) ==
             /\ Len(s) = 2 * k
             /\ \A j \in 1..k : s[2 * j - 1] = Tens(j) /\ s[2 * j] = Units(j)
           S == {k \in 0..n : Holds(f[3 * k], k)}
<1>5. 0 \in S
  <2>1. f[3 * 0] = <<>>
    BY <1>4
  <2> QED BY <2>1
<1>6. ASSUME NEW k \in 1..n, k - 1 \in S PROVE k \in S
  <2>1. Holds(f[3 * (k - 1)], k - 1)
    BY <1>6
  <2> DEFINE s == f[3 * (k - 1)]
             t == Append(Append(s, Tens(k)), Units(k))
  <2>2. /\ 3 * k - 2 \in 1..(3 * n) /\ 3 * k - 1 \in 1..(3 * n) /\ 3 * k \in 1..(3 * n)
        /\ 3 * k - 2 - 1 = 3 * (k - 1) /\ 3 * k - 1 - 1 = 3 * k - 2
        /\ 3 * (k - 1) \in 0..(3 * n)
    OBVIOUS
  <2>3. s \in Seq(Byte)
    BY <2>2
  <2>4. f[3 * k - 2] = Append(s, Tens(k))
    BY <1>1, <1>2, <1>4, <2>2
  <2>5. f[3 * k - 1] = t
    BY <1>1, <1>2, <1>4, <2>2, <2>4
  <2>6. f[3 * k] = t
    BY <1>1, <1>3, <1>4, <2>2, <2>5
  <2>7. Tens(k) \in Byte /\ Units(k) \in Byte
    BY <1>2
  <2>8. Holds(t, k)
    <3>1. Len(s) = 2 * k - 2 /\ \A j \in 1..(k - 1) : s[2 * j - 1] = Tens(j) /\ s[2 * j] = Units(j)
      BY <2>1
    <3> HIDE DEF s
    <3>2. /\ Len(t) = 2 * k /\ t[2 * k - 1] = Tens(k) /\ t[2 * k] = Units(k)
          /\ \A i \in 1..(2 * k - 2) : t[i] = s[i]
      BY <2>3, <2>7, <3>1
    <3> HIDE DEF t
    <3>3. ASSUME NEW j \in 1..k PROVE t[2 * j - 1] = Tens(j) /\ t[2 * j] = Units(j)
      <4>1. CASE j = k
        BY <3>2, <4>1
      <4>2. CASE j # k
        <5>1. j \in 1..(k - 1) /\ 2 * j - 1 \in 1..(2 * k - 2) /\ 2 * j \in 1..(2 * k - 2)
          BY <4>2
        <5> QED BY <3>1, <3>2, <5>1
      <4> QED BY <4>1, <4>2
    <3> QED BY <3>2, <3>3
  <2> HIDE DEF Holds, t
  <2> QED BY <2>6, <2>8
<1> HIDE DEF S
<1>7. n \in S
  <2>1. \A k \in 0..n : k \in S
    BY <1>5, <1>6, UpTo
  <2> QED BY <2>1
<1>8. Holds(f[3 * n], n) /\ f[3 * n] \in Seq(Byte)
  <2>1. 3 * n \in 0..(3 * n)
    OBVIOUS
  <2> QED BY <1>7, <2>1 DEF S
<1> QED BY <1>4, <1>8 DEF Long, payload, Tens, Units

\* A message is the same whether it is sent as bytes or as text.
THEOREM TextIsItsBytes ==
  ASSUME NEW n \in Nat \ {0}, NEW bytes, Long(bytes, Byte, n), NEW big \in BOOLEAN
  PROVE  Normalized(HexText(bytes, big)) = bytes
<1> DEFINE payload == HexText(bytes, big)
           text == Squeezed(payload)
<1>1. /\ Long(payload, Byte, 3 * n)
      /\ \A k \in 1..n : /\ payload[3 * k - 2] = DigitOf(bytes[k] \div 16, big)
                         /\ payload[3 * k - 1] = DigitOf(bytes[k] % 16, big)
                         /\ payload[3 * k] = 32
  BY TextHolds
<1>2. /\ Long(text, Byte, 2 * n)
      /\ \A k \in 1..n : /\ text[2 * k - 1] = DigitOf(bytes[k] \div 16, big)
                         /\ text[2 * k] = DigitOf(bytes[k] % 16, big)
  BY TextSqueezed
<1>3. bytes \in Seq(Byte) /\ Len(bytes) = n /\ \A k \in 1..n : bytes[k] \in Byte
  <2>1. bytes \in Seq(Byte) /\ Len(bytes) = n
    BY DEF Long
  <2> QED BY <2>1, ElementOfSeq
<1>4. ASSUME NEW k \in 1..n
      PROVE  /\ DigitOf(bytes[k] \div 16, big) \in HexDigit
             /\ DigitOf(bytes[k] % 16, big) \in HexDigit
             /\ 16 * Digit(DigitOf(bytes[k] \div 16, big)) + Digit(DigitOf(bytes[k] % 16, big))
                  = bytes[k]
  <2>1. PICK b \in 0..255 : b = bytes[k]
    BY <1>3 DEF Byte
  <2>2. b \div 16 \in 0..15 /\ b % 16 \in 0..15 /\ 16 * (b \div 16) + (b % 16) = b
    OBVIOUS
  <2>3. /\ DigitOf(b \div 16, big) \in HexDigit /\ Digit(DigitOf(b \div 16, big)) = b \div 16
        /\ DigitOf(b % 16, big) \in HexDigit /\ Digit(DigitOf(b % 16, big)) = b % 16
    BY <2>2, DigitsAre
  <2> QED BY <2>1, <2>2, <2>3
<1> HIDE DEF payload
<1>5. \A i \in 1..Len(payload) : payload[i] \in White \cup HexDigit
  <2>1. ASSUME NEW i \in 1..(3 * n)
        PROVE  \E k \in 1..n : i = 3 * k - 2 \/ i = 3 * k - 1 \/ i = 3 * k
    <3>1. (i + 2) \div 3 \in 1..n
      OBVIOUS
    <3>2. LET k == (i + 2) \div 3 IN i = 3 * k - 2 \/ i = 3 * k - 1 \/ i = 3 * k
      OBVIOUS
    <3> QED BY <3>1, <3>2
  <2>2. 32 \in White
    BY DEF White
  <2>3. Len(payload) = 3 * n
    BY <1>1 DEF Long
  <2>4. \A k \in 1..n : /\ payload[3 * k - 2] \in HexDigit /\ payload[3 * k - 1] \in HexDigit
                         /\ payload[3 * k] \in White
    BY <1>1, <1>4, <2>2, Zenon
  <2>5. \A i \in 1..(3 * n) : payload[i] \in White \cup HexDigit
    BY <2>1, <2>4
  <2> QED BY <2>3, <2>5
<1>6. text # <<>> /\ Len(text) % 2 = 0 /\ Len(text) \div 2 = n
  <2>1. text \in Seq(Byte) /\ Len(text) = 2 * n
    BY <1>2 DEF Long
  <2>2. (2 * n) % 2 = 0 /\ (2 * n) \div 2 = n
    OBVIOUS
  <2> HIDE DEF text
  <2> QED BY <2>1, <2>2
<1>7. IsHex(payload)
  BY <1>5, <1>6, Zenon DEF IsHex
<1>8. Normalized(payload) =
        [i \in 1..(Len(text) \div 2) |-> 16 * Digit(text[2*i - 1]) + Digit(text[2*i])]
  BY <1>7, Zenon DEF Normalized
<1> HIDE DEF text
<1>9. Normalized(payload) = [i \in 1..n |-> bytes[i]]
  BY <1>2, <1>4, <1>6, <1>8
<1> QED BY <1>3, <1>9 DEF payload

=============================================================================
