---------------------------- MODULE BridgeProofs ----------------------------
(***************************************************************************)
(* Theorems about SerialBridge, for every set of frames that meets         *)
(* ValidAssumption, every limit and every length of line.  What the loop   *)
(* of feed() drops is text in which no valid frame can begin any more,     *)
(* whatever follows: the line already differs from each valid frame laid   *)
(* there, at a byte that has arrived.                                      *)
(***************************************************************************)
EXTENDS SerialBridge, SequenceTheorems, WellFoundedInduction, TLAPS

-----------------------------------------------------------------------------
(* Texts and markers, byte by byte. *)

\* A set of numbers has a least member.
LEMMA LeastMember ==
  ASSUME NEW S \in SUBSET Nat, S # {}
  PROVE  \E i \in S : \A j \in S : i <= j
<1>1. PICK x \in S : \A y \in S : ~ (<<y, x>> \in OpToRel(<, Nat))
  BY NatLessThanWellFounded, WFMin
<1>2. \A y \in S : ~ (y < x)
  BY <1>1 DEF OpToRel
<1> QED BY <1>2

\* What From returns.
LEMMA FromProperties ==
  ASSUME NEW text \in Seq(Byte), NEW i \in 1..(Len(text) + 1)
  PROVE  /\ From(text, i) \in Seq(Byte)
         /\ Len(From(text, i)) = Len(text) - i + 1
         /\ \A k \in 1..(Len(text) - i + 1) : From(text, i)[k] = text[i + k - 1]
<1>1. Len(text) \in Nat /\ \A k \in i..Len(text) : text[k] \in Byte
  BY LenProperties, ElementOfSeq
<1> QED BY <1>1, SubSeqProperties DEF From

\* The first n bytes of a text.
LEMMA PrefixProperties ==
  ASSUME NEW text \in Seq(Byte), NEW n \in 1..Len(text)
  PROVE  /\ SubSeq(text, 1, n) \in Seq(Byte) /\ Len(SubSeq(text, 1, n)) = n
         /\ \A k \in 1..n : SubSeq(text, 1, n)[k] = text[k]
<1>1. Len(text) \in Nat /\ \A k \in 1..n : text[k] \in Byte
  BY LenProperties, ElementOfSeq
<1> QED BY <1>1, SubSeqProperties

\* A text stands in another where it agrees with it byte by byte.
LEMMA StandsPointwise ==
  ASSUME NEW text \in Seq(Byte), NEW f \in Seq(Byte),
         NEW j \in 1..Len(text), Len(f) <= j
  PROVE  SubSeq(text, j - Len(f) + 1, j) = f
           <=> \A k \in 1..Len(f) : text[j - Len(f) + k] = f[k]
<1> DEFINE s == SubSeq(text, j - Len(f) + 1, j)
<1>1. Len(text) \in Nat /\ Len(f) \in Nat /\ j - Len(f) + 1 \in Int /\ j \in Int
  BY LenProperties
<1>2. \A k \in (j - Len(f) + 1)..j : text[k] \in Byte
  BY <1>1, ElementOfSeq
<1>3. /\ s \in Seq(Byte)
      /\ Len(s) = Len(f)
      /\ \A k \in 1..Len(f) : s[k] = text[j - Len(f) + k]
  BY <1>1, <1>2, SubSeqProperties
<1>4. ASSUME s = f PROVE \A k \in 1..Len(f) : text[j - Len(f) + k] = f[k]
  BY <1>3, <1>4
<1>5. ASSUME \A k \in 1..Len(f) : text[j - Len(f) + k] = f[k] PROVE s = f
  <2>1. \A k \in 1..Len(s) : s[k] = f[k]
    BY <1>3, <1>5
  <2> HIDE DEF s
  <2> QED BY <1>3, <2>1, SeqEqual
<1> QED BY <1>4, <1>5

\* A marker stands where its two letters do.
LEMMA MarkerPointwise ==
  ASSUME NEW text \in Seq(Byte), NEW a \in Byte, NEW b \in Byte,
         NEW i \in 1..(Len(text) - 1)
  PROVE  SubSeq(text, i, i + 1) = <<a, b>> <=> text[i] = a /\ text[i + 1] = b
<1> DEFINE s == SubSeq(text, i, i + 1)
           m == <<a, b>>
<1>1. Len(text) \in Nat /\ \A k \in i..(i + 1) : text[k] \in Byte
  BY LenProperties, ElementOfSeq
<1>2. s \in Seq(Byte) /\ Len(s) = 2 /\ s[1] = text[i] /\ s[2] = text[i + 1]
  <2> DEFINE j == i + 1
  <2>1. i \in Int /\ j \in Int /\ i <= j /\ j - i + 1 = 2 /\ \A k \in i..j : text[k] \in Byte
    BY <1>1
  <2>2. 1 \in 1..2 /\ 2 \in 1..2 /\ i + 1 - 1 = i /\ i + 2 - 1 = j
    BY <1>1
  <2> HIDE DEF j
  <2>3. /\ SubSeq(text, i, j) \in Seq(Byte)
        /\ Len(SubSeq(text, i, j)) = IF i <= j THEN j - i + 1 ELSE 0
        /\ \A k \in 1..(j - i + 1) : SubSeq(text, i, j)[k] = text[i + k - 1]
    BY <2>1, SubSeqProperties
  <2>4. SubSeq(text, i, j)[1] = text[i + 1 - 1] /\ SubSeq(text, i, j)[2] = text[i + 2 - 1]
    BY <2>1, <2>2, <2>3
  <2>5. /\ SubSeq(text, i, j) \in Seq(Byte) /\ Len(SubSeq(text, i, j)) = 2
        /\ SubSeq(text, i, j)[1] = text[i] /\ SubSeq(text, i, j)[2] = text[j]
    BY <2>1, <2>2, <2>3, <2>4
  <2> QED BY <2>5 DEF j
<1>3. m \in Seq(Byte) /\ Len(m) = 2 /\ m[1] = a /\ m[2] = b
  OBVIOUS
<1> HIDE DEF s, m
<1>4. ASSUME text[i] = a, text[i + 1] = b PROVE s = m
  <2>1. \A k \in 1..Len(s) : s[k] = m[k]
    BY <1>2, <1>3, <1>4
  <2> QED BY <1>2, <1>3, <2>1, SeqEqual
<1>5. s = m <=> text[i] = a /\ text[i + 1] = b
  BY <1>2, <1>3, <1>4
<1> QED BY <1>5 DEF s, m

\* The two letters of a marker stand at i.
At(marker, text, i) == text[i] = marker[1] /\ text[i + 1] = marker[2]

\* What Find returns: the first place of the marker, or 0 for none.
LEMMA FindFirst ==
  ASSUME NEW text \in Seq(Byte), NEW marker \in {BG, ED}, NEW from \in Nat \ {0}
  PROVE  LET found == Find(marker, text, from) IN
         /\ \/ found = 0
            \/ found \in from..(Len(text) - 1) /\ At(marker, text, found)
         /\ \A i \in from..(Len(text) - 1) :
              At(marker, text, i) => found # 0 /\ found <= i
<1> DEFINE hits == {i \in from..(Len(text) - 1) : SubSeq(text, i, i + 1) = marker}
           found == Find(marker, text, from)
<1>1. Len(text) \in Nat
  BY LenProperties
<1>2. \A i \in from..(Len(text) - 1) :
        SubSeq(text, i, i + 1) = marker <=> At(marker, text, i)
  BY <1>1, MarkerPointwise DEF BG, ED, Byte, At
<1>3. CASE hits = {}
  BY <1>2, <1>3 DEF Find
<1>4. CASE hits # {}
  <2>1. hits \in SUBSET Nat
    BY <1>1
  <2>2. \E i \in hits : \A j \in hits : i <= j
    BY <1>4, <2>1, LeastMember
  <2>3. found = CHOOSE i \in hits : \A j \in hits : i <= j
    BY <1>4 DEF Find
  <2>4. found \in hits /\ \A j \in hits : found <= j
    BY <2>2, <2>3
  <2>5. found # 0
    BY <2>4
  <2> HIDE DEF found
  <2> QED BY <1>2, <2>4, <2>5 DEF found
<1> QED BY <1>3, <1>4

\* What a valid frame looks like.
LEMMA ValidFrame ==
  ASSUME NEW f \in Valid
  PROVE  /\ f \in Seq(Byte) /\ Len(f) \in 4..Limit
         /\ At(BG, f, 1) /\ At(ED, f, Len(f) - 1)
         /\ \A i \in 2..(Len(f) - 1) : ~At(BG, f, i)
         /\ \A i \in 3..(Len(f) - 2) : ~At(ED, f, i)
<1>1. /\ f \in Seq(Byte) /\ Len(f) >= 4 /\ Len(f) <= Limit
      /\ Find(BG, f, 1) = 1 /\ Find(BG, f, 2) = 0 /\ Find(ED, f, 3) = Len(f) - 1
  BY ValidAssumption
<1>2. Len(f) \in Nat /\ Limit \in Nat
  BY <1>1, LenProperties, BridgeBoundAssumption
<1>3. BG \in {BG, ED} /\ ED \in {BG, ED}
  OBVIOUS
<1>4. At(BG, f, 1)
  BY <1>1, <1>2, <1>3, FindFirst
<1>5. \A i \in 2..(Len(f) - 1) : ~At(BG, f, i)
  BY <1>1, <1>2, <1>3, FindFirst
<1>6. At(ED, f, Len(f) - 1) /\ \A i \in 3..(Len(f) - 2) : ~At(ED, f, i)
  <2> DEFINE found == Find(ED, f, 3)
  <2>1. /\ \/ found = 0
           \/ found \in 3..(Len(f) - 1) /\ At(ED, f, found)
        /\ \A i \in 3..(Len(f) - 1) : At(ED, f, i) => found # 0 /\ found <= i
    BY <1>1, <1>3, FindFirst
  <2>2. found = Len(f) - 1
    BY <1>1
  <2> HIDE DEF found
  <2> QED BY <1>1, <1>2, <2>1, <2>2
<1> QED BY <1>1, <1>2, <1>4, <1>5, <1>6

-----------------------------------------------------------------------------
(* What the loop may drop. *)

\* The text already differs from a frame laid at p.
Differs(text, f, p) ==
  \E k \in 1..Len(f) : p + k - 1 <= Len(text) /\ text[p + k - 1] # f[k]

\* No valid frame begins in the first n bytes of the text, whatever follows it.
Hopeless(text, n) == \A f \in Valid : \A p \in 1..n : Differs(text, f, p)

\* A valid frame begins with BG, and with nothing else.
LEMMA NoStartDiffers ==
  ASSUME NEW text \in Seq(Byte), NEW f \in Valid, NEW p \in 1..Len(text),
         \/ text[p] # "B"
         \/ p < Len(text) /\ ~At(BG, text, p)
  PROVE  Differs(text, f, p)
<1>1. Len(text) \in Nat /\ Len(f) \in 4..Limit /\ Limit \in Nat
  BY LenProperties, ValidFrame, BridgeBoundAssumption
<1>2. f[1] = "B" /\ f[2] = "G"
  BY ValidFrame DEF At, BG
<1>3. CASE text[p] # "B"
  BY <1>1, <1>2, <1>3 DEF Differs
<1>4. CASE p < Len(text) /\ text[p + 1] # "G"
  <2>1. 2 \in 1..Len(f) /\ p + 2 - 1 <= Len(text) /\ text[p + 2 - 1] # f[2]
    BY <1>1, <1>2, <1>4
  <2> QED BY <2>1 DEF Differs
<1> QED BY <1>3, <1>4 DEF At, BG

\* What SplitMarker returns: the end of the text, one byte of it at most.
LEMMA SplitMarkerProperties ==
  ASSUME NEW text \in Seq(Byte)
  PROVE  LET kept == SplitMarker(text)
             n == Len(text) - Len(kept) IN
         /\ kept \in {<<>>, <<"B">>} /\ kept \in Seq(Byte)
         /\ n \in 0..Len(text) /\ Len(kept) \in {0, 1} /\ n >= Len(text) - 1
         /\ \A k \in 1..Len(kept) : kept[k] = text[n + k]
         /\ n = Len(text) => text = <<>> \/ text[Len(text)] # "B"
<1>1. Len(text) \in Nat /\ (text # <<>> => Len(text) > 0)
  BY LenProperties, EmptySeq
<1>2. CASE text # <<>> /\ text[Len(text)] = "B"
  <2>1. SplitMarker(text) = <<"B">>
    BY <1>2 DEF SplitMarker
  <2>2. <<"B">> \in Seq(Byte) /\ Len(<<"B">>) = 1 /\ <<"B">>[1] = "B"
    BY DEF Byte
  <2> QED BY <1>1, <1>2, <2>1, <2>2
<1>3. CASE ~(text # <<>> /\ text[Len(text)] = "B")
  <2>1. SplitMarker(text) = <<>>
    BY <1>3 DEF SplitMarker
  <2> QED BY <1>1, <1>3, <2>1
<1> QED BY <1>2, <1>3

\* With no BG in it, all of the text but a split marker is noise.
LEMMA NoiseHopeless ==
  ASSUME NEW text \in Seq(Byte), Find(BG, text, 1) = 0
  PROVE  Hopeless(text, Len(text) - Len(SplitMarker(text)))
<1> SUFFICES ASSUME NEW f \in Valid,
                    NEW p \in 1..(Len(text) - Len(SplitMarker(text)))
             PROVE  Differs(text, f, p)
  BY DEF Hopeless
<1>1. Len(text) \in Nat
  BY LenProperties
<1>2. \A i \in 1..(Len(text) - 1) : ~At(BG, text, i)
  BY FindFirst
<1>3. p \in 1..Len(text) /\ (p = Len(text) => text[p] # "B")
  BY <1>1, SplitMarkerProperties
<1> QED BY <1>1, <1>2, <1>3, NoStartDiffers

\* So is what stands before the first BG, and what no frame begins in later.
LEMMA BegunHopeless ==
  ASSUME NEW text \in Seq(Byte), Find(BG, text, 1) > 0,
         NEW n \in Nat, Hopeless(From(text, Find(BG, text, 1)), n)
  PROVE  Hopeless(text, Find(BG, text, 1) - 1 + n)
<1> DEFINE start == Find(BG, text, 1)
           begun == From(text, start)
<1>1. /\ Len(text) \in Nat /\ start \in 1..(Len(text) - 1)
      /\ \A i \in 1..(Len(text) - 1) : At(BG, text, i) => start <= i
  BY LenProperties, FindFirst
<1>2. /\ Len(begun) = Len(text) - start + 1
      /\ \A k \in 1..Len(begun) : begun[k] = text[start + k - 1]
  <2>1. start \in 1..(Len(text) + 1)
    BY <1>1
  <2> HIDE DEF start
  <2>2. /\ Len(begun) = Len(text) - start + 1
        /\ \A k \in 1..(Len(text) - start + 1) : begun[k] = text[start + k - 1]
    BY <2>1, FromProperties
  <2> QED BY <2>2
<1> HIDE DEF start, begun
<1> SUFFICES ASSUME NEW f \in Valid, NEW p \in 1..(start - 1 + n)
             PROVE  Differs(text, f, p)
  BY DEF Hopeless, start
<1>3. CASE p < start
  BY <1>1, <1>3, NoStartDiffers
<1>4. CASE p >= start
  <2>1. Len(f) \in Nat
    BY ValidFrame, LenProperties
  <2>2. p - start + 1 \in 1..n
    BY <1>1, <1>4
  <2>3. PICK k \in 1..Len(f) : /\ p - start + 1 + k - 1 <= Len(begun)
                               /\ begun[p - start + 1 + k - 1] # f[k]
    BY <2>2 DEF Hopeless, Differs, begun, start
  <2>4. p + k - 1 <= Len(text) /\ text[p + k - 1] # f[k]
    BY <1>1, <1>2, <1>4, <2>1, <2>3
  <2> QED BY <2>4 DEF Differs
<1> QED BY <1>1, <1>3, <1>4

\* A valid frame has its first ED where it ends: with none before n, it is longer.
LEMMA NoEndDiffers ==
  ASSUME NEW text \in Seq(Byte), NEW f \in Valid, NEW n \in 1..Len(text),
         \A i \in 3..(n - 1) : ~At(ED, text, i), Len(f) <= n
  PROVE  Differs(text, f, 1)
<1>1. /\ Len(text) \in Nat /\ Len(f) \in 4..Limit /\ Limit \in Nat
      /\ f[Len(f) - 1] = "E" /\ f[Len(f)] = "D"
  BY LenProperties, ValidFrame, BridgeBoundAssumption DEF At, ED
<1>2. ~At(ED, text, Len(f) - 1)
  BY <1>1
<1>3. CASE text[Len(f) - 1] # "E"
  <2>1. Len(f) - 1 \in 1..Len(f) /\ 1 + (Len(f) - 1) - 1 = Len(f) - 1
    BY <1>1
  <2> QED BY <1>1, <1>3, <2>1 DEF Differs
<1>4. CASE text[Len(f)] # "D"
  <2>1. Len(f) \in 1..Len(f) /\ 1 + Len(f) - 1 = Len(f)
    BY <1>1
  <2> QED BY <1>1, <1>4, <2>1 DEF Differs
<1>5. Len(f) - 1 + 1 = Len(f)
  BY <1>1
<1> QED BY <1>2, <1>3, <1>4, <1>5 DEF At, ED

\* Two different bytes settle it.
LEMMA ByteDiffers ==
  ASSUME NEW text \in Seq(Byte), NEW f \in Valid, NEW i \in 1..Len(text),
         i <= Len(f), text[i] # f[i]
  PROVE  Differs(text, f, 1)
<1>1. i \in 1..Len(f) /\ 1 + i - 1 = i /\ i <= Len(text)
  BY LenProperties, ValidFrame
<1> QED BY <1>1 DEF Differs

\* A frame with a second BG before its ED is broken, and no other begins in it.
LEMMA BrokenHopeless ==
  ASSUME NEW text \in Seq(Byte), At(BG, text, 1), Len(text) >= 2,
         Find(BG, text, 3) > 0,
         Find(ED, text, 3) = 0 \/ Find(BG, text, 3) < Find(ED, text, 3)
  PROVE  Hopeless(text, Find(BG, text, 3) - 1)
<1> DEFINE next == Find(BG, text, 3)
           end == Find(ED, text, 3)
<1>1. /\ Len(text) \in Nat /\ next \in 3..(Len(text) - 1) /\ At(BG, text, next)
      /\ \A i \in 3..(next - 1) : ~At(BG, text, i)
  BY LenProperties, FindFirst
<1>2. \A i \in 3..next : i < Len(text) => ~At(ED, text, i)
  <2>1. \A i \in 3..(Len(text) - 1) : At(ED, text, i) => end # 0 /\ end <= i
    BY FindFirst
  <2>2. end = 0 \/ next < end
    OBVIOUS
  <2>3. end \in Int
    BY <1>1, FindFirst
  <2> HIDE DEF next, end
  <2> QED BY <1>1, <2>1, <2>2, <2>3
<1> HIDE DEF next, end
<1> SUFFICES ASSUME NEW f \in Valid, NEW p \in 1..(next - 1)
             PROVE  Differs(text, f, p)
  BY DEF Hopeless, next
<1>3. CASE p > 2
  BY <1>1, <1>3, NoStartDiffers
<1>4. CASE p = 2
  <2>1. text[2] # "B"
    BY DEF At, BG
  <2> QED BY <1>1, <1>4, <2>1, NoStartDiffers
<1>5. CASE p = 1
  <2>1. /\ Len(f) \in 4..Limit /\ Limit \in Nat
        /\ \A i \in 2..(Len(f) - 1) : ~At(BG, f, i)
    BY ValidFrame, BridgeBoundAssumption
  <2>2. CASE Len(f) <= next
    BY <1>1, <1>2, <1>5, <2>1, <2>2, NoEndDiffers
  <2>3. CASE Len(f) > next
    <3>1. ~At(BG, f, next) /\ next \in 1..Len(text) /\ next + 1 \in 1..Len(text)
      BY <1>1, <2>1, <2>3
    <3>2. text[next] # f[next] \/ text[next + 1] # f[next + 1]
      BY <1>1, <3>1 DEF At
    <3> QED BY <1>1, <1>5, <2>1, <2>3, <3>1, <3>2, ByteDiffers
  <2> QED BY <1>1, <2>1, <2>2, <2>3
<1> QED BY <1>1, <1>3, <1>4, <1>5

\* A text with no second marker that is longer than any valid frame begins none.
LEMMA OverlongHopeless ==
  ASSUME NEW text \in Seq(Byte), At(BG, text, 1),
         Find(BG, text, 3) = 0, Find(ED, text, 3) = 0, Len(text) > Limit
  PROVE  Hopeless(text, Len(text) - Len(SplitMarker(text)))
<1> SUFFICES ASSUME NEW f \in Valid,
                    NEW p \in 1..(Len(text) - Len(SplitMarker(text)))
             PROVE  Differs(text, f, p)
  BY DEF Hopeless
<1>1. /\ Len(text) \in Nat
      /\ \A i \in 3..(Len(text) - 1) : ~At(BG, text, i) /\ ~At(ED, text, i)
  BY LenProperties, FindFirst
<1>2. p \in 1..Len(text) /\ (p = Len(text) => text[p] # "B")
  BY <1>1, SplitMarkerProperties
<1>3. CASE p = 1
  <2>1. Len(f) \in 4..Limit /\ Limit \in Nat
    BY ValidFrame, BridgeBoundAssumption
  <2>2. Len(text) \in 1..Len(text) /\ Len(f) <= Len(text)
    BY <1>1, <2>1
  <2> QED BY <1>1, <1>3, <2>2, NoEndDiffers
<1>4. CASE p = 2
  <2>1. text[2] # "B"
    BY DEF At, BG
  <2> QED BY <1>2, <1>4, <2>1, NoStartDiffers
<1>5. CASE p > 2
  BY <1>1, <1>2, <1>5, NoStartDiffers
<1> QED BY <1>1, <1>2, <1>3, <1>4, <1>5

\* Where ED comes first, the text up to it is the only valid frame that may begin there.
LEMMA CutSettles ==
  ASSUME NEW text \in Seq(Byte), At(BG, text, 1), Len(text) >= 2,
         Find(ED, text, 3) > 0,
         Find(BG, text, 3) = 0 \/ Find(BG, text, 3) > Find(ED, text, 3),
         NEW f \in Valid, NEW p \in 1..(Find(ED, text, 3) + 1)
  PROVE  \/ Differs(text, f, p)
         \/ /\ p = 1 /\ Len(f) = Find(ED, text, 3) + 1
            /\ \A k \in 1..Len(f) : text[k] = f[k]
<1> DEFINE next == Find(BG, text, 3)
           end == Find(ED, text, 3)
<1>1. /\ Len(text) \in Nat /\ end \in 3..(Len(text) - 1) /\ At(ED, text, end)
      /\ \A i \in 3..(end - 1) : ~At(ED, text, i)
  <2>1. /\ \/ end = 0
           \/ end \in 3..(Len(text) - 1) /\ At(ED, text, end)
        /\ \A i \in 3..(Len(text) - 1) : At(ED, text, i) => end # 0 /\ end <= i
    BY FindFirst
  <2>2. end > 0 /\ Len(text) \in Nat
    BY LenProperties
  <2> HIDE DEF end
  <2> QED BY <2>1, <2>2
<1>2. \A i \in 3..(end - 1) : ~At(BG, text, i)
  <2>1. \A i \in 3..(Len(text) - 1) : At(BG, text, i) => next # 0 /\ next <= i
    BY FindFirst
  <2>2. next = 0 \/ next > end
    OBVIOUS
  <2>3. next \in Int
    BY <1>1, FindFirst
  <2> HIDE DEF next, end
  <2> QED BY <1>1, <2>1, <2>2, <2>3
<1>3. p \in 1..(end + 1)
  OBVIOUS
<1> HIDE DEF next, end
<1>4. CASE p > 2 /\ p < end
  BY <1>1, <1>2, <1>4, NoStartDiffers
<1>5. CASE p \in {2, end, end + 1}
  <2>1. text[2] # "B" /\ text[end] # "B" /\ text[end + 1] # "B"
    BY <1>1 DEF At, BG, ED
  <2> QED BY <1>1, <1>5, <2>1, NoStartDiffers
<1>6. CASE p = 1
  <2>1. /\ Len(f) \in 4..Limit /\ Limit \in Nat
        /\ \A i \in 3..(Len(f) - 2) : ~At(ED, f, i)
    BY ValidFrame, BridgeBoundAssumption
  <2>2. CASE Len(f) <= end
    BY <1>1, <1>6, <2>1, <2>2, NoEndDiffers
  <2>3. CASE Len(f) = end + 1
    BY <1>1, <1>6, <2>3, ByteDiffers DEF end
  <2>4. CASE Len(f) > end + 1
    <3>1. ~At(ED, f, end) /\ end \in 1..Len(text) /\ end + 1 \in 1..Len(text)
      BY <1>1, <2>1, <2>4
    <3>2. text[end] # f[end] \/ text[end + 1] # f[end + 1]
      BY <1>1, <3>1 DEF At
    <3> QED BY <1>1, <1>6, <2>1, <2>4, <3>1, <3>2, ByteDiffers
  <2> QED BY <1>1, <2>1, <2>2, <2>3, <2>4
<1> QED BY <1>1, <1>3, <1>4, <1>5, <1>6

-----------------------------------------------------------------------------
(* The inductive invariant. *)

\* The bytes of the line that have left the buffer.
Consumed == Len(line) - Len(buffer)

\* A text is the end of another.
EndOf(b, text) ==
  /\ Len(b) <= Len(text)
  /\ \A k \in 1..Len(b) : b[k] = text[Len(text) - Len(b) + k]

\* The frames of a sequence stand one after the other in the first n bytes of a text;
\* ends says where each of them ends.
Stand(text, seq, ends, n) ==
  /\ ends \in [1..Len(seq) -> 1..n]
  /\ \A i \in 1..Len(seq) :
       Len(seq[i]) <= ends[i]
         /\ \A k \in 1..Len(seq[i]) : text[ends[i] - Len(seq[i]) + k] = seq[i][k]
  /\ \A i, j \in 1..Len(seq) : i < j => ends[i] < ends[j]

\* No valid frame that begins in the first n bytes of a text is missing from a sequence,
\* whatever follows the text.
NoneMissing(text, seq, ends, n) ==
  \A f \in Valid : \A p \in 1..n :
    \/ Differs(text, f, p)
    \/ \E i \in 1..Len(seq) : ends[i] = p + Len(f) - 1 /\ seq[i] = f

Recorded(text, seq, n) ==
  \E ends : Stand(text, seq, ends, n) /\ NoneMissing(text, seq, ends, n)

IInv ==
  /\ TypeOK
  /\ cutting => port = "open"
  /\ BufferIsOneBeginning
  /\ EndOf(buffer, line)
  /\ Recorded(line, out, Consumed)

\* The end of the end of a text is an end of the text.
LEMMA EndOfTransitive ==
  ASSUME NEW a \in Seq(Byte), NEW b \in Seq(Byte), NEW text \in Seq(Byte),
         EndOf(a, b), EndOf(b, text)
  PROVE  EndOf(a, text)
<1>1. Len(a) \in Nat /\ Len(b) \in Nat /\ Len(text) \in Nat
  BY LenProperties
<1>2. Len(a) <= Len(text)
  BY <1>1 DEF EndOf
<1>3. ASSUME NEW k \in 1..Len(a) PROVE a[k] = text[Len(text) - Len(a) + k]
  <2> DEFINE j == Len(b) - Len(a) + k
  <2>1. j \in 1..Len(b) /\ a[k] = b[j]
    BY <1>1, <1>3 DEF EndOf
  <2>2. Len(text) - Len(b) + j = Len(text) - Len(a) + k
    BY <1>1
  <2> HIDE DEF j
  <2>3. b[j] = text[Len(text) - Len(b) + j]
    BY <2>1 DEF EndOf
  <2> QED BY <2>1, <2>2, <2>3
<1> QED BY <1>2, <1>3 DEF EndOf

LEMMA FromIsEnd ==
  ASSUME NEW text \in Seq(Byte), NEW i \in 1..(Len(text) + 1)
  PROVE  EndOf(From(text, i), text)
<1> DEFINE b == From(text, i)
<1>1. /\ Len(text) \in Nat /\ Len(b) = Len(text) - i + 1
      /\ \A k \in 1..(Len(text) - i + 1) : b[k] = text[i + k - 1]
  BY FromProperties, LenProperties
<1> HIDE DEF b
<1>2. \A k \in 1..Len(b) : b[k] = text[Len(text) - Len(b) + k]
  BY <1>1
<1>3. EndOf(b, text)
  BY <1>1, <1>2 DEF EndOf
<1> QED BY <1>3 DEF b

LEMMA SplitMarkerIsEnd ==
  ASSUME NEW text \in Seq(Byte)
  PROVE  EndOf(SplitMarker(text), text)
<1> DEFINE kept == SplitMarker(text)
<1>1. /\ Len(text) - Len(kept) \in 0..Len(text) /\ Len(kept) \in {0, 1}
      /\ \A k \in 1..Len(kept) : kept[k] = text[Len(text) - Len(kept) + k]
  BY SplitMarkerProperties
<1> HIDE DEF kept
<1>2. EndOf(kept, text)
  BY <1>1, LenProperties DEF EndOf
<1> QED BY <1>2 DEF kept

\* What arrives later spoils nothing.
LEMMA RecordedGrows ==
  ASSUME NEW text \in Seq(Byte), NEW rest \in Seq(Byte), NEW seq \in Seq(Seq(Byte)),
         NEW n \in 0..Len(text), Recorded(text, seq, n)
  PROVE  Recorded(text \o rest, seq, n)
<1> DEFINE longer == text \o rest
<1>1. /\ Len(text) \in Nat /\ Len(rest) \in Nat
      /\ Len(longer) = Len(text) + Len(rest)
      /\ \A k \in 1..Len(text) : longer[k] = text[k]
  BY ConcatProperties, LenProperties
<1> HIDE DEF longer
<1>2. PICK ends : Stand(text, seq, ends, n) /\ NoneMissing(text, seq, ends, n)
  BY DEF Recorded
<1>3. Stand(longer, seq, ends, n)
  <2>1. ASSUME NEW i \in 1..Len(seq), NEW k \in 1..Len(seq[i])
        PROVE  longer[ends[i] - Len(seq[i]) + k] = seq[i][k]
    <3>1. seq[i] \in Seq(Byte) /\ Len(seq[i]) \in Nat
      BY ElementOfSeq, LenProperties
    <3>2. /\ ends[i] \in 1..n /\ Len(seq[i]) <= ends[i]
          /\ text[ends[i] - Len(seq[i]) + k] = seq[i][k]
      BY <1>2 DEF Stand
    <3>3. ends[i] - Len(seq[i]) + k \in 1..Len(text)
      BY <1>1, <3>1, <3>2
    <3> QED BY <1>1, <3>2, <3>3
  <2> QED BY <1>2, <2>1 DEF Stand
<1>4. NoneMissing(longer, seq, ends, n)
  <2>1. ASSUME NEW f \in Valid, NEW p \in 1..n, Differs(text, f, p)
        PROVE  Differs(longer, f, p)
    <3>1. Len(f) \in Nat
      BY ValidFrame, LenProperties
    <3>2. PICK k \in 1..Len(f) : p + k - 1 <= Len(text) /\ text[p + k - 1] # f[k]
      BY <2>1 DEF Differs
    <3>3. p + k - 1 \in 1..Len(text) /\ p + k - 1 <= Len(longer)
      BY <1>1, <3>1, <3>2
    <3> QED BY <1>1, <3>2, <3>3 DEF Differs
  <2> QED BY <1>2, <2>1 DEF NoneMissing
<1> QED BY <1>3, <1>4 DEF Recorded, longer

\* A place of the end of a text, seen from the text.
LEMMA EndDiffers ==
  ASSUME NEW text \in Seq(Byte), NEW b \in Seq(Byte), EndOf(b, text),
         NEW f \in Valid, NEW p \in 1..Len(b), Differs(b, f, p)
  PROVE  Differs(text, f, Len(text) - Len(b) + p)
<1>1. Len(text) \in Nat /\ Len(b) \in Nat /\ Len(f) \in Nat
  BY ValidFrame, LenProperties
<1>2. PICK k \in 1..Len(f) : p + k - 1 <= Len(b) /\ b[p + k - 1] # f[k]
  BY DEF Differs
<1>3. p + k - 1 \in 1..Len(b)
  BY <1>1, <1>2
<1>4. b[p + k - 1] = text[Len(text) - Len(b) + (p + k - 1)]
  BY <1>3 DEF EndOf
<1>5. Len(text) - Len(b) + (p + k - 1) = Len(text) - Len(b) + p + k - 1
  BY <1>1, <1>2
<1>6. Len(text) - Len(b) + p + k - 1 <= Len(text)
  BY <1>1, <1>2
<1> QED BY <1>2, <1>4, <1>5, <1>6 DEF Differs

\* Text in which no frame can begin may be passed over.
LEMMA RecordedPasses ==
  ASSUME NEW text \in Seq(Byte), NEW b \in Seq(Byte), EndOf(b, text),
         NEW seq, Recorded(text, seq, Len(text) - Len(b)),
         NEW n \in 0..Len(b), Hopeless(b, n)
  PROVE  Recorded(text, seq, Len(text) - Len(b) + n)
<1> DEFINE c == Len(text) - Len(b)
<1>1. Len(text) \in Nat /\ Len(b) \in Nat /\ c \in Nat
  BY LenProperties DEF EndOf
<1>2. PICK ends : Stand(text, seq, ends, c) /\ NoneMissing(text, seq, ends, c)
  BY DEF Recorded
<1>3. ASSUME NEW f \in Valid, NEW p \in 1..n PROVE Differs(text, f, c + p)
  <2>1. p \in 1..Len(b) /\ Differs(b, f, p)
    BY <1>1 DEF Hopeless
  <2> QED BY <2>1, EndDiffers
<1> HIDE DEF c
<1>4. Stand(text, seq, ends, c + n)
  <2>1. 1..c \subseteq 1..(c + n)
    BY <1>1
  <2> QED BY <1>2, <2>1 DEF Stand
<1>5. NoneMissing(text, seq, ends, c + n)
  <2>1. ASSUME NEW f \in Valid, NEW p \in 1..(c + n), p > c PROVE Differs(text, f, p)
    <3>1. p - c \in 1..n /\ c + (p - c) = p
      BY <1>1, <2>1
    <3>2. Differs(text, f, c + (p - c))
      BY <1>3, <3>1
    <3> QED BY <3>1, <3>2
  <2>2. \A p \in 1..(c + n) : p \in 1..c \/ p > c
    BY <1>1
  <2> QED BY <1>2, <2>1, <2>2 DEF NoneMissing
<1> QED BY <1>4, <1>5 DEF Recorded, c

\* A frame that is cut is recorded where it ends.
LEMMA RecordedCut ==
  ASSUME NEW text \in Seq(Byte), NEW b \in Seq(Byte), EndOf(b, text),
         NEW seq \in Seq(Seq(Byte)), Recorded(text, seq, Len(text) - Len(b)),
         NEW frame \in Seq(Byte), Len(frame) \in 1..Len(b),
         \A k \in 1..Len(frame) : frame[k] = b[k],
         \A f \in Valid : \A p \in 1..Len(frame) :
           Differs(b, f, p) \/ (p = 1 /\ f = frame)
  PROVE  Recorded(text, Append(seq, frame), Len(text) - Len(b) + Len(frame))
<1> DEFINE c == Len(text) - Len(b)
           n == Len(frame)
           more == Append(seq, frame)
           len == Len(seq)
<1>1. /\ Len(text) \in Nat /\ Len(b) \in Nat /\ c \in Nat /\ n \in Nat \ {0}
      /\ c + Len(b) = Len(text)
  BY LenProperties DEF EndOf
<1>2. /\ len \in Nat /\ Len(more) = len + 1
      /\ \A i \in 1..len : more[i] = seq[i]
      /\ more[len + 1] = frame
  BY LenProperties, AppendProperties
<1>3. PICK ends : Stand(text, seq, ends, c) /\ NoneMissing(text, seq, ends, c)
  BY DEF Recorded
<1> DEFINE ends2 == [i \in 1..(len + 1) |-> IF i <= len THEN ends[i] ELSE c + n]
<1>4. \A k \in 1..n : frame[k] = text[c + k]
  BY <1>1 DEF EndOf
<1>5. \A f \in Valid : \A p \in 1..n : Differs(text, f, c + p) \/ (p = 1 /\ f = frame)
  BY <1>1, EndDiffers
<1>6. ends \in [1..len -> 1..c]
  BY <1>3 DEF Stand
<1> HIDE DEF c, n, more, len
<1>7. /\ ends2 \in [1..(len + 1) -> 1..(c + n)]
      /\ \A i \in 1..len : ends2[i] = ends[i] /\ ends2[i] \in 1..c
      /\ ends2[len + 1] = c + n
  BY <1>1, <1>2, <1>6
<1> HIDE DEF ends2
<1>8. \A i \in 1..(len + 1) : i \in 1..len \/ i = len + 1
  BY <1>2
<1>9. Stand(text, more, ends2, c + n)
  <2>1. ASSUME NEW i \in 1..(len + 1)
        PROVE  /\ Len(more[i]) <= ends2[i]
               /\ \A k \in 1..Len(more[i]) :
                    text[ends2[i] - Len(more[i]) + k] = more[i][k]
    <3>1. CASE i \in 1..len
      BY <1>2, <1>3, <1>7, <3>1 DEF Stand, len
    <3>2. CASE i = len + 1
      <4>1. \A k \in 1..n : c + n - n + k = c + k
        BY <1>1
      <4> QED BY <1>1, <1>2, <1>4, <1>7, <3>2, <4>1 DEF n
    <3> QED BY <1>8, <3>1, <3>2
  <2>2. ASSUME NEW i \in 1..(len + 1), NEW j \in 1..(len + 1), i < j
        PROVE  ends2[i] < ends2[j]
    <3>1. i \in 1..len
      BY <1>2, <2>2
    <3>2. CASE j \in 1..len
      BY <1>3, <1>7, <2>2, <3>1, <3>2 DEF Stand, len
    <3>3. CASE j = len + 1
      BY <1>1, <1>7, <3>1, <3>3
    <3> QED BY <1>8, <3>2, <3>3
  <2> QED BY <1>2, <1>7, <2>1, <2>2 DEF Stand
<1>10. NoneMissing(text, more, ends2, c + n)
  <2> SUFFICES ASSUME NEW f \in Valid, NEW p \in 1..(c + n), ~Differs(text, f, p)
               PROVE  \E i \in 1..(len + 1) : ends2[i] = p + Len(f) - 1 /\ more[i] = f
    BY <1>2 DEF NoneMissing
  <2>1. CASE p \in 1..c
    <3>1. PICK i \in 1..len : ends[i] = p + Len(f) - 1 /\ seq[i] = f
      BY <1>3, <2>1 DEF NoneMissing, len
    <3>2. i \in 1..(len + 1)
      BY <1>2
    <3> QED BY <1>2, <1>7, <3>1, <3>2
  <2>2. CASE p > c
    <3>1. p - c \in 1..n /\ c + (p - c) = p
      BY <1>1, <2>2
    <3>2. p - c = 1 /\ f = frame
      BY <1>5, <3>1
    <3>3. c + n = p + Len(f) - 1 /\ len + 1 \in 1..(len + 1)
      BY <1>1, <1>2, <3>1, <3>2 DEF n
    <3> QED BY <1>2, <1>7, <3>2, <3>3
  <2> QED BY <1>1, <2>1, <2>2
<1> QED BY <1>9, <1>10 DEF Recorded, c, n, more

\* A frame that is not valid may be dropped from the record.
LEMMA RecordedDrops ==
  ASSUME NEW text, NEW seq \in Seq(Seq(Byte)), NEW less \in Seq(Seq(Byte)),
         NEW n \in Nat, Recorded(text, seq, n),
         NEW m \in 1..Len(seq), seq[m] \notin Valid,
         Len(less) = Len(seq) - 1,
         \A i \in 1..Len(less) : less[i] = IF i < m THEN seq[i] ELSE seq[i + 1]
  PROVE  Recorded(text, less, n)
<1> DEFINE len == Len(seq)
<1>1. len \in Nat /\ Len(less) = len - 1 /\ m \in 1..len
  BY LenProperties
<1>2. PICK ends : Stand(text, seq, ends, n) /\ NoneMissing(text, seq, ends, n)
  BY DEF Recorded
<1> DEFINE Old(i) == IF i < m THEN i ELSE i + 1
           ends2 == [i \in 1..Len(less) |-> ends[Old(i)]]
<1>3. \A i \in 1..Len(less) :
        Old(i) \in 1..len /\ less[i] = seq[Old(i)] /\ ends2[i] = ends[Old(i)]
  BY <1>1
<1>4. \A i, j \in 1..Len(less) : i < j => Old(i) < Old(j)
  BY <1>1
<1>5. ASSUME NEW i \in 1..len, i # m
      PROVE  \E j \in 1..Len(less) : Old(j) = i
  <2>1. CASE i < m
    <3>1. i \in 1..Len(less) /\ Old(i) = i
      BY <1>1, <2>1
    <3> QED BY <3>1
  <2>2. CASE i > m
    <3>1. i - 1 \in 1..Len(less) /\ Old(i - 1) = i
      BY <1>1, <2>2
    <3> QED BY <3>1
  <2> QED BY <1>1, <1>5, <2>1, <2>2
<1>6. ends2 \in [1..Len(less) -> 1..n]
  BY <1>2, <1>3 DEF Stand
<1> HIDE DEF len, ends2, Old
<1>7. Stand(text, less, ends2, n)
  <2>1. ASSUME NEW i \in 1..Len(less)
        PROVE  /\ Len(less[i]) <= ends2[i]
               /\ \A k \in 1..Len(less[i]) :
                    text[ends2[i] - Len(less[i]) + k] = less[i][k]
    <3>1. Old(i) \in 1..Len(seq) /\ less[i] = seq[Old(i)] /\ ends2[i] = ends[Old(i)]
      BY <1>3 DEF len
    <3> QED BY <1>2, <3>1 DEF Stand
  <2>2. ASSUME NEW i \in 1..Len(less), NEW j \in 1..Len(less), i < j
        PROVE  ends2[i] < ends2[j]
    <3>1. Old(i) \in 1..Len(seq) /\ Old(j) \in 1..Len(seq) /\ Old(i) < Old(j)
      BY <1>3, <1>4, <2>2 DEF len
    <3>2. ends[Old(i)] < ends[Old(j)]
      BY <1>2, <3>1 DEF Stand
    <3> QED BY <1>3, <3>2
  <2> QED BY <1>6, <2>1, <2>2 DEF Stand
<1>8. NoneMissing(text, less, ends2, n)
  <2> SUFFICES ASSUME NEW f \in Valid, NEW p \in 1..n, ~Differs(text, f, p)
               PROVE  \E j \in 1..Len(less) : ends2[j] = p + Len(f) - 1 /\ less[j] = f
    BY DEF NoneMissing
  <2>1. PICK i \in 1..len : ends[i] = p + Len(f) - 1 /\ seq[i] = f
    BY <1>2 DEF NoneMissing, len
  <2>2. PICK j \in 1..Len(less) : Old(j) = i
    BY <1>5, <2>1
  <2> QED BY <1>3, <2>1, <2>2
<1> QED BY <1>7, <1>8 DEF Recorded

-----------------------------------------------------------------------------
(* The steps. *)

LEMMA BridgeInit == Init => IInv
<1> SUFFICES ASSUME Init PROVE IInv
  OBVIOUS
<1> DEFINE none == [i \in 1..0 |-> 0]
<1>1. TypeOK /\ BufferIsOneBeginning
  <2>1. <<>> \in Seq(Byte) /\ <<>> \in Seq(Seq(Byte)) /\ <<>> \in Seq(Valid)
    BY EmptySeq
  <2> QED BY <2>1 DEF Init, TypeOK, BufferIsOneBeginning
<1>5. cutting => port = "open"
  BY DEF Init
<1>2. /\ line = <<>> /\ buffer = <<>> /\ out = <<>> /\ Consumed = 0
      /\ Len(<<>>) = 0
  BY DEF Init, out, Consumed
<1>3. EndOf(buffer, line)
  BY <1>2 DEF EndOf
<1>4. Stand(<<>>, <<>>, none, 0) /\ NoneMissing(<<>>, <<>>, none, 0)
  BY <1>2 DEF Stand, NoneMissing
<1> QED BY <1>1, <1>2, <1>3, <1>4, <1>5 DEF IInv, Recorded

\* The types of what the proofs speak of.
LEMMA BridgeTypes ==
  ASSUME IInv
  PROVE  /\ line \in Seq(Byte) /\ buffer \in Seq(Byte)
         /\ out \in Seq(Seq(Byte)) /\ Len(out) = Len(published) + Len(frames)
         /\ published \in Seq(Seq(Byte)) /\ frames \in Seq(Seq(Byte))
         /\ Consumed \in 0..Len(line) /\ Consumed + Len(buffer) = Len(line)
         /\ Len(line) \in Nat /\ Len(buffer) \in Nat
<1>1. /\ line \in Seq(Byte) /\ buffer \in Seq(Byte)
      /\ published \in Seq(Valid) /\ frames \in Seq(Seq(Byte))
  BY DEF IInv, TypeOK
<1>2. published \in Seq(Seq(Byte))
  BY <1>1, ValidAssumption, SeqMonotonic
<1>3. out \in Seq(Seq(Byte)) /\ Len(out) = Len(published) + Len(frames)
  BY <1>1, <1>2, ConcatProperties DEF out
<1>4. Len(line) \in Nat /\ Len(buffer) \in Nat /\ Len(buffer) <= Len(line)
  BY <1>1, LenProperties DEF IInv, EndOf
<1> QED BY <1>1, <1>2, <1>3, <1>4 DEF Consumed

\* What is left once the noise is dropped.
LEMMA BegunProperties ==
  ASSUME buffer \in Seq(Byte), Find(BG, buffer, 1) > 0
  PROVE  /\ Begun \in Seq(Byte) /\ EndOf(Begun, buffer)
         /\ Find(BG, buffer, 1) \in 1..(Len(buffer) - 1) /\ Len(buffer) \in Nat
         /\ Len(Begun) = Len(buffer) - Find(BG, buffer, 1) + 1
         /\ At(BG, Begun, 1)
         /\ Len(Begun) >= 2 /\ Len(Begun) \in Nat
<1> DEFINE start == Find(BG, buffer, 1)
<1>1. start \in 1..(Len(buffer) - 1) /\ At(BG, buffer, start) /\ Len(buffer) \in Nat
  BY FindFirst, LenProperties
<1>2. Begun = From(buffer, start)
  BY DEF Begun
<1> HIDE DEF start
<1>3. /\ Begun \in Seq(Byte) /\ Len(Begun) = Len(buffer) - start + 1
      /\ \A k \in 1..(Len(buffer) - start + 1) : Begun[k] = buffer[start + k - 1]
      /\ EndOf(Begun, buffer)
  <2>1. start \in 1..(Len(buffer) + 1)
    BY <1>1
  <2> QED BY <1>2, <2>1, FromProperties, FromIsEnd
<1>4. Begun[1] = buffer[start] /\ Begun[2] = buffer[start + 1]
  <2>1. start + 1 - 1 = start /\ start + 2 - 1 = start + 1
    BY <1>1
  <2>2. 1 \in 1..(Len(buffer) - start + 1) /\ 2 \in 1..(Len(buffer) - start + 1)
    BY <1>1
  <2>3. Begun[1] = buffer[start + 1 - 1] /\ Begun[2] = buffer[start + 2 - 1]
    BY <1>3, <2>2
  <2> QED BY <2>1, <2>3
<1>5. At(BG, Begun, 1)
  BY <1>1, <1>4 DEF At, BG
<1> QED BY <1>1, <1>3, <1>5 DEF start

\* Noise, and what is hopeless after it, may leave the buffer.
LEMMA DropStep ==
  ASSUME IInv, NEW kept \in Seq(Byte), EndOf(kept, buffer),
         Hopeless(buffer, Len(buffer) - Len(kept)),
         buffer' = kept, UNCHANGED <<line, frames, published>>
  PROVE  EndOf(buffer, line)' /\ Recorded(line, out, Consumed)'
<1>1. EndOf(kept, line)
  BY BridgeTypes, EndOfTransitive DEF IInv
<1>2. Len(buffer) - Len(kept) \in 0..Len(buffer)
  BY LenProperties DEF EndOf
<1>3. Recorded(line, out, Len(line) - Len(buffer))
  BY DEF IInv, Consumed
<1>4. Recorded(line, out, Len(line) - Len(buffer) + (Len(buffer) - Len(kept)))
  BY <1>2, <1>3, BridgeTypes, RecordedPasses DEF IInv
<1>5. Len(line) - Len(buffer) + (Len(buffer) - Len(kept)) = Len(line) - Len(kept)
  BY BridgeTypes, LenProperties
<1>6. Recorded(line, out, Len(line) - Len(kept))
  BY <1>4, <1>5
<1> QED BY <1>1, <1>6 DEF out, Consumed

\* Nothing is recorded or dropped by a step that touches neither line nor buffer.
LEMMA RecordFrame ==
  ASSUME IInv, UNCHANGED <<line, buffer, out>>
  PROVE  EndOf(buffer, line)' /\ Recorded(line, out, Consumed)'
BY DEF IInv, Consumed

LEMMA ReadStep ==
  ASSUME IInv, NEW chunk \in Chunk, Read(chunk)
  PROVE  IInv'
<1>1. chunk \in Seq(Byte)
  <2>1. PICK n \in 0..MaxChunk : chunk \in [1..n -> Byte]
    BY DEF Chunk
  <2>2. n \in Nat
    BY <2>1, BridgeBoundAssumption
  <2> QED BY <2>1, <2>2, SeqDef
<1>2. /\ line' = line \o chunk /\ buffer' = buffer \o chunk /\ cutting' = TRUE
      /\ UNCHANGED <<port, frames, published>> /\ port = "open"
  BY DEF Read
<1>3. /\ line' \in Seq(Byte) /\ Len(line') = Len(line) + Len(chunk)
      /\ \A i \in 1..(Len(line) + Len(chunk)) :
           line'[i] = IF i <= Len(line) THEN line[i] ELSE chunk[i - Len(line)]
  BY <1>1, <1>2, BridgeTypes, ConcatProperties
<1>4. /\ buffer' \in Seq(Byte) /\ Len(buffer') = Len(buffer) + Len(chunk)
      /\ \A i \in 1..(Len(buffer) + Len(chunk)) :
           buffer'[i] = IF i <= Len(buffer) THEN buffer[i] ELSE chunk[i - Len(buffer)]
  BY <1>1, <1>2, BridgeTypes, ConcatProperties
<1>5. Len(chunk) \in Nat
  BY <1>1, LenProperties
<1>6. TypeOK' /\ BufferIsOneBeginning'
  BY <1>2, <1>3, <1>4 DEF IInv, TypeOK, BufferIsOneBeginning
<1>7. Consumed' = Consumed
  BY <1>3, <1>4, <1>5, BridgeTypes DEF Consumed
<1>8. EndOf(buffer, line)'
  <2>1. Len(buffer') <= Len(line')
    BY <1>3, <1>4, <1>5, BridgeTypes
  <2>2. ASSUME NEW k \in 1..Len(buffer')
        PROVE  buffer'[k] = line'[Len(line') - Len(buffer') + k]
    <3>1. Len(line') - Len(buffer') = Len(line) - Len(buffer)
      BY <1>3, <1>4, <1>5, BridgeTypes
    <3>2. CASE k <= Len(buffer)
      <4>1. k \in 1..Len(buffer) /\ Len(line) - Len(buffer) + k \in 1..Len(line)
        BY <3>2, BridgeTypes DEF Consumed
      <4>2. buffer'[k] = buffer[k] /\ buffer[k] = line[Len(line) - Len(buffer) + k]
        BY <1>4, <1>5, <4>1, BridgeTypes DEF IInv, EndOf
      <4>3. line'[Len(line) - Len(buffer) + k] = line[Len(line) - Len(buffer) + k]
        BY <1>3, <1>5, <4>1, BridgeTypes
      <4> QED BY <3>1, <4>2, <4>3
    <3>3. CASE k > Len(buffer)
      <4> DEFINE j == Len(line) - Len(buffer) + k
      <4>1. /\ j \in 1..(Len(line) + Len(chunk)) /\ ~(j <= Len(line))
            /\ j - Len(line) = k - Len(buffer)
            /\ k \in 1..(Len(buffer) + Len(chunk))
        BY <1>4, <1>5, <3>3, BridgeTypes DEF Consumed
      <4> HIDE DEF j
      <4>2. line'[j] = chunk[j - Len(line)]
        BY <1>3, <4>1
      <4>3. buffer'[k] = chunk[k - Len(buffer)]
        BY <1>4, <3>3, <4>1, BridgeTypes
      <4>4. buffer'[k] = line'[j]
        BY <4>1, <4>2, <4>3
      <4> QED BY <3>1, <4>4 DEF j
    <3> QED BY <1>4, <1>5, <3>2, <3>3, BridgeTypes
  <2> QED BY <2>1, <2>2 DEF EndOf
<1>9. Recorded(line, out, Consumed)'
  <2>1. Recorded(line \o chunk, out, Consumed)
    BY <1>1, BridgeTypes, RecordedGrows DEF IInv
  <2>2. out' = out
    BY <1>2 DEF out
  <2> QED BY <1>2, <1>7, <2>1, <2>2
<1> QED BY <1>2, <1>6, <1>8, <1>9 DEF IInv

LEMMA NoStartStep ==
  ASSUME IInv, NoStart
  PROVE  IInv'
<1> DEFINE kept == SplitMarker(buffer)
<1>1. /\ buffer' = kept /\ cutting' = FALSE /\ Find(BG, buffer, 1) = 0
      /\ UNCHANGED <<port, line, frames, published>>
  BY DEF NoStart
<1>2. /\ kept \in {<<>>, <<"B">>} /\ kept \in Seq(Byte) /\ EndOf(kept, buffer)
      /\ Hopeless(buffer, Len(buffer) - Len(kept))
  BY <1>1, BridgeTypes, SplitMarkerProperties, SplitMarkerIsEnd, NoiseHopeless
<1> HIDE DEF kept
<1>3. EndOf(buffer, line)' /\ Recorded(line, out, Consumed)'
  BY <1>1, <1>2, DropStep
<1> QED BY <1>1, <1>2, <1>3 DEF IInv, TypeOK, BufferIsOneBeginning

LEMMA ResyncStep ==
  ASSUME IInv, Resync
  PROVE  IInv'
<1> DEFINE start == Find(BG, buffer, 1)
           next == NextStart
           kept == From(Begun, next)
<1>1. /\ buffer' = kept /\ cutting /\ start > 0 /\ next > 0
      /\ End = 0 \/ next < End
      /\ UNCHANGED <<port, cutting, line, frames, published>>
  BY DEF Resync
<1>2. /\ Begun \in Seq(Byte) /\ EndOf(Begun, buffer) /\ At(BG, Begun, 1)
      /\ Len(Begun) >= 2 /\ Len(Begun) \in Nat /\ Len(buffer) \in Nat
      /\ start \in 1..(Len(buffer) - 1) /\ Len(Begun) = Len(buffer) - start + 1
  BY <1>1, BridgeTypes, BegunProperties
<1>3. next \in 3..(Len(Begun) - 1)
  BY <1>1, <1>2, FindFirst DEF NextStart
<1>4. Hopeless(Begun, next - 1)
  BY <1>1, <1>2, BrokenHopeless DEF NextStart, End
<1>5. /\ kept \in Seq(Byte) /\ EndOf(kept, Begun) /\ Len(kept) = Len(Begun) - next + 1
  <2>1. next \in 1..(Len(Begun) + 1)
    BY <1>2, <1>3
  <2> HIDE DEF next
  <2> QED BY <1>2, <2>1, FromProperties, FromIsEnd
<1>6. EndOf(kept, buffer)
  BY <1>2, <1>5, BridgeTypes, EndOfTransitive
<1>7. Hopeless(buffer, start - 1 + (next - 1))
  <2>1. next - 1 \in Nat
    BY <1>2, <1>3
  <2> QED BY <1>1, <1>4, <2>1, BridgeTypes, BegunHopeless DEF Begun
<1> HIDE DEF start, next, kept
<1>8. start - 1 + (next - 1) = Len(buffer) - Len(kept)
  BY <1>2, <1>3, <1>5
<1>9. EndOf(buffer, line)' /\ Recorded(line, out, Consumed)'
  BY <1>1, <1>5, <1>6, <1>7, <1>8, DropStep
<1> QED BY <1>1, <1>5, <1>9 DEF IInv, TypeOK, BufferIsOneBeginning

LEMMA NoEndStep ==
  ASSUME IInv, NoEnd
  PROVE  IInv'
<1> DEFINE start == Find(BG, buffer, 1)
<1>1. /\ cutting' = FALSE /\ start > 0 /\ NextStart = 0 /\ End = 0
      /\ UNCHANGED <<port, line, frames, published>>
      /\ buffer' = IF Len(Begun) > Limit THEN SplitMarker(Begun) ELSE Begun
  BY DEF NoEnd
<1>2. /\ Begun \in Seq(Byte) /\ EndOf(Begun, buffer) /\ At(BG, Begun, 1)
      /\ Len(Begun) >= 2 /\ Len(Begun) \in Nat /\ Len(buffer) \in Nat
      /\ start \in 1..(Len(buffer) - 1) /\ Len(Begun) = Len(buffer) - start + 1
  BY <1>1, BridgeTypes, BegunProperties
<1>3. CASE Len(Begun) > Limit
  <2> DEFINE kept == SplitMarker(Begun)
             n == Len(Begun) - Len(kept)
  <2>1. /\ kept \in {<<>>, <<"B">>} /\ kept \in Seq(Byte) /\ EndOf(kept, Begun)
        /\ n \in 0..Len(Begun) /\ Len(kept) \in {0, 1}
    BY <1>2, SplitMarkerProperties, SplitMarkerIsEnd
  <2>2. Hopeless(Begun, n)
    BY <1>1, <1>2, <1>3, OverlongHopeless DEF NextStart, End
  <2>3. n \in Nat
    BY <1>2, <2>1
  <2>4. Hopeless(buffer, start - 1 + n)
    BY <1>1, <2>2, <2>3, BridgeTypes, BegunHopeless DEF Begun
  <2>5. EndOf(kept, buffer)
    BY <1>2, <2>1, BridgeTypes, EndOfTransitive
  <2> HIDE DEF kept
  <2>6. start - 1 + n = Len(buffer) - Len(kept)
    BY <1>2, <2>1
  <2>7. buffer' = kept
    BY <1>1, <1>3 DEF kept
  <2>8. Hopeless(buffer, Len(buffer) - Len(kept))
    BY <2>4, <2>6
  <2>9. EndOf(buffer, line)' /\ Recorded(line, out, Consumed)'
    BY <1>1, <2>1, <2>5, <2>7, <2>8, DropStep
  <2> QED BY <1>1, <2>1, <2>7, <2>9 DEF IInv, TypeOK, BufferIsOneBeginning
<1>4. CASE ~(Len(Begun) > Limit)
  <2>1. buffer' = Begun
    BY <1>1, <1>4
  <2>2. Hopeless(Begun, 0)
    BY DEF Hopeless
  <2>3. Hopeless(buffer, start - 1 + 0)
    BY <1>1, <2>2, BridgeTypes, BegunHopeless DEF Begun
  <2>4. start - 1 + 0 = Len(buffer) - Len(Begun)
    BY <1>2
  <2>5. Hopeless(buffer, Len(buffer) - Len(Begun))
    BY <2>3, <2>4
  <2>6. EndOf(buffer, line)' /\ Recorded(line, out, Consumed)'
    BY <1>1, <1>2, <2>1, <2>5, DropStep
  <2>7. Find(BG, Begun, 1) = 1
    <3>1. /\ \/ Find(BG, Begun, 1) = 0
             \/ Find(BG, Begun, 1) \in 1..(Len(Begun) - 1)
          /\ \A i \in 1..(Len(Begun) - 1) :
               At(BG, Begun, i) => Find(BG, Begun, 1) # 0 /\ Find(BG, Begun, 1) <= i
      BY <1>2, FindFirst
    <3>2. 1 \in 1..(Len(Begun) - 1)
      BY <1>2
    <3> QED BY <1>2, <3>1, <3>2
  <2>8. Len(Begun) \in 2..Limit
    BY <1>2, <1>4, BridgeBoundAssumption
  <2>9. BufferIsOneBeginning'
    BY <1>1, <2>1, <2>7, <2>8 DEF BufferIsOneBeginning, NextStart, End
  <2> QED BY <1>1, <1>2, <2>1, <2>6, <2>9 DEF IInv, TypeOK
<1> QED BY <1>3, <1>4

LEMMA CutStep ==
  ASSUME IInv, Cut
  PROVE  IInv'
<1> DEFINE start == Find(BG, buffer, 1)
           end == End
           frame == SubSeq(Begun, 1, end + 1)
           kept == From(Begun, end + 2)
<1>1. /\ buffer' = kept /\ frames' = Append(frames, frame) /\ cutting /\ start > 0
      /\ end > 0 /\ (NextStart = 0 \/ NextStart > end)
      /\ UNCHANGED <<port, cutting, line, published>>
  BY DEF Cut
<1>2. /\ Begun \in Seq(Byte) /\ EndOf(Begun, buffer) /\ At(BG, Begun, 1)
      /\ Len(Begun) >= 2 /\ Len(Begun) \in Nat /\ Len(buffer) \in Nat
      /\ start \in 1..(Len(buffer) - 1) /\ Len(Begun) = Len(buffer) - start + 1
  BY <1>1, BridgeTypes, BegunProperties
<1>3. end \in 3..(Len(Begun) - 1)
  BY <1>1, <1>2, FindFirst DEF End
<1>4. \A f \in Valid : \A p \in 1..(end + 1) :
        \/ Differs(Begun, f, p)
        \/ p = 1 /\ Len(f) = end + 1 /\ \A k \in 1..Len(f) : Begun[k] = f[k]
  BY <1>1, <1>2, CutSettles DEF NextStart, End
<1> HIDE DEF start, end
<1>5. /\ frame \in Seq(Byte) /\ Len(frame) = end + 1
      /\ \A k \in 1..(end + 1) : frame[k] = Begun[k]
  <2>1. end + 1 \in 1..Len(Begun)
    BY <1>2, <1>3
  <2> QED BY <1>2, <2>1, PrefixProperties
<1>6. /\ kept \in Seq(Byte) /\ Len(kept) = Len(Begun) - (end + 2) + 1
      /\ EndOf(kept, Begun)
  <2>1. end + 2 \in 1..(Len(Begun) + 1)
    BY <1>2, <1>3
  <2> QED BY <1>2, <2>1, FromProperties, FromIsEnd
<1> HIDE DEF frame, kept
<1>7. ASSUME NEW f \in Valid, NEW p \in 1..Len(frame)
      PROVE  Differs(Begun, f, p) \/ (p = 1 /\ f = frame)
  <2>1. ASSUME Len(f) = end + 1, \A k \in 1..Len(f) : Begun[k] = f[k] PROVE f = frame
    <3>1. f \in Seq(Byte) /\ Len(f) = Len(frame)
      BY <1>5, <2>1, ValidFrame
    <3>2. \A k \in 1..Len(f) : f[k] = frame[k]
      BY <1>5, <2>1
    <3> QED BY <1>5, <3>1, <3>2, SeqEqual
  <2> QED BY <1>4, <1>5, <2>1
<1>8. EndOf(Begun, line)
  BY <1>2, BridgeTypes, EndOfTransitive DEF IInv
<1>9. Recorded(line, out, Len(line) - Len(Begun))
  <2>1. Hopeless(Begun, 0)
    BY DEF Hopeless
  <2>2. Hopeless(buffer, start - 1 + 0)
    BY <1>1, <2>1, BridgeTypes, BegunHopeless DEF Begun, start
  <2>3. /\ start - 1 + 0 \in 0..Len(buffer)
        /\ Len(line) - Len(buffer) + (start - 1 + 0) = Len(line) - Len(Begun)
    BY <1>2, BridgeTypes
  <2>4. Recorded(line, out, Len(line) - Len(buffer))
    BY DEF IInv, Consumed
  <2>5. Recorded(line, out, Len(line) - Len(buffer) + (start - 1 + 0))
    BY <2>2, <2>3, <2>4, BridgeTypes, RecordedPasses DEF IInv
  <2> QED BY <2>3, <2>5
<1>10. Recorded(line, Append(out, frame), Len(line) - Len(Begun) + Len(frame))
  <2>1. Len(frame) \in 1..Len(Begun)
    BY <1>2, <1>3, <1>5
  <2>2. \A k \in 1..Len(frame) : frame[k] = Begun[k]
    BY <1>5
  <2> QED BY <1>2, <1>5, <1>7, <1>8, <1>9, <2>1, <2>2, BridgeTypes, RecordedCut
<1>11. out' = Append(out, frame)
  <2>1. frame \in Seq(Byte)
    BY <1>5
  <2>2. published \o Append(frames, frame) = Append(published \o frames, frame)
    <3> DEFINE one == <<frame>>
    <3>1. /\ Append(frames, frame) = frames \o one
          /\ Append(published \o frames, frame) = (published \o frames) \o one
      BY <2>1, BridgeTypes, AppendIsConcat DEF out
    <3>2. one \in Seq(Seq(Byte))
      BY <2>1
    <3> HIDE DEF one
    <3>3. published \in Seq(Seq(Byte)) /\ frames \in Seq(Seq(Byte))
      BY BridgeTypes
    <3>4. (published \o frames) \o one = published \o (frames \o one)
      BY <3>2, <3>3, ConcatAssociative
    <3> QED BY <3>1, <3>4
  <2> QED BY <1>1, <2>2 DEF out
<1>12. Len(line) - Len(Begun) + Len(frame) = Len(line) - Len(kept)
  BY <1>2, <1>3, <1>5, <1>6, BridgeTypes
<1>13. Recorded(line, out, Consumed)'
  <2>1. Consumed' = Len(line) - Len(kept)
    BY <1>1 DEF Consumed
  <2>2. Recorded(line, Append(out, frame), Len(line) - Len(kept))
    BY <1>10, <1>12
  <2> QED BY <1>1, <1>11, <2>1, <2>2
<1>14. EndOf(buffer, line)'
  BY <1>1, <1>2, <1>6, <1>8, BridgeTypes, EndOfTransitive
<1>15. frames' \in Seq(Seq(Byte))
  BY <1>1, <1>5, BridgeTypes, AppendProperties
<1> QED BY <1>1, <1>6, <1>13, <1>14, <1>15 DEF IInv, TypeOK, BufferIsOneBeginning

LEMMA PublishStep ==
  ASSUME IInv, Publish
  PROVE  IInv'
<1>1. /\ frames # <<>> /\ Head(frames) \in Valid /\ ~cutting
      /\ published' = Append(published, Head(frames)) /\ frames' = Tail(frames)
      /\ UNCHANGED <<port, cutting, line, buffer>>
  BY DEF Publish
<1>2. Head(frames) \in Seq(Byte) /\ Tail(frames) \in Seq(Seq(Byte))
  BY <1>1, BridgeTypes, HeadTailProperties
<1>3. frames = <<Head(frames)>> \o Tail(frames)
  <2>1. /\ Len(frames) \in Nat /\ Len(frames) > 0
        /\ Len(Tail(frames)) = Len(frames) - 1
        /\ \A i \in 1..Len(Tail(frames)) : Tail(frames)[i] = frames[i + 1]
    BY <1>1, BridgeTypes, LenProperties, EmptySeq, HeadTailProperties
  <2> DEFINE h == <<Head(frames)>>
             rest == Tail(frames)
             all == h \o rest
  <2>2. h \in Seq(Seq(Byte)) /\ Len(h) = 1 /\ h[1] = frames[1]
    BY <1>2, <2>1
  <2>3. /\ rest \in Seq(Seq(Byte)) /\ Len(rest) = Len(frames) - 1
        /\ \A i \in 1..Len(rest) : rest[i] = frames[i + 1]
    BY <1>2, <2>1
  <2> HIDE DEF h, rest
  <2>4. /\ all \in Seq(Seq(Byte)) /\ Len(all) = Len(h) + Len(rest)
        /\ \A i \in 1..(Len(h) + Len(rest)) :
             all[i] = IF i <= Len(h) THEN h[i] ELSE rest[i - Len(h)]
    <3>1. h \in Seq(Seq(Byte)) /\ rest \in Seq(Seq(Byte))
      BY <2>2, <2>3
    <3> QED BY <3>1, ConcatProperties
  <2> HIDE DEF all
  <2>5. \A i \in 1..Len(frames) : frames[i] = all[i]
    BY <2>1, <2>2, <2>3, <2>4
  <2>6. frames = all
    <3>1. frames \in Seq(Seq(Byte)) /\ Len(frames) = Len(all)
      BY <2>1, <2>2, <2>3, <2>4, BridgeTypes
    <3> QED BY <2>4, <2>5, <3>1, SeqEqual
  <2> QED BY <2>6 DEF all, h, rest
<1>4. out' = out
  <2> DEFINE one == <<Head(frames)>>
             rest == Tail(frames)
  <2>1. Append(published, Head(frames)) = published \o one
    BY <1>2, BridgeTypes, AppendIsConcat
  <2>2. /\ one \in Seq(Seq(Byte)) /\ rest \in Seq(Seq(Byte))
        /\ published \in Seq(Seq(Byte))
    BY <1>2, BridgeTypes
  <2>3. frames = one \o rest
    BY <1>3
  <2> HIDE DEF one, rest
  <2>4. (published \o one) \o rest = published \o (one \o rest)
    BY <2>2, ConcatAssociative
  <2>5. out' = (published \o one) \o rest
    BY <1>1, <2>1 DEF out, rest
  <2> QED BY <2>3, <2>4, <2>5 DEF out
<1>5. EndOf(buffer, line)' /\ Recorded(line, out, Consumed)'
  BY <1>1, <1>4, RecordFrame
<1>6. published' \in Seq(Valid)
  BY <1>1, AppendProperties DEF IInv, TypeOK
<1> QED BY <1>1, <1>2, <1>5, <1>6 DEF IInv, TypeOK, BufferIsOneBeginning

LEMMA DiscardStep ==
  ASSUME IInv, Discard
  PROVE  IInv'
<1> DEFINE n == Len(published)
           m == n + 1
           less == published \o Tail(frames)
<1>1. /\ frames # <<>> /\ Head(frames) \notin Valid /\ frames' = Tail(frames)
      /\ UNCHANGED <<port, cutting, line, buffer, published>>
  BY DEF Discard
<1>2. /\ Len(frames) \in Nat /\ Len(frames) > 0 /\ n \in Nat
      /\ Tail(frames) \in Seq(Seq(Byte)) /\ Len(Tail(frames)) = Len(frames) - 1
      /\ \A i \in 1..Len(Tail(frames)) : Tail(frames)[i] = frames[i + 1]
  BY <1>1, BridgeTypes, LenProperties, EmptySeq, HeadTailProperties
<1>3. \A i \in 1..(n + Len(frames)) :
        out[i] = IF i <= n THEN published[i] ELSE frames[i - n]
  BY BridgeTypes, ConcatProperties DEF out
<1>4. /\ less \in Seq(Seq(Byte)) /\ Len(less) = n + Len(Tail(frames))
      /\ \A i \in 1..(n + Len(Tail(frames))) :
           less[i] = IF i <= n THEN published[i] ELSE Tail(frames)[i - n]
  <2>1. published \in Seq(Seq(Byte)) /\ Tail(frames) \in Seq(Seq(Byte))
    BY <1>2, BridgeTypes
  <2> QED BY <2>1, ConcatProperties
<1>5. Len(out) = n + Len(frames) /\ out \in Seq(Seq(Byte))
  BY BridgeTypes
<1>6. out' = less
  BY <1>1 DEF out
<1> HIDE DEF n, less
<1>7. m \in 1..Len(out) /\ out[m] \notin Valid
  <2>1. m \in 1..(n + Len(frames)) /\ ~(m <= n) /\ m - n = 1
    BY <1>2
  <2>2. out[m] = frames[1]
    BY <1>3, <2>1
  <2> QED BY <1>1, <1>5, <2>1, <2>2
<1>8. Len(less) = Len(out) - 1
  BY <1>2, <1>4, <1>5
<1>9. ASSUME NEW i \in 1..Len(less)
      PROVE  less[i] = IF i < m THEN out[i] ELSE out[i + 1]
  <2>1. CASE i < m
    <3>1. i <= n /\ i \in 1..(n + Len(frames)) /\ i \in 1..(n + Len(Tail(frames)))
      BY <1>2, <1>4, <2>1
    <3> QED BY <1>3, <1>4, <2>1, <3>1
  <2>2. CASE ~(i < m)
    <3>1. /\ ~(i <= n) /\ ~(i + 1 <= n) /\ i + 1 \in 1..(n + Len(frames))
          /\ i \in 1..(n + Len(Tail(frames)))
          /\ i - n \in 1..Len(Tail(frames)) /\ i - n + 1 = i + 1 - n
      BY <1>2, <1>4, <2>2
    <3>2. less[i] = Tail(frames)[i - n]
      BY <1>4, <3>1
    <3>4. out[i + 1] = frames[i + 1 - n]
      <4> DEFINE j == i + 1
      <4>1. j \in 1..(n + Len(frames)) /\ ~(j <= n)
        BY <3>1
      <4> HIDE DEF j
      <4>2. out[j] = frames[j - n]
        BY <1>3, <4>1
      <4>3. j - n = i + 1 - n
        BY <1>2, <1>4 DEF j
      <4> QED BY <4>2, <4>3 DEF j
    <3>3. Tail(frames)[i - n] = frames[i - n + 1]
      BY <1>2, <3>1
    <3> QED BY <2>2, <3>1, <3>2, <3>3, <3>4
  <2> QED BY <2>1, <2>2
<1>10. Recorded(line, less, Consumed)
  <2>1. Recorded(line, out, Consumed) /\ Consumed \in Nat
    BY BridgeTypes DEF IInv
  <2> HIDE DEF m
  <2> QED BY <1>4, <1>5, <1>7, <1>8, <1>9, <2>1, RecordedDrops
<1>11. EndOf(buffer, line)' /\ Recorded(line, out, Consumed)'
  BY <1>1, <1>6, <1>10 DEF IInv, Consumed
<1> QED BY <1>1, <1>2, <1>11 DEF IInv, TypeOK, BufferIsOneBeginning

\* The invariant is inductive.
LEMMA BridgeStep == IInv /\ [Next]_vars => IInv'
<1> SUFFICES ASSUME IInv, [Next]_vars PROVE IInv'
  OBVIOUS
<1>1. ASSUME NEW chunk \in Chunk, Read(chunk) PROVE IInv'
  BY <1>1, ReadStep
<1>2. CASE NoStart \/ Resync \/ NoEnd \/ Cut
  BY <1>2, NoStartStep, ResyncStep, NoEndStep, CutStep
<1>3. CASE Publish \/ Discard
  BY <1>3, PublishStep, DiscardStep
<1>4. CASE PortFails \/ Reopen \/ UNCHANGED vars
  <2>1. UNCHANGED <<cutting, line, buffer, frames, published>>
    BY <1>4 DEF PortFails, Reopen, vars
  <2>2. port' \in {"open", "closed"}
    BY <1>4 DEF PortFails, Reopen, vars, IInv, TypeOK
  <2>3. EndOf(buffer, line)' /\ Recorded(line, out, Consumed)'
    BY <2>1, RecordFrame DEF out
  <2>4. (cutting => port = "open")'
    BY <1>4 DEF PortFails, Reopen, vars, IInv
  <2> QED BY <2>1, <2>2, <2>3, <2>4 DEF IInv, TypeOK, BufferIsOneBeginning
<1>5. CASE PublishFails
  <2>1. Init'
    BY <1>5 DEF PublishFails, Init
  <2> QED BY <2>1, BridgeInit, PTL
<1> QED BY <1>1, <1>2, <1>3, <1>4, <1>5 DEF Next

\* The inductive invariant holds, however the line is cut into chunks and whatever fails.
THEOREM BridgeInvariance == Spec => []IInv
BY BridgeInit, BridgeStep, PTL DEF Spec

-----------------------------------------------------------------------------
(* The theorems. *)

\* Between two reads no valid frame stands in the buffer.
LEMMA BeginningHoldsNone ==
  ASSUME buffer \in Seq(Byte), BufferIsOneBeginning, ~cutting,
         NEW f \in Valid, NEW q \in 1..Len(buffer), q + Len(f) - 1 <= Len(buffer)
  PROVE  Differs(buffer, f, q)
<1>1. /\ Len(buffer) \in Nat /\ Len(f) \in 4..Limit /\ Limit \in Nat
      /\ f[1] = "B" /\ f[2] = "G" /\ f[Len(f) - 1] = "E" /\ f[Len(f)] = "D"
  BY LenProperties, ValidFrame, BridgeBoundAssumption DEF At, BG, ED
<1>2. Find(BG, buffer, 1) = 1 /\ Find(BG, buffer, 3) = 0 /\ Find(ED, buffer, 3) = 0
  <2>1. ASSUME buffer = <<>> PROVE Len(buffer) = 0
    BY <2>1
  <2>2. ASSUME buffer = <<"B">> PROVE Len(buffer) = 1
    BY <2>2
  <2>3. \/ buffer = <<>> \/ buffer = <<"B">>
        \/ Find(BG, buffer, 1) = 1 /\ Find(BG, buffer, 3) = 0 /\ Find(ED, buffer, 3) = 0
    BY DEF BufferIsOneBeginning
  <2>4. buffer # <<>> /\ buffer # <<"B">>
    <3>1. Len(buffer) >= 4
      BY <1>1
    <3>2. Len(buffer) # 0 /\ Len(buffer) # 1
      <4>1. \A n \in Nat : n >= 4 => n # 0 /\ n # 1
        OBVIOUS
      <4> QED BY <1>1, <3>1, <4>1
    <3> QED BY <2>1, <2>2, <3>2
  <2> QED BY <2>3, <2>4
<1>3. /\ At(BG, buffer, 1)
      /\ \A i \in 3..(Len(buffer) - 1) : ~At(BG, buffer, i) /\ ~At(ED, buffer, i)
  BY <1>1, <1>2, FindFirst
<1>4. CASE q = 1
  <2>1. \A i \in 3..(Len(buffer) - 1) : ~At(ED, buffer, i)
    BY <1>3
  <2>2. Len(buffer) \in 1..Len(buffer) /\ Len(f) <= Len(buffer)
    BY <1>1, <1>4
  <2> QED BY <1>4, <2>1, <2>2, NoEndDiffers
<1>5. CASE q = 2
  <2>1. buffer[2] # "B"
    BY <1>3 DEF At, BG
  <2> QED BY <1>5, <2>1, NoStartDiffers
<1>6. CASE q > 2
  <2>1. q \in 3..(Len(buffer) - 1)
    BY <1>1, <1>6
  <2> QED BY <1>1, <1>3, <2>1, NoStartDiffers
<1> QED BY <1>1, <1>4, <1>5, <1>6

\* So every valid frame of the line is on record then.
LEMMA InvariantRecords ==
  ASSUME IInv
  PROVE  IntactFramesPublished
<1>1. PICK ends : Stand(line, out, ends, Consumed) /\ NoneMissing(line, out, ends, Consumed)
  BY DEF IInv, Recorded
<1>2. ends \in [1..Len(out) -> 1..Len(line)]
  <2>1. 1..Consumed \subseteq 1..Len(line)
    BY BridgeTypes
  <2> QED BY <1>1, <2>1 DEF Stand
<1>3. ASSUME NEW i \in 1..Len(out)
      PROVE  EndsAt(out[i], ends[i])
  <2>1. out[i] \in Seq(Byte) /\ ends[i] \in 1..Len(line)
    BY <1>2, BridgeTypes, ElementOfSeq
  <2>2. /\ Len(out[i]) <= ends[i]
        /\ \A k \in 1..Len(out[i]) : line[ends[i] - Len(out[i]) + k] = out[i][k]
    BY <1>1 DEF Stand
  <2> QED BY <2>1, <2>2, BridgeTypes, StandsPointwise DEF EndsAt
<1>4. ASSUME ~cutting, NEW f \in Valid, NEW j \in 1..Len(line), EndsAt(f, j)
      PROVE  \E i \in 1..Len(out) : ends[i] = j /\ out[i] = f
  <2> DEFINE p == j - Len(f) + 1
  <2>1. f \in Seq(Byte) /\ Len(f) \in 4..Limit /\ Limit \in Nat
    BY ValidFrame, BridgeBoundAssumption
  <2>2. Len(f) <= j /\ \A k \in 1..Len(f) : line[j - Len(f) + k] = f[k]
    BY <1>4, <2>1, BridgeTypes, StandsPointwise DEF EndsAt
  <2>3. \A k \in 1..Len(f) : p + k - 1 = j - Len(f) + k
    BY <2>1, <2>2, BridgeTypes
  <2>4. ~Differs(line, f, p)
    BY <2>2, <2>3 DEF Differs
  <2>5. p \in 1..Len(line) /\ p + Len(f) - 1 = j
    BY <2>1, <2>2, BridgeTypes
  <2> HIDE DEF p
  <2>6. CASE p \in 1..Consumed
    BY <1>1, <2>4, <2>5, <2>6 DEF NoneMissing
  <2>7. CASE p > Consumed
    <3> DEFINE q == p - Consumed
    <3>1. /\ q \in 1..Len(buffer) /\ q + Len(f) - 1 <= Len(buffer)
          /\ Len(line) - Len(buffer) + q = p
      BY <2>1, <2>5, <2>7, BridgeTypes DEF Consumed
    <3> HIDE DEF q
    <3>2. Differs(buffer, f, q)
      BY <1>4, <3>1, BridgeTypes, BeginningHoldsNone DEF IInv
    <3>3. Differs(line, f, Len(line) - Len(buffer) + q)
      BY <3>1, <3>2, BridgeTypes, EndDiffers DEF IInv
    <3> QED BY <2>4, <3>1, <3>3
  <2> QED BY <2>5, <2>6, <2>7, BridgeTypes
<1>5. \A i, k \in 1..Len(out) : i < k => ends[i] < ends[k]
  BY <1>1 DEF Stand
<1> QED BY <1>2, <1>3, <1>4, <1>5 DEF IntactFramesPublished

\* A turn that goes on has dropped a marker at least.
LEMMA TurnShortens ==
  ASSUME IInv, [Next]_vars, cutting, cutting'
  PROVE  UNCHANGED vars \/ Len(buffer') < Len(buffer)
<1> DEFINE start == Find(BG, buffer, 1)
<1>1. CASE Resync \/ Cut
  <2>1. /\ Begun \in Seq(Byte) /\ Len(Begun) \in Nat /\ Len(buffer) \in Nat
        /\ start \in 1..(Len(buffer) - 1) /\ Len(Begun) = Len(buffer) - start + 1
    BY <1>1, BridgeTypes, BegunProperties DEF Resync, Cut
  <2>2. ASSUME NEW i \in 2..(Len(Begun) + 1), buffer' = From(Begun, i)
        PROVE  Len(buffer') < Len(buffer)
    <3>1. Len(From(Begun, i)) = Len(Begun) - i + 1
      BY <2>1, FromProperties
    <3> HIDE DEF start
    <3> QED BY <2>1, <2>2, <3>1
  <2>3. CASE Resync
    <3>1. NextStart \in 3..(Len(Begun) - 1)
      BY <2>1, <2>3, FindFirst DEF Resync, NextStart
    <3> QED BY <2>1, <2>2, <2>3, <3>1 DEF Resync
  <2>4. CASE Cut
    <3>1. End \in 3..(Len(Begun) - 1)
      BY <2>1, <2>4, FindFirst DEF Cut, End
    <3>2. End + 2 \in 2..(Len(Begun) + 1)
      BY <2>1, <3>1
    <3> QED BY <2>2, <2>4, <3>2 DEF Cut
  <2> QED BY <1>1, <2>3, <2>4
<1>2. CASE ~(Resync \/ Cut)
  <2>1. port # "closed" /\ ~(~cutting) /\ ~(cutting' = FALSE)
    BY DEF IInv
  <2> QED BY <1>2, <2>1 DEF Next, Read, NoStart, NoEnd, Publish, Discard, PortFails,
                            Reopen, PublishFails, vars
<1> QED BY <1>1, <1>2

\* The variables keep their types, and what is published is valid, however the line is
\* cut into chunks (run and publish).
THEOREM BridgeTypeCorrect == Spec => []TypeOK
<1>1. IInv => TypeOK
  BY DEF IInv
<1> QED BY <1>1, BridgeInvariance, PTL

\* Each valid frame that stands unbroken on the line is cut and published once and in its
\* order, and nothing else is, whatever the frames and the noise are (FrameBuffer.feed).
THEOREM IntactFramesArePublished == Spec => []IntactFramesPublished
BY InvariantRecords, BridgeInvariance, PTL

\* Between two reads the buffer holds the beginning of one frame at most and is no longer
\* than the limit, whatever comes on the line.
THEOREM BufferIsBounded == Spec => []BufferIsOneBeginning
<1>1. IInv => BufferIsOneBeginning
  BY DEF IInv
<1> QED BY <1>1, BridgeInvariance, PTL

\* The loop of feed() ends: a turn that does not leave it shortens the buffer.
THEOREM FeedReturns == Spec => EveryTurnShortens
<1>1. IInv /\ [Next]_vars
        => [cutting /\ cutting' => Len(buffer') < Len(buffer)]_vars
  BY TurnShortens
<1> QED BY <1>1, BridgeInvariance, PTL DEF Spec, EveryTurnShortens

=============================================================================
