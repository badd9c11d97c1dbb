----------------------------- MODULE FrameProofs -----------------------------
(***************************************************************************)
(* The round trip of a payload, for every payload and for every alphabet,   *)
(* hash and size of the format: decompressBlock reads back, sequence by     *)
(* sequence, what compressBlock wrote.  A block is cut at marks, the places *)
(* where its sequences begin, and a least counterexample stands where a     *)
(* proof would go by induction.                                             *)
(***************************************************************************)
EXTENDS Frames, SequenceTheorems, FiniteSetTheorems, WellFoundedInduction, TLAPS

----------------------------------------------------------------------------
\* Numbers.
LEMMA DivisionIsUnique ==
  ASSUME NEW M \in Nat \ {0}, NEW q \in Int, NEW k \in Int, NEW r \in 0 .. M - 1, NEW s \in 0 .. M - 1, q * M + r = k * M + s
  PROVE  r = s
  <1>1. (q - k) * M = s - r
    OBVIOUS
  <1>2. CASE q = k
    BY <1>2
  <1>3. CASE q > k
    <2>1. q - k - 1 \in Nat
      BY <1>3
    <2>2. (q - k - 1) * M \in Nat
      BY <2>1
    <2>3. (q - k) * M = (q - k - 1) * M + M
      OBVIOUS
    <2> QED
      BY <1>1, <2>2, <2>3
  <1>4. CASE q < k
    <2>1. k - q - 1 \in Nat
      BY <1>4
    <2>2. (k - q - 1) * M \in Nat
      BY <2>1
    <2>3. (k - q) * M = (k - q - 1) * M + M
      OBVIOUS
    <2>4. (k - q) * M = r - s
      OBVIOUS
    <2> QED
      BY <2>2, <2>3, <2>4
  <1> QED
    BY <1>2, <1>3, <1>4

LEMMA Division == ASSUME NEW M \in Nat \ {0}, NEW a \in Int PROVE a % M \in 0 .. M - 1 /\ a \div M \in Int /\ a = (a \div M) * M + (a % M)
  OBVIOUS

Leaves(a, M, q, r) == a \in Int /\ M \in Nat \ {0} /\ q \in Int /\ r \in 0 .. M - 1 /\ a = q * M + r

LEMMA RemainderIs ==
  ASSUME NEW a, NEW M, NEW q, NEW r, Leaves(a, M, q, r)
  PROVE  a % M = r
  <1>1. a \in Int /\ M \in Nat \ {0} /\ q \in Int /\ r \in 0 .. M - 1 /\ a = q * M + r
    BY DEF Leaves
  <1>2. a % M \in 0 .. M - 1 /\ a \div M \in Int /\ a = (a \div M) * M + (a % M)
    BY <1>1, Division
  <1> QED
    BY <1>1, <1>2, DivisionIsUnique

LEMMA QuotientIs ==
  ASSUME NEW a, NEW M, NEW q, NEW r, Leaves(a, M, q, r)
  PROVE  a \div M = q
  <1>1. a \in Int /\ M \in Nat \ {0} /\ q \in Int /\ r \in 0 .. M - 1 /\ a = q * M + r
    BY DEF Leaves
  <1> DEFINE d == a \div M
  <1>2. d \in Int /\ a = d * M + r
    <2>1. a % M = r
      BY RemainderIs
    <2> QED
      BY <1>1, <2>1, Division
  <1> HIDE DEF d
  <1>3. ASSUME NEW x \in Int, NEW y \in Int, x < y PROVE x * M < y * M
    <2>1. (y - x - 1) * M >= 0
      BY <1>1, <1>3
    <2>2. (y - x - 1) * M = y * M - x * M - M
      BY <1>1
    <2>3. x * M \in Int /\ y * M \in Int
      BY <1>1
    <2> QED
      BY <1>1, <2>1, <2>2, <2>3
  <1>4. d * M \in Int /\ q * M \in Int
    BY <1>1, <1>2
  <1>5. d * M = q * M
    BY <1>1, <1>2, <1>4
  <1>6. ~(d < q) /\ ~(q < d)
    BY <1>1, <1>2, <1>3, <1>4, <1>5
  <1>7. d = q
    BY <1>1, <1>2, <1>6
  <1> QED
    BY <1>7 DEF d

LEMMA QuotientIsNatural == ASSUME NEW a \in Nat, NEW M \in Nat \ {0} PROVE a \div M \in Nat
  <1>1. a % M \in 0 .. M - 1 /\ a \div M \in Int /\ a = (a \div M) * M + (a % M)
    BY Division
  <1>2. ASSUME NEW q \in Int, q < 0 PROVE q * M <= -M
    <2>1. (-q - 1) * M >= 0
      BY <1>2
    <2>2. q * M = -((-q - 1) * M) - M
      OBVIOUS
    <2> QED
      BY <2>1, <2>2
  <1>3. a \div M < 0 => (a \div M) * M <= -M
    BY <1>1, <1>2
  <1> QED
    BY <1>1, <1>3

\* Rounded up, a quotient times its divisor is no less.
LEMMA RoundedUp ==
  ASSUME NEW a \in Nat, NEW M \in Nat \ {0}
  PROVE  ((a + M - 1) \div M) * M >= a /\ (a + M - 1) \div M \in Nat
  <1> DEFINE b == a + M - 1
  <1>1. b \in Nat
    OBVIOUS
  <1>2. b % M \in 0 .. M - 1 /\ b \div M \in Int /\ b = (b \div M) * M + (b % M)
    BY <1>1, Division
  <1>3. b \div M \in Nat
    BY <1>1, QuotientIsNatural
  <1>4. ASSUME NEW x \in Int, NEW r \in 0 .. M - 1, a + M - 1 = x + r PROVE x >= a
    BY <1>4
  <1>5. (b \div M) * M \in Int
    BY <1>2
  <1> QED
    BY <1>2, <1>3, <1>4, <1>5

\* What repeats with a period is told by its first bytes.
Repeating(bytes, s, o, n) == \A k \in 1 .. n : bytes[s + k] = bytes[s + k - o]

LEMMA LeastNumber ==
  ASSUME NEW S, S \subseteq Nat, S # {}
  PROVE  \E n \in S : \A m \in S : n <= m
  <1>1. IsWellFoundedOn(OpToRel(<, Nat), Nat)
    BY NatLessThanWellFounded
  <1>2. PICK n \in S : \A m \in S : << m, n >> \notin OpToRel(<, Nat)
    BY <1>1, WFMin
  <1>3. \A m \in S : ~(m < n)
    BY <1>2 DEF OpToRel
  <1> QED
    BY <1>3

LEMMA PeriodRepeats ==
  ASSUME NEW bytes, NEW s \in Nat, NEW o \in 1 .. s, NEW n \in Nat, Repeating(bytes, s, o, n)
  PROVE  \A k \in 1 .. n : bytes[s + k] = bytes[s - o + 1 + ((k - 1) % o)]
  <1> DEFINE Wrong == { k \in 1 .. n : bytes[s + k] # bytes[s - o + 1 + ((k - 1) % o)] }
  <1>1. SUFFICES ASSUME Wrong # {} PROVE FALSE
    OBVIOUS
  <1>2. PICK k \in Wrong : \A j \in Wrong : k <= j
    <2>1. Wrong \subseteq Nat
      OBVIOUS
    <2> HIDE DEF Wrong
    <2> QED
      BY <1>1, <2>1, LeastNumber
  <1>3. k \in 1 .. n /\ bytes[s + k] # bytes[s - o + 1 + ((k - 1) % o)]
    OBVIOUS
  <1>4. CASE k <= o
    <2>1. Leaves(k - 1, o, 0, k - 1)
      BY <1>3, <1>4 DEF Leaves
    <2>2. (k - 1) % o = k - 1
      BY <2>1, RemainderIs
    <2>3. s - o + 1 + (k - 1) = s + k - o
      BY <1>3
    <2> QED
      BY <1>3, <2>2, <2>3 DEF Repeating
  <1>5. CASE k > o
    <2>1. k - o \in 1 .. n /\ ~(k <= k - o)
      BY <1>3, <1>5
    <2>2. k - o \notin Wrong
      BY <1>2, <2>1
    <2>3. bytes[s + (k - o)] = bytes[s - o + 1 + (((k - o) - 1) % o)]
      BY <2>1, <2>2
    <2>4. ((k - o) - 1) % o = (k - 1) % o
      <3> DEFINE a == (k - o) - 1
      <3>1. a \in Int /\ o \in Nat \ {0} /\ k - 1 = a + o
        BY <1>3
      <3>2. a % o \in 0 .. o - 1 /\ a \div o \in Int /\ a = (a \div o) * o + (a % o)
        BY <3>1, Division
      <3>3. Leaves(k - 1, o, (a \div o) + 1, a % o)
        <4> HIDE DEF a
        <4>1. ASSUME NEW q \in Int PROVE (q + 1) * o = q * o + o
          OBVIOUS
        <4> QED
          BY <3>1, <3>2, <4>1 DEF Leaves
      <3> QED
        BY <3>3, RemainderIs
    <2>5. s + (k - o) = s + k - o
      BY <1>3
    <2> QED
      BY <1>3, <2>3, <2>4, <2>5 DEF Repeating
  <1> QED
    BY <1>3, <1>4, <1>5

----------------------------------------------------------------------------
\* A block of bytes that lies in a text, from behind its first p.
LiesAt(text, p, w) == p + Len(w) <= Len(text) /\ \A k \in 1 .. Len(w) : text[p + k] = w[k]

LEMMA LiesApart ==
  ASSUME NEW text \in Seq(Byte), NEW p \in Nat, NEW u \in Seq(Byte), NEW v \in Seq(Byte), LiesAt(text, p, u \o v)
  PROVE  LiesAt(text, p, u) /\ LiesAt(text, p + Len(u), v) /\ p + Len(u \o v) = p + Len(u) + Len(v)
  <1>1. Len(text) \in Nat /\ Len(u) \in Nat /\ Len(v) \in Nat
    BY LenProperties
  <1> DEFINE w == u \o v
  <1>2. /\ Len(w) = Len(u) + Len(v)
        /\ \A i \in 1 .. Len(u) + Len(v) : w[i] = IF i <= Len(u) THEN u[i] ELSE v[i - Len(u)]
    BY ConcatProperties
  <1>3. p + Len(w) <= Len(text) /\ \A k \in 1 .. Len(w) : text[p + k] = w[k]
    BY DEF LiesAt
  <1> HIDE DEF w
  <1>4. ASSUME NEW k \in 1 .. Len(u) PROVE text[p + k] = u[k]
    <2>1. k \in 1 .. Len(u) + Len(v) /\ k <= Len(u)
      BY <1>1
    <2> QED
      BY <1>2, <1>3, <2>1
  <1>5. ASSUME NEW k \in 1 .. Len(v) PROVE text[(p + Len(u)) + k] = v[k]
    <2>1. Len(u) + k \in 1 .. Len(u) + Len(v) /\ ~(Len(u) + k <= Len(u)) /\ (Len(u) + k) - Len(u) = k
          /\ p + (Len(u) + k) = (p + Len(u)) + k
      BY <1>1
    <2> QED
      BY <1>2, <1>3, <2>1
  <1> QED
    BY <1>1, <1>2, <1>3, <1>4, <1>5 DEF LiesAt, w

\* What lay in a text lies in it when more is written, and so does what was written.
LEMMA LiesBefore ==
  ASSUME NEW text \in Seq(Byte), NEW more \in Seq(Byte)
  PROVE  /\ text \o more \in Seq(Byte) /\ Len(text \o more) = Len(text) + Len(more)
         /\ LiesAt(text \o more, Len(text), more)
         /\ \A p \in Nat, w \in Seq(Byte) : LiesAt(text, p, w) => LiesAt(text \o more, p, w)
  <1>1. Len(text) \in Nat /\ Len(more) \in Nat
    BY LenProperties
  <1> DEFINE longer == text \o more
  <1>2. /\ longer \in Seq(Byte) /\ Len(longer) = Len(text) + Len(more)
        /\ \A i \in 1 .. Len(text) + Len(more) : longer[i] = IF i <= Len(text) THEN text[i] ELSE more[i - Len(text)]
    BY ConcatProperties
  <1> HIDE DEF longer
  <1>3. LiesAt(longer, Len(text), more)
    <2>1. ASSUME NEW k \in 1 .. Len(more) PROVE longer[Len(text) + k] = more[k]
      <3>1. Len(text) + k \in 1 .. Len(text) + Len(more) /\ ~(Len(text) + k <= Len(text)) /\ (Len(text) + k) - Len(text) = k
        BY <1>1
      <3> QED
        BY <1>2, <3>1
    <2> QED
      BY <1>1, <1>2, <2>1 DEF LiesAt
  <1>4. ASSUME NEW p \in Nat, NEW w \in Seq(Byte), LiesAt(text, p, w) PROVE LiesAt(longer, p, w)
    <2>1. Len(w) \in Nat /\ p + Len(w) <= Len(text) /\ \A k \in 1 .. Len(w) : text[p + k] = w[k]
      BY <1>4, LenProperties DEF LiesAt
    <2>2. ASSUME NEW k \in 1 .. Len(w) PROVE longer[p + k] = w[k]
      <3>1. p + k \in 1 .. Len(text) + Len(more) /\ p + k <= Len(text)
        BY <1>1, <2>1
      <3> QED
        BY <1>2, <2>1, <3>1
    <2> QED
      BY <1>1, <1>2, <2>1, <2>2 DEF LiesAt
  <1> QED
    BY <1>2, <1>3, <1>4 DEF longer

----------------------------------------------------------------------------
\* What is written of a sequence.
LEMMA FrameConstants ==
  /\ Longest \in Nat /\ LongestForeign \in Nat /\ MaxDecompressed \in Nat /\ MaxOffset \in Nat
  /\ MinMatch \in Nat \ {0} /\ LastLiterals \in Nat \ {0} /\ Slots \in Nat \ {0} /\ NibbleTop \in Nat \ {0} /\ ByteTop \in Nat \ {0}
  /\ CompressFrom \in Nat \ {0} /\ MaxLz4Flags \in Nat \ {0}
  /\ MfLimit \in Nat /\ MfLimit >= MinMatch + LastLiterals
  /\ Alphabet \subseteq Byte /\ Foreign \subseteq Byte /\ Byte \subseteq Nat
  /\ SlotOf \in [[1 .. MinMatch -> Alphabet] -> 0 .. (Slots - 1)]
  <1>1. ByteTop \in Nat
    BY FrameAssumption
  <1>2. Byte \subseteq Nat
    BY <1>1 DEF Byte
  <1>3. Alphabet \subseteq Byte /\ Foreign \subseteq Byte /\ SlotOf \in [[1 .. MinMatch -> Alphabet] -> 0 .. (Slots - 1)]
    BY FrameAssumption
  <1> QED
    BY <1>2, <1>3, FrameAssumption

\* writeLength: the whole bytes, and the rest.
LEMMA LengthBytesAre ==
  ASSUME NEW v, NEW d \in Nat, NEW r \in Nat, Leaves(v, ByteTop, d, r)
  PROVE  /\ LengthBytes(v) \in Seq(Byte) /\ Len(LengthBytes(v)) = d + 1
         /\ LengthBytes(v)[d + 1] = r /\ \A k \in 1 .. d : LengthBytes(v)[k] = ByteTop
  <1>1. ByteTop \in Nat \ {0} /\ ByteTop \in Byte /\ r \in Byte
    BY FrameConstants DEF Byte, Leaves
  <1>2. v \div ByteTop = d /\ v % ByteTop = r
    BY QuotientIs, RemainderIs
  <1> DEFINE run == [k \in 1 .. d |-> ByteTop]
             end == << r >>
  <1>3. LengthBytes(v) = run \o end
    BY <1>2 DEF LengthBytes
  <1>4. run \in Seq(Byte) /\ Len(run) = d /\ \A k \in 1 .. d : run[k] = ByteTop
    <2>1. run \in [1 .. d -> Byte] /\ DOMAIN run = 1 .. d
      BY <1>1
    <2>2. run \in Seq(Byte)
      BY <2>1, SeqDef
    <2>3. Len(run) = d
      BY <2>1, <2>2, LenProperties
    <2> QED
      BY <2>2, <2>3
  <1>5. end \in Seq(Byte) /\ Len(end) = 1 /\ end[1] = r
    BY <1>1
  <1> HIDE DEF run, end
  <1>6. /\ run \o end \in Seq(Byte) /\ Len(run \o end) = Len(run) + Len(end)
        /\ \A i \in 1 .. Len(run) + Len(end) : (run \o end)[i] = IF i <= Len(run) THEN run[i] ELSE end[i - Len(run)]
    BY <1>4, <1>5, ConcatProperties
  <1>7. (run \o end)[d + 1] = r
    <2>1. d + 1 \in 1 .. d + 1 /\ ~(d + 1 <= d) /\ d + 1 - d = 1
      OBVIOUS
    <2> QED
      BY <1>4, <1>5, <1>6, <2>1
  <1>8. \A k \in 1 .. d : (run \o end)[k] = ByteTop
    <2>1. \A k \in 1 .. d : k \in 1 .. d + 1 /\ k <= d
      OBVIOUS
    <2> QED
      BY <1>4, <1>5, <1>6, <2>1
  <1> QED
    BY <1>3, <1>4, <1>5, <1>6, <1>7, <1>8

LEMMA ExtendedIs ==
  ASSUME NEW v \in Nat
  PROVE  /\ Extended(v) \in Seq(Byte) /\ Len(Extended(v)) \in Nat
         /\ v < NibbleTop => Nibble(v) = v /\ Len(Extended(v)) = 0
         /\ v >= NibbleTop =>
              /\ Nibble(v) = NibbleTop
              /\ \E d, r \in Nat :
                   /\ d * ByteTop + r + NibbleTop = v /\ r < ByteTop /\ Len(Extended(v)) = d + 1
                   /\ Extended(v)[d + 1] = r /\ \A k \in 1 .. d : Extended(v)[k] = ByteTop
  <1>1. CASE v < NibbleTop
    BY <1>1, FrameConstants DEF Extended, Nibble
  <1>2. CASE v >= NibbleTop
    <2> DEFINE rest == v - NibbleTop
    <2>1. rest \in Nat /\ rest + NibbleTop = v /\ ByteTop \in Nat \ {0}
      BY <1>2, FrameConstants
    <2>2. Extended(v) = LengthBytes(rest) /\ Nibble(v) = NibbleTop
      <3>1. ~(v < NibbleTop)
        BY <1>2, FrameConstants
      <3> QED
        BY <1>2, <3>1 DEF Extended, Nibble
    <2> HIDE DEF rest
    <2>3. PICK d, r \in Nat : Leaves(rest, ByteTop, d, r)
      <3>1. rest \div ByteTop \in Nat
        BY <2>1, QuotientIsNatural
      <3>2. rest % ByteTop \in 0 .. ByteTop - 1 /\ rest = (rest \div ByteTop) * ByteTop + (rest % ByteTop)
        BY <2>1, Division
      <3>3. Leaves(rest, ByteTop, rest \div ByteTop, rest % ByteTop) /\ rest % ByteTop \in Nat
        BY <2>1, <3>1, <3>2 DEF Leaves
      <3> QED
        BY <3>1, <3>3
    <2>4. /\ LengthBytes(rest) \in Seq(Byte) /\ Len(LengthBytes(rest)) = d + 1
          /\ LengthBytes(rest)[d + 1] = r /\ \A k \in 1 .. d : LengthBytes(rest)[k] = ByteTop
      BY <2>3, LengthBytesAre
    <2>5. d * ByteTop + r + NibbleTop = v /\ r < ByteTop
      BY <2>1, <2>3 DEF Leaves
    <2>6. ~(v < NibbleTop) /\ d + 1 \in Nat
      BY <1>2, FrameConstants
    <2> QED
      BY <2>2, <2>3, <2>4, <2>5, <2>6
  <1> QED
    BY <1>1, <1>2, FrameConstants

\* readLength reads what writeLength wrote.
LEMMA LengthReads ==
  ASSUME body \in Seq(Byte), NEW v \in Nat, NEW q \in Nat, LiesAt(body, q, Extended(v))
  PROVE  LengthAt(Nibble(v), q) = {[length |-> v, after |-> q + Len(Extended(v))]}
  <1>1. CASE v < NibbleTop
    <2>1. Nibble(v) = v /\ Len(Extended(v)) = 0 /\ q + 0 = q
      BY <1>1, ExtendedIs
    <2> QED
      BY <1>1, <2>1 DEF LengthAt
  <1>2. CASE v >= NibbleTop
    <2>1. PICK d, r \in Nat :
            /\ d * ByteTop + r + NibbleTop = v /\ r < ByteTop /\ Len(Extended(v)) = d + 1
            /\ Extended(v)[d + 1] = r /\ \A k \in 1 .. d : Extended(v)[k] = ByteTop
      BY <1>2, ExtendedIs
    <2>2. Nibble(v) = NibbleTop /\ Len(body) \in Nat /\ q + (d + 1) <= Len(body)
          /\ \A k \in 1 .. d + 1 : body[q + k] = Extended(v)[k]
      BY <1>2, <2>1, ExtendedIs, LenProperties DEF LiesAt
    <2>3. body[q + d + 1] = r /\ body[q + d + 1] # ByteTop
      <3>1. d + 1 \in 1 .. d + 1 /\ q + (d + 1) = q + d + 1
        OBVIOUS
      <3> QED
        BY <2>1, <2>2, <3>1, FrameConstants
    <2>4. ASSUME NEW j \in q .. (q + d - 1) PROVE body[j + 1] = ByteTop
      <3>1. j + 1 - q \in 1 .. d /\ j + 1 - q \in 1 .. d + 1 /\ q + (j + 1 - q) = j + 1
        OBVIOUS
      <3> QED
        BY <2>1, <2>2, <3>1
    <2> DEFINE stop == { k \in q .. (Len(body) - 1) : body[k + 1] # ByteTop /\ \A j \in q .. (k - 1) : body[j + 1] = ByteTop }
    <2>5. stop = {q + d}
      <3>1. q + d \in stop
        <4>1. q + d \in q .. (Len(body) - 1)
          BY <2>2
        <4> QED
          BY <2>3, <2>4, <4>1
      <3>2. ASSUME NEW k \in stop PROVE k = q + d
        <4>1. k \in Nat /\ k >= q
          OBVIOUS
        <4>2. ~(k < q + d)
          BY <2>4, <4>1
        <4>3. ~(k > q + d)
          <5>1. k > q + d => q + d \in q .. (k - 1)
            BY <4>1
          <5> QED
            BY <2>3, <5>1, FrameConstants
        <4> QED
          BY <4>1, <4>2, <4>3
      <3> QED
        BY <3>1, <3>2
    <2>6. ReadLength(q) = { [length |-> (k - q) * ByteTop + body[k + 1], after |-> k + 1] : k \in stop }
      BY DEF ReadLength
    <2> HIDE DEF stop
    <2>7. ReadLength(q) = { [length |-> d * ByteTop + r, after |-> q + (d + 1)] }
      <3>1. (q + d) - q = d /\ (q + d) + 1 = q + (d + 1)
        OBVIOUS
      <3> QED
        BY <2>3, <2>5, <2>6, <3>1
    <2>8. LengthAt(NibbleTop, q) = { [x EXCEPT !.length = @ + NibbleTop] : x \in ReadLength(q) }
      BY FrameConstants DEF LengthAt
    <2>9. LengthAt(NibbleTop, q) = { [length |-> d * ByteTop + r + NibbleTop, after |-> q + (d + 1)] }
      BY <2>7, <2>8
    <2> QED
      BY <2>1, <2>2, <2>9
  <1> QED
    BY <1>1, <1>2, FrameConstants

\* The match of a sequence, as it is written; the last has none.
Extra(length) == IF length = 0 THEN 0 ELSE length - MinMatch
Token(literals, length) == Nibble(Len(literals)) * (NibbleTop + 1) + Nibble(Extra(length))
OffsetBytes(offset) == << offset % (ByteTop + 1), offset \div (ByteTop + 1) >>
MatchBytes(offset, length) == IF length = 0 THEN << >> ELSE OffsetBytes(offset) \o Extended(Extra(length))

IsLength(n) == n \in Nat /\ (n = 0 \/ n >= MinMatch)

LEMMA Joined ==
  ASSUME NEW u \in Seq(Byte), NEW v \in Seq(Byte)
  PROVE  u \o v \in Seq(Byte) /\ Len(u \o v) = Len(u) + Len(v) /\ Len(u) \in Nat /\ Len(v) \in Nat /\ Len(u \o v) \in Nat
  BY ConcatProperties, LenProperties

\* Two nibbles are a byte, and two bytes an offset.
LEMMA NibblesAre ==
  ASSUME NEW v \in Nat
  PROVE  Nibble(v) \in 0 .. NibbleTop
  BY FrameConstants DEF Nibble

LEMMA NibblesFit ==
  ASSUME NEW high \in 0 .. NibbleTop, NEW low \in 0 .. NibbleTop
  PROVE  high * (NibbleTop + 1) + low \in Byte
  <1>1. NibbleTop \in Nat /\ ByteTop = NibbleTop * (NibbleTop + 2) /\ high \in Nat /\ low \in Nat
    BY FrameAssumption
  <1>2. (NibbleTop - high) * (NibbleTop + 1) >= 0
    <2>1. \A x, y \in Nat : x * y >= 0
      OBVIOUS
    <2>2. NibbleTop - high \in Nat /\ NibbleTop + 1 \in Nat
      BY <1>1
    <2> QED
      BY <2>1, <2>2
  <1>3. (NibbleTop - high) * (NibbleTop + 1) = NibbleTop * (NibbleTop + 1) - high * (NibbleTop + 1)
    BY <1>1
  <1>4. NibbleTop * (NibbleTop + 2) = NibbleTop * (NibbleTop + 1) + NibbleTop
    BY <1>1
  <1>5. high * (NibbleTop + 1) \in Nat /\ NibbleTop * (NibbleTop + 1) \in Nat
    BY <1>1
  <1>6. high * (NibbleTop + 1) + low >= 0 /\ high * (NibbleTop + 1) + low <= ByteTop /\ low <= NibbleTop
    BY <1>1, <1>2, <1>3, <1>4, <1>5
  <1> QED
    BY <1>1, <1>5, <1>6 DEF Byte

LEMMA OffsetFits ==
  ASSUME NEW offset \in 0 .. MaxOffset
  PROVE  /\ OffsetBytes(offset) \in Seq(Byte) /\ Len(OffsetBytes(offset)) = 2
         /\ OffsetBytes(offset)[1] + OffsetBytes(offset)[2] * (ByteTop + 1) = offset
  <1> DEFINE M == ByteTop + 1
             q == offset \div M
             low == offset % M
  <1>1. M \in Nat \ {0} /\ offset \in Nat /\ offset <= MaxOffset /\ MaxOffset \in Nat
    BY FrameConstants
  <1>2. MaxOffset < M * M
    BY FrameAssumption
  <1>3. M = ByteTop + 1
    OBVIOUS
  <1> HIDE DEF M
  <1>4. low \in 0 .. M - 1 /\ offset = q * M + low
    BY <1>1, Division
  <1>5. q \in Nat
    BY <1>1, QuotientIsNatural
  <1>6. OffsetBytes(offset) = << low, q >>
    BY DEF OffsetBytes, M
  <1> HIDE DEF q, low
  <1>7. ~(q >= M)
    <2>1. ASSUME q >= M PROVE FALSE
      <3>1. (q - M) * M >= 0
        <4>1. \A x, y \in Nat : x * y >= 0
          OBVIOUS
        <4>2. q - M \in Nat
          BY <1>1, <1>5, <2>1
        <4> QED
          BY <1>1, <4>1, <4>2
      <3>2. (q - M) * M = q * M - M * M
        BY <1>1, <1>5
      <3>3. q * M \in Nat /\ M * M \in Nat
        BY <1>1, <1>5
      <3> QED
        BY <1>1, <1>2, <1>4, <3>1, <3>2, <3>3
    <2> QED
      BY <2>1
  <1>8. low \in Byte /\ q \in Byte
    BY <1>1, <1>3, <1>4, <1>5, <1>7, FrameConstants DEF Byte
  <1>9. low \in Nat /\ q * M \in Nat
    BY <1>1, <1>4, <1>5
  <1>10. low + q * M = offset
    BY <1>1, <1>4, <1>9
  <1> QED
    BY <1>3, <1>6, <1>8, <1>10

LEMMA WrittenIs ==
  ASSUME NEW literals \in Seq(Byte), NEW offset \in 0 .. MaxOffset, NEW length, IsLength(length)
  PROVE  /\ Written(literals, offset, length)
              = ((<< Token(literals, length) >> \o Extended(Len(literals))) \o literals) \o MatchBytes(offset, length)
         /\ << Token(literals, length) >> \in Seq(Byte) /\ Len(literals) \in Nat /\ Extended(Len(literals)) \in Seq(Byte)
         /\ Extra(length) \in Nat /\ Extended(Extra(length)) \in Seq(Byte)
         /\ MatchBytes(offset, length) \in Seq(Byte)
         /\ Written(literals, offset, length) \in Seq(Byte) /\ Len(Written(literals, offset, length)) >= 1
         /\ Len(Written(literals, offset, length)) \in Nat
  <1>1. Len(literals) \in Nat /\ Extra(length) \in Nat /\ length \in Nat
    BY LenProperties, FrameConstants DEF IsLength, Extra
  <1>2. Extended(Len(literals)) \in Seq(Byte) /\ Extended(Extra(length)) \in Seq(Byte)
    BY <1>1, ExtendedIs
  <1>3. Token(literals, length) \in Byte
    BY <1>1, NibblesAre, NibblesFit DEF Token
  <1>4. OffsetBytes(offset) \in Seq(Byte)
    BY OffsetFits
  <1>5. MatchBytes(offset, length) \in Seq(Byte)
    <2>1. OffsetBytes(offset) \o Extended(Extra(length)) \in Seq(Byte)
      BY <1>2, <1>4, Joined
    <2>2. << >> \in Seq(Byte)
      BY EmptySeq
    <2> QED
      BY <2>1, <2>2 DEF MatchBytes
  <1> DEFINE head == << Token(literals, length) >>
             long == Extended(Len(literals))
             tail == MatchBytes(offset, length)
             first == head \o long
             second == first \o literals
             all == second \o tail
  <1>6. Written(literals, offset, length) = all
    BY DEF Written, Token, Extra, MatchBytes, OffsetBytes
  <1>7. head \in Seq(Byte) /\ Len(head) = 1
    BY <1>3
  <1>8. long \in Seq(Byte) /\ tail \in Seq(Byte)
    BY <1>2, <1>5
  <1> HIDE DEF head, long, tail
  <1>9. first \in Seq(Byte) /\ Len(first) >= 1 /\ Len(first) \in Nat
    <2>1. first \in Seq(Byte) /\ Len(first) = Len(head) + Len(long) /\ Len(long) \in Nat
      BY <1>7, <1>8, Joined
    <2> QED
      BY <1>7, <2>1
  <1> HIDE DEF first
  <1>10. second \in Seq(Byte) /\ Len(second) >= 1 /\ Len(second) \in Nat
    <2>1. second \in Seq(Byte) /\ Len(second) = Len(first) + Len(literals)
      BY <1>9, Joined
    <2> QED
      BY <1>1, <1>9, <2>1
  <1> HIDE DEF second
  <1>11. all \in Seq(Byte) /\ Len(all) >= 1 /\ Len(all) \in Nat
    <2>1. all \in Seq(Byte) /\ Len(all) = Len(second) + Len(tail) /\ Len(tail) \in Nat
      BY <1>8, <1>10, Joined
    <2> QED
      BY <1>10, <2>1
  <1> QED
    BY <1>1, <1>2, <1>5, <1>6, <1>7, <1>11 DEF head, long, tail, first, second, all

\* Where the literals of a sequence are, and where they end.
LiteralsAt(p, literals, q, a) == q = p + 1 + Len(Extended(Len(literals))) /\ a = q + Len(literals)

\* A sequence that lies at p.
SequenceAt(text, p, literals, offset, length, q, a) ==
  /\ text \in Seq(Byte) /\ p \in Nat /\ literals \in Seq(Byte) /\ offset \in 0 .. MaxOffset /\ IsLength(length)
  /\ LiesAt(text, p, Written(literals, offset, length)) /\ LiteralsAt(p, literals, q, a)

\* Where the parts of a sequence are that lies in the block.
LEMMA WrittenParts ==
  ASSUME NEW text, NEW p, NEW literals, NEW offset, NEW length, NEW q, NEW a, SequenceAt(text, p, literals, offset, length, q, a)
  PROVE  /\ p + 1 <= Len(text) /\ text[p + 1] = Token(literals, length)
         /\ LiesAt(text, p + 1, Extended(Len(literals)))
         /\ LiesAt(text, q, literals)
         /\ LiesAt(text, a, MatchBytes(offset, length))
         /\ q \in Nat /\ a \in Nat /\ a <= Len(text)
         /\ p + Len(Written(literals, offset, length)) = a + Len(MatchBytes(offset, length))
  <1> DEFINE head == << Token(literals, length) >>
             long == Extended(Len(literals))
             tail == MatchBytes(offset, length)
             first == head \o long
             second == first \o literals
  <1>0. /\ text \in Seq(Byte) /\ p \in Nat /\ literals \in Seq(Byte) /\ offset \in 0 .. MaxOffset /\ IsLength(length)
        /\ LiesAt(text, p, Written(literals, offset, length)) /\ LiteralsAt(p, literals, q, a)
    BY DEF SequenceAt
  <1> USE <1>0
  <1>1. head \in Seq(Byte) /\ long \in Seq(Byte) /\ tail \in Seq(Byte) /\ Written(literals, offset, length) = second \o tail
    BY WrittenIs
  <1>2. Len(head) = 1 /\ head[1] = Token(literals, length) /\ q = p + 1 + Len(long) /\ a = q + Len(literals)
    BY DEF LiteralsAt
  <1>3. /\ LiesAt(text, p, second \o tail)
        /\ p + Len(Written(literals, offset, length)) = p + Len(second \o tail)
    BY <1>1
  <1> HIDE DEF head, long, tail
  <1>4. first \in Seq(Byte) /\ Len(first) = 1 + Len(long) /\ Len(long) \in Nat /\ Len(first) \in Nat
    <2>1. first \in Seq(Byte) /\ Len(first) = Len(head) + Len(long) /\ Len(long) \in Nat /\ Len(first) \in Nat
      BY <1>1, Joined
    <2> HIDE DEF first
    <2> QED
      BY <1>2, <2>1
  <1>5. second \in Seq(Byte) /\ Len(second) = Len(first) + Len(literals) /\ Len(literals) \in Nat
    <2> HIDE DEF first
    <2> QED
      BY <1>4, Joined
  <1>6. LiesAt(text, p, second) /\ LiesAt(text, p + Len(second), tail) /\ p + Len(second \o tail) = p + Len(second) + Len(tail)
    <2>1. second \in Seq(Byte) /\ tail \in Seq(Byte) /\ LiesAt(text, p, second \o tail)
      BY <1>1, <1>3, <1>5
    <2> HIDE DEF second
    <2> QED
      BY <2>1, LiesApart
  <1>7. LiesAt(text, p, first) /\ LiesAt(text, p + Len(first), literals)
    <2> HIDE DEF first
    <2> QED
      BY <1>4, <1>6, LiesApart
  <1>8. LiesAt(text, p, head) /\ LiesAt(text, p + 1, long)
    BY <1>1, <1>2, <1>7, LiesApart
  <1> HIDE DEF first, second
  <1>9. q = p + Len(first) /\ q \in Nat
    BY <1>2, <1>4
  <1>10. a = p + Len(second) /\ a \in Nat
    <2>1. \A x, y \in Nat : (p + x) + y = p + (x + y) /\ p + (x + y) \in Nat
      OBVIOUS
    <2>2. a = (p + Len(first)) + Len(literals)
      BY <1>2, <1>9
    <2>3. Len(first) \in Nat /\ Len(literals) \in Nat /\ Len(second) = Len(first) + Len(literals)
      BY <1>4, <1>5
    <2> QED
      BY <2>1, <2>2, <2>3
  <1>11. p + 1 <= Len(text) /\ text[p + 1] = Token(literals, length)
    BY <1>2, <1>8 DEF LiesAt
  <1>12. a <= Len(text)
    <2>1. p + Len(second) <= Len(text)
      BY <1>6 DEF LiesAt
    <2> QED
      BY <1>10, <2>1
  <1> QED
    BY <1>3, <1>6, <1>7, <1>8, <1>9, <1>10, <1>11, <1>12 DEF long, tail

\* A token is its two nibbles.
LEMMA TokenIs ==
  ASSUME NEW literals \in Seq(Byte), NEW length, IsLength(length)
  PROVE  /\ Token(literals, length) \div (NibbleTop + 1) = Nibble(Len(literals))
         /\ Token(literals, length) % (NibbleTop + 1) = Nibble(Extra(length))
  <1>1. Nibble(Len(literals)) \in Nat /\ Nibble(Extra(length)) \in 0 .. NibbleTop
    <2>1. Len(literals) \in Nat /\ Extra(length) \in Nat
      BY LenProperties, FrameConstants DEF IsLength, Extra
    <2> QED
      BY <2>1, FrameConstants DEF Nibble
  <1>2. Leaves(Token(literals, length), NibbleTop + 1, Nibble(Len(literals)), Nibble(Extra(length)))
    <2>1. NibbleTop + 1 \in Nat \ {0} /\ Nibble(Extra(length)) \in 0 .. (NibbleTop + 1) - 1
      BY <1>1, FrameConstants
    <2>2. \A x, y, z \in Nat : x * y + z \in Int
      OBVIOUS
    <2>3. Nibble(Extra(length)) \in Nat /\ NibbleTop + 1 \in Nat
      BY <1>1, <2>1
    <2>4. Token(literals, length) \in Int
      BY <1>1, <2>2, <2>3 DEF Token
    <2> QED
      BY <1>1, <2>1, <2>4 DEF Leaves, Token
  <1> QED
    BY <1>2, QuotientIs, RemainderIs

----------------------------------------------------------------------------
\* The payload, and its parts.
LEMMA GreatestNumber ==
  ASSUME NEW n \in Nat, NEW S, S \subseteq 0 .. n, S # {}
  PROVE  Max(S) \in S /\ \A m \in S : m <= Max(S)
  <1> DEFINE D == { n - x : x \in S }
  <1>1. D \subseteq Nat /\ D # {}
    <2>1. ASSUME NEW x \in S PROVE n - x \in Nat
      OBVIOUS
    <2> QED
      BY <2>1
  <1>2. PICK d \in D : \A e \in D : d <= e
    <2> HIDE DEF D
    <2> QED
      BY <1>1, LeastNumber
  <1>3. PICK x \in S : d = n - x
    OBVIOUS
  <1>4. ASSUME NEW m \in S PROVE x >= m
    <2>1. n - m \in D
      OBVIOUS
    <2>2. n - x <= n - m
      <3> HIDE DEF D
      <3> QED
        BY <1>2, <1>3, <2>1
    <2> HIDE DEF D
    <2>3. x \in Int /\ m \in Int
      OBVIOUS
    <2> QED
      BY <2>2, <2>3
  <1>5. Max(S) \in S /\ \A m \in S : Max(S) >= m
    BY <1>4 DEF Max
  <1>6. \A m, k \in Int : m >= k => k <= m
    OBVIOUS
  <1> QED
    BY <1>5, <1>6

LEMMA PartOf ==
  ASSUME NEW S, NEW seq \in Seq(S), NEW m \in Nat, NEW n \in Nat, m <= n, n <= Len(seq)
  PROVE  /\ SubSeq(seq, m + 1, n) \in Seq(S) /\ Len(SubSeq(seq, m + 1, n)) = n - m
         /\ \A k \in 1 .. n - m : SubSeq(seq, m + 1, n)[k] = seq[m + k]
  <1>1. Len(seq) \in Nat /\ seq \in [1 .. Len(seq) -> S]
    BY LenProperties
  <1>2. ASSUME NEW i \in m + 1 .. n PROVE seq[i] \in S
    <2>1. i \in 1 .. Len(seq)
      BY <1>1
    <2> QED
      BY <1>1, <2>1
  <1>3. /\ SubSeq(seq, m + 1, n) \in Seq(S)
        /\ Len(SubSeq(seq, m + 1, n)) = IF m + 1 <= n THEN n - (m + 1) + 1 ELSE 0
        /\ \A i \in 1 .. n - (m + 1) + 1 : SubSeq(seq, m + 1, n)[i] = seq[(m + 1) + i - 1]
    <2>1. m + 1 \in Int /\ n \in Int
      OBVIOUS
    <2> QED
      BY <1>2, <2>1, SubSeqProperties
  <1>4. n - (m + 1) + 1 = n - m /\ \A k \in 1 .. n - m : (m + 1) + k - 1 = m + k
    OBVIOUS
  <1>5. Len(SubSeq(seq, m + 1, n)) = n - m
    BY <1>3
  <1> QED
    BY <1>3, <1>4, <1>5

LEMMA PayloadIs ==
  ASSUME NEW bytes \in Seq(Alphabet), raw = {bytes}
  PROVE  /\ Bytes = bytes /\ PayloadSize = Len(bytes) /\ PayloadSize \in Nat
         /\ bytes \in Seq(Byte) /\ bytes \in [1 .. Len(bytes) -> Alphabet]
  <1>1. Len(bytes) \in Nat /\ bytes \in [1 .. Len(bytes) -> Alphabet] /\ DOMAIN bytes = 1 .. Len(bytes)
    BY LenProperties
  <1>2. Payload = 1 .. Len(bytes)
    BY <1>1 DEF Payload
  <1>3. Cardinality(1 .. Len(bytes)) = Len(bytes)
    BY <1>1, FS_Interval
  <1>4. bytes \in Seq(Byte)
    <2>1. bytes \in [1 .. Len(bytes) -> Byte]
      BY <1>1, FrameConstants
    <2> QED
      BY <1>1, <2>1, SeqDef
  <1>5. Bytes = bytes
    BY DEF Bytes
  <1> QED
    BY <1>1, <1>2, <1>3, <1>4, <1>5 DEF PayloadSize

LEMMA NoPayload == ASSUME raw = {} PROVE PayloadSize = 0
  <1>1. Payload = {}
    BY DEF Payload
  <1> QED
    BY <1>1, FS_EmptySet DEF PayloadSize

\* The next bytes to search for.
LEMMA ReadIs ==
  ASSUME NEW bytes \in Seq(Alphabet), raw = {bytes}, NEW i \in Nat, i + MinMatch <= Len(bytes)
  PROVE  Read(i) \in [1 .. MinMatch -> Alphabet] /\ \A k \in 1 .. MinMatch : Read(i)[k] = bytes[i + k]
  <1>1. Bytes = bytes /\ Len(bytes) \in Nat /\ MinMatch \in Nat
    BY PayloadIs, LenProperties, FrameConstants
  <1>2. i + MinMatch \in Nat /\ i <= i + MinMatch /\ i + MinMatch - i = MinMatch
    BY <1>1
  <1> DEFINE j == i + MinMatch
  <1>3. /\ SubSeq(bytes, i + 1, j) \in Seq(Alphabet) /\ Len(SubSeq(bytes, i + 1, j)) = j - i
        /\ \A k \in 1 .. j - i : SubSeq(bytes, i + 1, j)[k] = bytes[i + k]
    <2>1. j \in Nat /\ i <= j /\ j <= Len(bytes)
      BY <1>2
    <2> HIDE DEF j
    <2> QED
      BY <2>1, PartOf
  <1>4. Read(i) = SubSeq(bytes, i + 1, j)
    BY <1>1 DEF Read
  <1>5. j - i = MinMatch
    BY <1>1
  <1> HIDE DEF j
  <1>6. Read(i) \in Seq(Alphabet) /\ Len(Read(i)) = MinMatch /\ \A k \in 1 .. MinMatch : Read(i)[k] = bytes[i + k]
    BY <1>3, <1>4, <1>5
  <1> QED
    BY <1>6, LenProperties

\* A match: bytes that repeat those an offset before them.
MatchAt(bytes, s, o, n) == o \in 1 .. s /\ o <= MaxOffset /\ n \in Nat /\ n >= MinMatch /\ s + n <= Len(bytes) /\ Repeating(bytes, s, o, n)

\* A candidate with the same bytes makes a match, and it ends before the last literals.
LEMMA MatchFound ==
  ASSUME NEW bytes \in Seq(Alphabet), raw = {bytes}, NEW i \in Nat, NEW c \in Nat, c < i, i < PayloadSize - MfLimit, i - c <= MaxOffset,
         Read(c) = Read(i)
  PROVE  MatchAt(bytes, i, i - c, MatchLength(i, c)) /\ i + MatchLength(i, c) <= PayloadSize - LastLiterals
  <1>1. /\ Bytes = bytes /\ PayloadSize = Len(bytes) /\ PayloadSize \in Nat
        /\ MinMatch \in Nat \ {0} /\ LastLiterals \in Nat \ {0} /\ MfLimit \in Nat /\ MfLimit >= MinMatch + LastLiterals
    BY PayloadIs, FrameConstants
  <1> DEFINE Lengths == { n \in MinMatch .. PayloadSize :
                 \A k \in MinMatch .. (n - 1) : i + k < MatchLimit /\ Bytes[i + k + 1] = Bytes[c + k + 1] }
             len == MatchLength(i, c)
  <1>2. len \in Lengths
    <2>1. MinMatch \in Lengths
      <3>1. MinMatch \in MinMatch .. PayloadSize
        BY <1>1
      <3>2. MinMatch .. (MinMatch - 1) = {}
        BY <1>1
      <3> QED
        BY <3>1, <3>2
    <2>2. Lengths \subseteq 0 .. PayloadSize
      BY <1>1
    <2>3. len = Max(Lengths)
      BY DEF MatchLength
    <2> HIDE DEF Lengths, len
    <2> QED
      BY <1>1, <2>1, <2>2, <2>3, GreatestNumber
  <1>3. /\ len \in Nat /\ len >= MinMatch
        /\ \A k \in MinMatch .. (len - 1) : i + k < PayloadSize - LastLiterals /\ bytes[i + k + 1] = bytes[c + k + 1]
    <2> HIDE DEF len
    <2>1. len \in MinMatch .. PayloadSize
      BY <1>2
    <2>2. \A k \in MinMatch .. (len - 1) : i + k < MatchLimit /\ Bytes[i + k + 1] = Bytes[c + k + 1]
      BY <1>2
    <2>3. \A k \in MinMatch .. (len - 1) : i + k < PayloadSize - LastLiterals /\ bytes[i + k + 1] = bytes[c + k + 1]
      BY <1>1, <2>2 DEF MatchLimit
    <2>4. len \in Nat /\ len >= MinMatch
      BY <1>1, <2>1
    <2> QED
      BY <2>3, <2>4
  <1> HIDE DEF Lengths, len
  <1>4. i + len <= PayloadSize - LastLiterals
    <2>1. CASE len = MinMatch
      BY <1>1, <1>3, <2>1
    <2>2. CASE len > MinMatch
      <3>1. len - 1 \in MinMatch .. (len - 1)
        BY <1>1, <1>3, <2>2
      <3>2. i + (len - 1) < PayloadSize - LastLiterals
        BY <1>3, <3>1
      <3> QED
        BY <1>1, <1>3, <3>2
    <2> QED
      BY <1>1, <1>3, <2>1, <2>2
  <1>5. ASSUME NEW k \in 1 .. len PROVE bytes[i + k] = bytes[i + k - (i - c)]
    <2>1. i + k - (i - c) = c + k
      BY <1>3
    <2>2. CASE k <= MinMatch
      <3>1. i + MinMatch <= Len(bytes) /\ c + MinMatch <= Len(bytes) /\ k \in 1 .. MinMatch
        BY <1>1, <1>3, <2>2
      <3>2. Read(i)[k] = bytes[i + k]
        BY <3>1, ReadIs
      <3>3. Read(c)[k] = bytes[c + k]
        BY <3>1, ReadIs
      <3> QED
        BY <2>1, <3>2, <3>3
    <2>3. CASE k > MinMatch
      <3>1. k - 1 \in MinMatch .. (len - 1) /\ i + (k - 1) + 1 = i + k /\ c + (k - 1) + 1 = c + k
        BY <1>1, <1>3, <2>3
      <3> QED
        BY <1>3, <2>1, <3>1
    <2> QED
      BY <1>1, <1>3, <2>2, <2>3
  <1>6. i - c \in 1 .. i /\ i + len <= Len(bytes)
    BY <1>1, <1>3, <1>4
  <1> QED
    BY <1>3, <1>4, <1>5, <1>6 DEF MatchAt, Repeating, len

----------------------------------------------------------------------------
\* Types.
PayloadType == raw = {} \/ \E bytes \in Seq(Alphabet) : raw = {bytes} /\ Len(bytes) <= Longest

MatchesEnd == \A m \in matches : m.from < PayloadSize - MfLimit /\ m.to <= PayloadSize - LastLiterals

Searching ==
  /\ raw # {} /\ pos = 0 /\ back = << >> /\ anchor <= scan /\ scan <= PayloadSize
  /\ \A s \in 0 .. (Slots - 1) : table[s] < scan

FramesInv ==
  /\ doing \in {"compress", "decompress", "done", "failed"} /\ PayloadType /\ MatchesEnd
  /\ body \in Seq(Byte) /\ back \in Seq(Byte)
  /\ scan \in Nat /\ anchor \in Nat /\ pos \in Nat /\ allowed \in Nat
  /\ table \in [0 .. (Slots - 1) -> -1 .. Longest]
  /\ doing = "compress" => Searching
  /\ doing = "decompress" => Len(back) <= allowed

LEMMA BoundedIs ==
  ASSUME NEW S, NEW n \in Nat, NEW bytes \in BoundedSeq(S, n)
  PROVE  bytes \in Seq(S) /\ Len(bytes) <= n
  <1>1. PICK m \in 0 .. n : bytes \in [1 .. m -> S]
    BY DEF BoundedSeq, SeqOf
  <1>2. m \in Nat /\ bytes \in Seq(S)
    BY <1>1, SeqDef
  <1>3. Len(bytes) = m
    BY <1>1, <1>2, LenProperties
  <1> QED
    BY <1>1, <1>2, <1>3

LEMMA ByteSequences == ASSUME NEW S, S \subseteq Byte, NEW bytes \in Seq(S) PROVE bytes \in Seq(Byte)
  <1>1. Len(bytes) \in Nat /\ bytes \in [1 .. Len(bytes) -> S]
    BY LenProperties
  <1>2. bytes \in [1 .. Len(bytes) -> Byte]
    BY <1>1
  <1> QED
    BY <1>1, <1>2, SeqDef

LEMMA FramesStarts == FramesInit => FramesInv
  <1> SUFFICES ASSUME FramesInit PROVE FramesInv
    OBVIOUS
  <1>1. scan = 0 /\ anchor = 0 /\ matches = {} /\ back = << >> /\ pos = 0 /\ table = [s \in 0 .. (Slots - 1) |-> -1]
    BY DEF FramesInit
  <1>2. << >> \in Seq(Byte) /\ Len(<< >>) = 0
    BY EmptySeq
  <1>3. MatchesEnd
    BY <1>1 DEF MatchesEnd
  <1>4. table \in [0 .. (Slots - 1) -> -1 .. Longest]
    <2>1. -1 \in -1 .. Longest
      BY FrameConstants
    <2> QED
      BY <1>1, <2>1
  <1>5. CASE doing = "compress"
    <2>1. PICK bytes \in BoundedSeq(Alphabet, Longest) : raw = {bytes}
      BY <1>5 DEF FramesInit
    <2>2. bytes \in Seq(Alphabet) /\ Len(bytes) <= Longest
      BY BoundedIs, FrameConstants
    <2>3. PayloadType
      BY <2>1, <2>2 DEF PayloadType
    <2>4. body = << >> /\ allowed = 0
      BY <1>5 DEF FramesInit
    <2>5. Searching
      <3>1. PayloadSize \in Nat /\ raw # {}
        BY <2>1, <2>2, PayloadIs
      <3> QED
        BY <1>1, <3>1 DEF Searching
    <2> QED
      BY <1>1, <1>2, <1>3, <1>4, <1>5, <2>3, <2>4, <2>5 DEF FramesInv
  <1>6. CASE doing # "compress"
    <2>1. raw = {} /\ doing = "decompress" /\ body \in BoundedSeq(Foreign, LongestForeign) /\ allowed \in 0 .. Longest
      BY <1>6 DEF FramesInit
    <2>2. body \in Seq(Byte)
      <3>1. body \in Seq(Foreign)
        BY <2>1, BoundedIs, FrameConstants
      <3> QED
        BY <3>1, ByteSequences, FrameConstants
    <2>3. PayloadType /\ allowed \in Nat /\ Len(back) <= allowed
      BY <1>1, <1>2, <2>1, FrameConstants DEF PayloadType
    <2> QED
      BY <1>1, <1>2, <1>3, <1>4, <1>6, <2>1, <2>2, <2>3 DEF FramesInv
  <1> QED
    BY <1>5, <1>6

LEMMA PayloadKept ==
  ASSUME raw' = raw
  PROVE  PayloadSize' = PayloadSize /\ Bytes' = Bytes /\ (PayloadType => PayloadType')
  <1>1. Payload' = Payload
    BY DEF Payload
  <1> QED
    BY <1>1 DEF PayloadSize, Bytes, PayloadType

\* The payload that a search is about.
LEMMA PayloadThere ==
  ASSUME FramesInv, raw # {}
  PROVE  \E bytes \in Seq(Alphabet) : raw = {bytes} /\ Len(bytes) <= Longest
  BY DEF FramesInv, PayloadType

LEMMA FramesSearch == ASSUME FramesInv, Search PROVE FramesInv'
  <1>1. /\ doing = "compress" /\ scan < PayloadSize - MfLimit /\ Searching
        /\ UNCHANGED << doing, raw, allowed, back, pos >>
    BY DEF FramesInv, Search
  <1>2. PICK bytes \in Seq(Alphabet) : raw = {bytes} /\ Len(bytes) <= Longest
    BY <1>1, PayloadThere DEF Searching
  <1>3. /\ Bytes = bytes /\ PayloadSize = Len(bytes) /\ PayloadSize \in Nat /\ bytes \in Seq(Byte)
        /\ MinMatch \in Nat \ {0} /\ LastLiterals \in Nat \ {0} /\ MfLimit \in Nat /\ MfLimit >= MinMatch + LastLiterals
        /\ Longest \in Nat /\ MaxOffset \in Nat /\ Slots \in Nat \ {0}
    BY <1>2, PayloadIs, FrameConstants
  <1>4. scan \in Nat /\ anchor \in Nat /\ anchor <= scan /\ scan <= PayloadSize /\ body \in Seq(Byte) /\ back \in Seq(Byte)
    BY <1>1 DEF FramesInv, Searching
  <1> DEFINE slot == SlotOf[Read(scan)]
             candidate == table[slot]
             length == MatchLength(scan, candidate)
  <1>5. slot \in 0 .. (Slots - 1)
    <2>1. scan + MinMatch <= Len(bytes)
      BY <1>1, <1>3, <1>4
    <2>2. Read(scan) \in [1 .. MinMatch -> Alphabet]
      BY <1>2, <1>4, <2>1, ReadIs
    <2> QED
      BY <2>2, FrameConstants
  <1>6. candidate \in -1 .. Longest /\ candidate < scan
    BY <1>1, <1>5 DEF FramesInv, Searching
  <1>7. table' = [table EXCEPT ![slot] = scan]
    BY DEF Search
  <1>8. IF candidate < 0 \/ scan - candidate > MaxOffset \/ Read(candidate) # Read(scan)
        THEN scan' = scan + 1 /\ UNCHANGED << anchor, matches, body >>
        ELSE /\ body' = body \o Written(SubSeq(Bytes, anchor + 1, scan), scan - candidate, length)
             /\ matches' = matches \cup {[from |-> scan, to |-> scan + length]}
             /\ scan' = scan + length
             /\ anchor' = scan + length
    BY DEF Search
  <1> HIDE DEF slot, candidate, length
  <1>9. table' \in [0 .. (Slots - 1) -> -1 .. Longest] /\ \A s \in 0 .. (Slots - 1) : table'[s] <= scan /\ table'[s] \in Int
    <2>1. table \in [0 .. (Slots - 1) -> -1 .. Longest] /\ \A s \in 0 .. (Slots - 1) : table[s] < scan
      BY <1>1 DEF FramesInv, Searching
    <2>2. scan \in -1 .. Longest
      BY <1>1, <1>2, <1>3, <1>4
    <2>3. table' \in [0 .. (Slots - 1) -> -1 .. Longest]
      BY <1>7, <2>1, <2>2
    <2>4. ASSUME NEW s \in 0 .. (Slots - 1) PROVE table'[s] <= scan /\ table'[s] \in Int
      <3>1. table'[s] = IF s = slot THEN scan ELSE table[s]
        BY <1>7, <2>1
      <3>2. table[s] \in -1 .. Longest /\ table[s] < scan
        BY <2>1
      <3>3. table[s] \in Int
        BY <3>2
      <3> QED
        BY <1>4, <3>1, <3>2, <3>3
    <2> QED
      BY <2>3, <2>4
  <1>10. PayloadSize' = PayloadSize /\ PayloadType'
    BY <1>1, PayloadKept DEF FramesInv
  <1>11. ASSUME scan' \in Nat, scan' > scan, scan' <= PayloadSize, anchor' \in Nat, anchor' <= scan', body' \in Seq(Byte), MatchesEnd'
         PROVE  FramesInv'
    <2>1. \A s \in 0 .. (Slots - 1) : table'[s] < scan'
      BY <1>4, <1>9, <1>11
    <2>2. Searching'
      BY <1>1, <1>10, <1>11, <2>1 DEF Searching
    <2> QED
      BY <1>1, <1>4, <1>9, <1>10, <1>11, <2>2 DEF FramesInv
  <1>12. CASE candidate < 0 \/ scan - candidate > MaxOffset \/ Read(candidate) # Read(scan)
    <2>1. scan' = scan + 1 /\ anchor' = anchor /\ matches' = matches /\ body' = body
      BY <1>8, <1>12
    <2>2. MatchesEnd'
      BY <1>10, <2>1 DEF FramesInv, MatchesEnd
    <2>3. anchor' <= scan' /\ scan' > scan /\ scan' <= PayloadSize /\ scan' \in Nat
      BY <1>1, <1>3, <1>4, <2>1
    <2> QED
      BY <1>4, <1>11, <2>1, <2>2, <2>3
  <1>13. CASE ~ (candidate < 0 \/ scan - candidate > MaxOffset \/ Read(candidate) # Read(scan))
    <2>1. candidate \in Nat /\ scan - candidate \in 0 .. MaxOffset /\ scan - candidate <= MaxOffset /\ Read(candidate) = Read(scan)
      BY <1>3, <1>4, <1>6, <1>13
    <2>2. MatchAt(bytes, scan, scan - candidate, length) /\ scan + length <= PayloadSize - LastLiterals
      BY <1>1, <1>2, <1>4, <1>6, <2>1, MatchFound DEF length
    <2>3. length \in Nat /\ length >= MinMatch /\ IsLength(length)
      BY <2>2 DEF MatchAt, IsLength
    <2>4. /\ body' = body \o Written(SubSeq(bytes, anchor + 1, scan), scan - candidate, length)
          /\ matches' = matches \cup {[from |-> scan, to |-> scan + length]}
          /\ scan' = scan + length /\ anchor' = scan + length
      BY <1>3, <1>8, <1>13
    <2>5. body' \in Seq(Byte)
      <3>1. SubSeq(bytes, anchor + 1, scan) \in Seq(Byte)
        BY <1>3, <1>4, PartOf
      <3>2. Written(SubSeq(bytes, anchor + 1, scan), scan - candidate, length) \in Seq(Byte)
        BY <2>1, <2>3, <3>1, WrittenIs
      <3> QED
        BY <1>4, <2>4, <3>2, Joined
    <2>6. MatchesEnd'
      <3>1. ASSUME NEW m \in matches' PROVE m.from < PayloadSize - MfLimit /\ m.to <= PayloadSize - LastLiterals
        <4>1. m \in matches \/ m = [from |-> scan, to |-> scan + length]
          BY <2>4
        <4> QED
          BY <1>1, <2>2, <4>1 DEF FramesInv, MatchesEnd
      <3> QED
        BY <1>10, <3>1 DEF MatchesEnd
    <2>7. scan' \in Nat /\ scan' > scan /\ scan' <= PayloadSize /\ anchor' \in Nat /\ anchor' <= scan'
      BY <1>3, <1>4, <2>2, <2>3, <2>4
    <2> QED
      BY <1>11, <2>5, <2>6, <2>7
  <1> QED
    BY <1>12, <1>13

\* The last sequence of a block, and the room its header leaves for it.
LEMMA BlockIs ==
  ASSUME NEW text \in Seq(Byte), NEW literals \in Seq(Byte), NEW block, block = text \o Written(literals, 0, 0), PayloadSize \in Nat
  PROVE  /\ block \in Seq(Byte) /\ Len(block) >= 1 /\ MaxOutput(block) \in Nat
         /\ PayloadSize <= MaxDecompressed => PayloadSize <= MaxOutput(block)
  <1>1. IsLength(0) /\ 0 \in 0 .. MaxOffset /\ MaxDecompressed \in Nat
    BY FrameConstants DEF IsLength
  <1>2. Written(literals, 0, 0) \in Seq(Byte) /\ Len(Written(literals, 0, 0)) >= 1 /\ Len(Written(literals, 0, 0)) \in Nat
    BY <1>1, WrittenIs
  <1>3. block \in Seq(Byte) /\ Len(block) = Len(text) + Len(Written(literals, 0, 0)) /\ Len(text) \in Nat
    BY <1>2, Joined
  <1>4. Len(block) \in Nat \ {0}
    BY <1>2, <1>3
  <1>5. Factor(block) * Len(block) >= PayloadSize /\ Factor(block) \in Nat
    BY <1>4, RoundedUp DEF Factor
  <1>6. Factor(block) * Len(block) \in Nat
    BY <1>4, <1>5
  <1>7. PayloadSize <= Factor(block) * Len(block)
    BY <1>5, <1>6
  <1> QED
    BY <1>1, <1>3, <1>4, <1>6, <1>7 DEF MaxOutput

LEMMA FramesEncode == ASSUME FramesInv, Encode PROVE FramesInv'
  <1>1. doing = "compress" /\ Searching /\ UNCHANGED << raw, scan, anchor, table, matches, pos >>
    BY DEF FramesInv, Encode
  <1>2. PICK bytes \in Seq(Alphabet) : raw = {bytes} /\ Len(bytes) <= Longest
    BY <1>1, PayloadThere DEF Searching
  <1>3. Bytes = bytes /\ PayloadSize = Len(bytes) /\ PayloadSize \in Nat /\ bytes \in Seq(Byte)
    BY <1>2, PayloadIs
  <1>4. PayloadType' /\ MatchesEnd'
    BY <1>1, PayloadKept DEF FramesInv, MatchesEnd
  <1> DEFINE block == body \o Written(SubSeq(Bytes, anchor + 1, PayloadSize), 0, 0)
  <1>5. block \in Seq(Byte) /\ MaxOutput(block) \in Nat
    <2>1. anchor \in Nat /\ anchor <= PayloadSize /\ body \in Seq(Byte)
      BY <1>1, <1>3 DEF FramesInv, Searching
    <2>2. SubSeq(Bytes, anchor + 1, PayloadSize) \in Seq(Byte)
      BY <1>3, <2>1, PartOf
    <2> QED
      BY <1>3, <2>1, <2>2, BlockIs
  <1>6. \/ body' = Bytes /\ back' = Bytes /\ doing' = "done" /\ allowed' = allowed
        \/ body' = block /\ allowed' = MaxOutput(block) /\ doing' = "decompress" /\ back' = back
    BY DEF Encode
  <1> HIDE DEF block
  <1>7. back = << >> /\ Len(<< >>) = 0
    BY <1>1 DEF Searching
  <1>8. CASE body' = Bytes /\ back' = Bytes /\ doing' = "done" /\ allowed' = allowed
    BY <1>1, <1>3, <1>4, <1>8 DEF FramesInv
  <1>9. CASE body' = block /\ allowed' = MaxOutput(block) /\ doing' = "decompress" /\ back' = back
    <2>1. Len(back') <= allowed'
      BY <1>5, <1>7, <1>9
    <2> QED
      BY <1>1, <1>4, <1>5, <1>9, <2>1 DEF FramesInv
  <1> QED
    BY <1>6, <1>8, <1>9

\* What is read of a length is a number, from a place in the block.
LEMMA LengthTyped ==
  ASSUME body \in Seq(Byte), NEW nibble \in Nat, NEW q \in Nat, NEW r \in LengthAt(nibble, q)
  PROVE  r.length \in Nat /\ r.after \in Nat
  <1>1. CASE nibble < NibbleTop
    BY <1>1 DEF LengthAt
  <1>2. CASE ~ (nibble < NibbleTop)
    <2>1. PICK x \in ReadLength(q) : r = [x EXCEPT !.length = @ + NibbleTop]
      BY <1>2 DEF LengthAt
    <2>2. PICK k \in q .. (Len(body) - 1) : x = [length |-> (k - q) * ByteTop + body[k + 1], after |-> k + 1]
      BY <2>1 DEF ReadLength
    <2>3. Len(body) \in Nat /\ body \in [1 .. Len(body) -> Byte]
      BY LenProperties
    <2>4. k + 1 \in 1 .. Len(body) /\ k - q \in Nat /\ k \in Nat
      BY <2>3
    <2>5. body[k + 1] \in Nat
      BY <2>3, <2>4, FrameConstants
    <2>6. (k - q) * ByteTop \in Nat
      BY <2>4, FrameConstants
    <2>7. (k - q) * ByteTop + body[k + 1] + NibbleTop \in Nat
      <3>1. \A u, v, w \in Nat : u + v + w \in Nat
        OBVIOUS
      <3>2. NibbleTop \in Nat
        BY FrameConstants
      <3> QED
        BY <2>5, <2>6, <3>1, <3>2
    <2>8. r.length = (k - q) * ByteTop + body[k + 1] + NibbleTop /\ r.after = k + 1
      BY <2>1, <2>2
    <2> QED
      BY <2>4, <2>7, <2>8
  <1> QED
    BY <1>1, <1>2

LEMMA LiteralsTyped ==
  ASSUME body \in Seq(Byte), back \in Seq(Byte), allowed \in Nat, pos \in Nat, NEW token \in Nat, NEW l \in Literals(token)
  PROVE  l.out \in Seq(Byte) /\ Len(l.out) <= allowed /\ l.after \in Nat /\ l.after <= Len(body)
  <1>1. token \div (NibbleTop + 1) \in Nat /\ pos + 1 \in Nat
    <2>1. NibbleTop + 1 \in Nat \ {0}
      BY FrameConstants
    <2> QED
      BY <2>1, QuotientIsNatural
  <1>2. PICK r \in LengthAt(token \div (NibbleTop + 1), pos + 1) :
          /\ r.after + r.length <= Len(body) /\ Len(back) + r.length <= allowed
          /\ l = [out |-> back \o SubSeq(body, r.after + 1, r.after + r.length), after |-> r.after + r.length]
    BY DEF Literals
  <1>3. r.length \in Nat /\ r.after \in Nat
    BY <1>1, LengthTyped
  <1>4. r.after + r.length \in Nat /\ r.after <= r.after + r.length /\ (r.after + r.length) - r.after = r.length
    BY <1>3
  <1>5. SubSeq(body, r.after + 1, r.after + r.length) \in Seq(Byte) /\ Len(SubSeq(body, r.after + 1, r.after + r.length)) = r.length
    <2> DEFINE a == r.after
               e == r.after + r.length
    <2>1. a \in Nat /\ e \in Nat /\ a <= e /\ e <= Len(body) /\ e - a = r.length
      BY <1>2, <1>3, <1>4
    <2>2. SubSeq(body, a + 1, e) \in Seq(Byte) /\ Len(SubSeq(body, a + 1, e)) = e - a
      <3> HIDE DEF a, e
      <3> QED
        BY <2>1, PartOf
    <2> QED
      BY <2>1, <2>2
  <1>6. l.out \in Seq(Byte) /\ Len(l.out) = Len(back) + r.length
    BY <1>2, <1>5, Joined
  <1> QED
    BY <1>2, <1>4, <1>6

LEMMA CopyTyped ==
  ASSUME NEW bytes \in Seq(Byte), NEW offset \in 1 .. Len(bytes), NEW length \in Nat
  PROVE  /\ CopyBack(bytes, offset, length) \in Seq(Byte) /\ Len(CopyBack(bytes, offset, length)) = Len(bytes) + length
         /\ \A k \in 1 .. Len(bytes) : CopyBack(bytes, offset, length)[k] = bytes[k]
         /\ \A k \in 1 .. length : CopyBack(bytes, offset, length)[Len(bytes) + k] = bytes[Len(bytes) - offset + 1 + ((k - 1) % offset)]
  <1>1. Len(bytes) \in Nat /\ bytes \in [1 .. Len(bytes) -> Byte]
    BY LenProperties
  <1> DEFINE added == [k \in 1 .. length |-> bytes[Len(bytes) - offset + 1 + ((k - 1) % offset)]]
  <1>2. ASSUME NEW k \in 1 .. length PROVE bytes[Len(bytes) - offset + 1 + ((k - 1) % offset)] \in Byte
    <2>1. k - 1 \in Int /\ offset \in Nat \ {0}
      BY <1>1
    <2>2. (k - 1) % offset \in 0 .. offset - 1
      BY <2>1, Division
    <2>3. Len(bytes) - offset + 1 + ((k - 1) % offset) \in 1 .. Len(bytes)
      BY <1>1, <2>2
    <2> QED
      BY <1>1, <2>3
  <1>3. added \in [1 .. length -> Byte] /\ DOMAIN added = 1 .. length
    BY <1>2
  <1>4. CopyBack(bytes, offset, length) = bytes \o added
    BY DEF CopyBack
  <1>5. \A k \in 1 .. length : added[k] = bytes[Len(bytes) - offset + 1 + ((k - 1) % offset)]
    OBVIOUS
  <1> HIDE DEF added
  <1>6. added \in Seq(Byte)
    BY <1>3, SeqDef
  <1>7. Len(added) = length
    BY <1>3, <1>6, LenProperties
  <1>8. /\ bytes \o added \in Seq(Byte) /\ Len(bytes \o added) = Len(bytes) + Len(added)
        /\ \A i \in 1 .. Len(bytes) + Len(added) : (bytes \o added)[i] = IF i <= Len(bytes) THEN bytes[i] ELSE added[i - Len(bytes)]
    BY <1>6, ConcatProperties
  <1>9. ASSUME NEW k \in 1 .. Len(bytes) PROVE (bytes \o added)[k] = bytes[k]
    <2>1. k \in 1 .. Len(bytes) + Len(added) /\ k <= Len(bytes)
      BY <1>1, <1>7
    <2> QED
      BY <1>8, <2>1
  <1>10. ASSUME NEW k \in 1 .. length PROVE (bytes \o added)[Len(bytes) + k] = added[k]
    <2>1. Len(bytes) + k \in 1 .. Len(bytes) + Len(added) /\ ~ (Len(bytes) + k <= Len(bytes)) /\ (Len(bytes) + k) - Len(bytes) = k
      BY <1>1, <1>7
    <2> QED
      BY <1>8, <2>1
  <1> QED
    BY <1>4, <1>5, <1>7, <1>8, <1>9, <1>10

LEMMA MatchTyped ==
  ASSUME body \in Seq(Byte), allowed \in Nat, NEW token \in Nat, NEW l, l.out \in Seq(Byte), l.after \in Nat, NEW w \in MatchAfter(token, l)
  PROVE  w.out \in Seq(Byte) /\ Len(w.out) <= allowed /\ w.after \in Nat
  <1> DEFINE offset == body[l.after + 1] + body[l.after + 2] * (ByteTop + 1)
             lengths == { r \in LengthAt(token % (NibbleTop + 1), l.after + 2) : Len(l.out) + r.length + MinMatch <= allowed }
  <1>1. Len(body) \in Nat /\ body \in [1 .. Len(body) -> Byte] /\ Len(l.out) \in Nat
    BY LenProperties
  <1>2. /\ MatchAfter(token, l) = IF l.after + 2 > Len(body) THEN {}
                                 ELSE IF offset = 0 \/ offset > Len(l.out) THEN {}
                                 ELSE { [out |-> CopyBack(l.out, offset, r.length + MinMatch), after |-> r.after] : r \in lengths }
    BY DEF MatchAfter
  <1>3. ~ (l.after + 2 > Len(body)) /\ ~ (offset = 0 \/ offset > Len(l.out))
    BY <1>2
  <1>4. PICK r \in lengths : w = [out |-> CopyBack(l.out, offset, r.length + MinMatch), after |-> r.after]
    BY <1>2, <1>3
  <1>5. offset \in Nat
    <2>1. l.after + 1 \in 1 .. Len(body) /\ l.after + 2 \in 1 .. Len(body)
      BY <1>1, <1>3
    <2>2. body[l.after + 1] \in Nat /\ body[l.after + 2] \in Nat /\ ByteTop + 1 \in Nat
      <3>1. body[l.after + 1] \in Byte /\ body[l.after + 2] \in Byte
        BY <1>1, <2>1
      <3>2. Byte \subseteq Nat /\ ByteTop + 1 \in Nat
        BY FrameConstants
      <3> QED
        BY <3>1, <3>2
    <2>3. \A x, y, z \in Nat : x + y * z \in Nat
      OBVIOUS
    <2> QED
      BY <2>2, <2>3
  <1>6. r \in LengthAt(token % (NibbleTop + 1), l.after + 2) /\ Len(l.out) + r.length + MinMatch <= allowed
    OBVIOUS
  <1> HIDE DEF offset, lengths
  <1>7. offset \in 1 .. Len(l.out)
    BY <1>1, <1>3, <1>5
  <1>8. token % (NibbleTop + 1) \in Nat /\ l.after + 2 \in Nat
    <2> DEFINE M == NibbleTop + 1
    <2>1. M \in Nat \ {0} /\ token \in Int /\ l.after + 2 \in Nat
      BY FrameConstants
    <2> HIDE DEF M
    <2>2. token % M \in 0 .. M - 1
      BY <2>1, Division
    <2>3. token % M \in Nat
      BY <2>1, <2>2
    <2> QED
      BY <2>1, <2>3 DEF M
  <1>9. r.length \in Nat /\ r.after \in Nat
    BY <1>6, <1>8, LengthTyped
  <1>10. r.length + MinMatch \in Nat
    BY <1>9, FrameConstants
  <1>11. w.out \in Seq(Byte) /\ Len(w.out) = Len(l.out) + (r.length + MinMatch)
    BY <1>4, <1>7, <1>10, CopyTyped
  <1>12. Len(w.out) <= allowed
    BY <1>1, <1>6, <1>9, <1>10, <1>11, FrameConstants
  <1> QED
    BY <1>4, <1>9, <1>11, <1>12

LEMMA FramesSequence == ASSUME FramesInv, NextSequence PROVE FramesInv'
  <1> DEFINE token == body[pos + 1]
             literals == Literals(token)
             whole == { l \in literals : l.after >= Len(body) } \cup UNION { MatchAfter(token, l) : l \in { l \in literals : l.after < Len(body) } }
  <1>1. doing = "decompress" /\ pos < Len(body) /\ UNCHANGED << raw, scan, anchor, table, matches, body, allowed >>
    BY DEF NextSequence
  <1>2. \/ doing' = "failed" /\ back' = back /\ pos' = pos
        \/ \E w \in whole : back' = w.out /\ pos' = w.after /\ doing' = doing
    BY DEF NextSequence
  <1>3. body \in Seq(Byte) /\ back \in Seq(Byte) /\ allowed \in Nat /\ pos \in Nat
    BY DEF FramesInv
  <1>4. token \in Nat
    <2>1. Len(body) \in Nat /\ body \in [1 .. Len(body) -> Byte]
      BY <1>3, LenProperties
    <2>2. pos + 1 \in 1 .. Len(body)
      BY <1>1, <1>3, <2>1
    <2> QED
      BY <2>1, <2>2, FrameConstants
  <1> HIDE DEF token
  <1>5. ASSUME NEW w \in whole PROVE w.out \in Seq(Byte) /\ Len(w.out) <= allowed /\ w.after \in Nat
    <2>1. \/ w \in literals
          \/ \E l \in literals : w \in MatchAfter(token, l)
      OBVIOUS
    <2> HIDE DEF whole
    <2>2. ASSUME NEW l \in literals PROVE l.out \in Seq(Byte) /\ Len(l.out) <= allowed /\ l.after \in Nat
      BY <1>3, <1>4, LiteralsTyped
    <2> HIDE DEF literals
    <2>3. CASE w \in literals
      BY <2>2, <2>3
    <2>4. ASSUME NEW l \in literals, w \in MatchAfter(token, l) PROVE w.out \in Seq(Byte) /\ Len(w.out) <= allowed /\ w.after \in Nat
      BY <1>3, <1>4, <2>2, <2>4, MatchTyped
    <2> QED
      BY <2>1, <2>3, <2>4
  <1> HIDE DEF whole
  <1>6. PayloadType' /\ MatchesEnd'
    BY <1>1, PayloadKept DEF FramesInv, MatchesEnd
  <1>7. CASE doing' = "failed" /\ back' = back /\ pos' = pos
    BY <1>1, <1>6, <1>7 DEF FramesInv
  <1>8. ASSUME NEW w \in whole, back' = w.out /\ pos' = w.after /\ doing' = doing PROVE FramesInv'
    <2>1. back' \in Seq(Byte) /\ Len(back') <= allowed /\ pos' \in Nat
      BY <1>5, <1>8
    <2> QED
      BY <1>1, <1>6, <1>8, <2>1 DEF FramesInv
  <1> QED
    BY <1>2, <1>7, <1>8

LEMMA FramesDecoded == ASSUME FramesInv, Decoded PROVE FramesInv'
  <1>1. doing' = "done" /\ UNCHANGED << raw, scan, anchor, table, matches, body, allowed, back, pos >>
    BY DEF Decoded
  <1>2. PayloadType' /\ MatchesEnd'
    BY <1>1, PayloadKept DEF FramesInv, MatchesEnd
  <1> QED
    BY <1>1, <1>2 DEF FramesInv

LEMMA FramesIdle == ASSUME FramesInv, UNCHANGED frameVars PROVE FramesInv'
  <1>1. UNCHANGED << doing, raw, scan, anchor, table, matches, body, allowed, back, pos >>
    BY DEF frameVars
  <1>2. PayloadType' /\ MatchesEnd' /\ (Searching => Searching')
    BY <1>1, PayloadKept DEF FramesInv, MatchesEnd, Searching
  <1> QED
    BY <1>1, <1>2 DEF FramesInv

LEMMA FramesKeep == FramesSpec => []FramesInv
  <1>1. FramesInv /\ [FramesNext]_frameVars => FramesInv'
    BY FramesSearch, FramesEncode, FramesSequence, FramesDecoded, FramesIdle DEF FramesNext
  <1> QED
    BY <1>1, FramesStarts, PTL DEF FramesSpec

\* Every byte written fits a byte, a table holds places of the payload, and what is decoded are bytes.
THEOREM FramesTypeCorrect == FramesSpec => []FramesTypeOK
  <1>1. FramesInv => FramesTypeOK
    <2> SUFFICES ASSUME FramesInv PROVE FramesTypeOK
      OBVIOUS
    <2>1. \A bytes \in raw : bytes \in Seq(Alphabet) /\ Len(bytes) <= Longest
      BY DEF FramesInv, PayloadType
    <2>2. \A s \in DOMAIN table : table[s] \in -1 .. Longest
      BY DEF FramesInv
    <2> QED
      BY <2>1, <2>2 DEF FramesInv, FramesTypeOK
  <1> QED
    BY <1>1, FramesKeep, PTL

----------------------------------------------------------------------------
\* A sequence decoded: its literals, then its match.
LEMMA PartLies ==
  ASSUME NEW text \in Seq(Byte), NEW q \in Nat, NEW w \in Seq(Byte), LiesAt(text, q, w)
  PROVE  SubSeq(text, q + 1, q + Len(w)) = w
  <1> DEFINE a == q + Len(w)
  <1>1. a \in Nat /\ q <= a /\ a <= Len(text) /\ a - q = Len(w) /\ Len(w) \in Nat
    BY LenProperties DEF LiesAt
  <1> HIDE DEF a
  <1>2. /\ SubSeq(text, q + 1, a) \in Seq(Byte) /\ Len(SubSeq(text, q + 1, a)) = a - q
        /\ \A k \in 1 .. a - q : SubSeq(text, q + 1, a)[k] = text[q + k]
    BY <1>1, PartOf
  <1>3. \A k \in 1 .. Len(w) : SubSeq(text, q + 1, a)[k] = w[k]
    BY <1>1, <1>2 DEF LiesAt
  <1>4. Len(SubSeq(text, q + 1, a)) = Len(w)
    BY <1>1, <1>2
  <1>5. SubSeq(text, q + 1, a) = w
    BY <1>2, <1>3, <1>4, SeqEqual
  <1> QED
    BY <1>5 DEF a

\* The offset and the length of a match that lies in the block.
LEMMA MatchLies ==
  ASSUME NEW text \in Seq(Byte), NEW a \in Nat, NEW o \in 0 .. MaxOffset, NEW length, IsLength(length), length # 0,
         LiesAt(text, a, MatchBytes(o, length))
  PROVE  /\ a + 2 <= Len(text) /\ text[a + 1] + text[a + 2] * (ByteTop + 1) = o
         /\ LiesAt(text, a + 2, Extended(Extra(length)))
         /\ Len(MatchBytes(o, length)) = 2 + Len(Extended(Extra(length))) /\ Len(Extended(Extra(length))) \in Nat
  <1> DEFINE u == OffsetBytes(o)
             w == Extended(Extra(length))
  <1>1. u \in Seq(Byte) /\ Len(u) = 2 /\ u[1] + u[2] * (ByteTop + 1) = o
    BY OffsetFits
  <1>2. w \in Seq(Byte) /\ Len(w) \in Nat
    <2>1. Extra(length) \in Nat
      BY FrameConstants DEF IsLength, Extra
    <2> QED
      BY <2>1, ExtendedIs
  <1>3. MatchBytes(o, length) = u \o w
    BY DEF MatchBytes
  <1> HIDE DEF u, w
  <1>4. LiesAt(text, a, u) /\ LiesAt(text, a + Len(u), w)
    <2>1. LiesAt(text, a, u \o w)
      BY <1>3
    <2> QED
      BY <1>1, <1>2, <2>1, LiesApart
  <1>5. Len(u \o w) = Len(u) + Len(w)
    BY <1>1, <1>2, Joined
  <1>6. LiesAt(text, a + 2, w) /\ Len(MatchBytes(o, length)) = 2 + Len(w)
    BY <1>1, <1>3, <1>4, <1>5
  <1>7. a + 2 <= Len(text) /\ text[a + 1] = u[1] /\ text[a + 2] = u[2]
    BY <1>1, <1>4 DEF LiesAt
  <1>8. text[a + 1] + text[a + 2] * (ByteTop + 1) = o
    BY <1>1, <1>7
  <1> QED
    BY <1>2, <1>6, <1>7, <1>8 DEF w

\* The first n bytes, those from there to s, and what a step of the decoder leaves.
FirstOf(bytes, n) == SubSeq(bytes, 1, n)
Between(bytes, n, s) == SubSeq(bytes, n + 1, s)
Left(out, after) == [out |-> out, after |-> after]

LEMMA FirstOfIs ==
  ASSUME NEW bytes \in Seq(Byte), NEW s \in Nat, s <= Len(bytes)
  PROVE  FirstOf(bytes, s) \in Seq(Byte) /\ Len(FirstOf(bytes, s)) = s /\ \A k \in 1 .. s : FirstOf(bytes, s)[k] = bytes[k]
  <1>1. /\ SubSeq(bytes, 0 + 1, s) \in Seq(Byte) /\ Len(SubSeq(bytes, 0 + 1, s)) = s - 0
        /\ \A k \in 1 .. s - 0 : SubSeq(bytes, 0 + 1, s)[k] = bytes[0 + k]
    BY PartOf
  <1>2. 0 + 1 = 1 /\ s - 0 = s /\ \A k \in 1 .. s : 0 + k = k
    OBVIOUS
  <1> QED
    BY <1>1, <1>2 DEF FirstOf

LEMMA BetweenIs ==
  ASSUME NEW bytes, NEW n, NEW s, bytes \in Seq(Byte), n \in Nat, s \in Nat, n <= s, s <= Len(bytes)
  PROVE  /\ Between(bytes, n, s) \in Seq(Byte) /\ Len(Between(bytes, n, s)) = s - n
         /\ FirstOf(bytes, n) \o Between(bytes, n, s) = FirstOf(bytes, s)
  <1>1. Len(bytes) \in Nat
    BY LenProperties
  <1>2. SubSeq(bytes, 1, n) \o SubSeq(bytes, n + 1, s) = SubSeq(bytes, 1, s)
    <2>1. 1 \in 1 .. Len(bytes) + 1 /\ n \in 1 - 1 .. Len(bytes) /\ s \in n .. Len(bytes)
      BY <1>1
    <2> QED
      BY <2>1, ConcatAdjacentSubSeq
  <1>3. SubSeq(bytes, n + 1, s) \in Seq(Byte) /\ Len(SubSeq(bytes, n + 1, s)) = s - n
    BY PartOf
  <1> QED
    BY <1>2, <1>3 DEF FirstOf, Between

LEMMA FirstOfAll == ASSUME NEW bytes \in Seq(Byte) PROVE FirstOf(bytes, Len(bytes)) = bytes
  <1> DEFINE s == Len(bytes)
  <1>1. s \in Nat /\ s <= Len(bytes)
    BY LenProperties
  <1> HIDE DEF s
  <1>2. FirstOf(bytes, s) \in Seq(Byte) /\ Len(FirstOf(bytes, s)) = s /\ \A k \in 1 .. s : FirstOf(bytes, s)[k] = bytes[k]
    BY <1>1, FirstOfIs
  <1>3. s = Len(bytes)
    BY DEF s
  <1>4. FirstOf(bytes, s) = bytes
    BY <1>2, <1>3, SeqEqual
  <1> QED
    BY <1>3, <1>4

LEMMA LiteralsDecoded ==
  ASSUME NEW literals, NEW offset, NEW length, NEW q, NEW a,
         back \in Seq(Byte), allowed \in Nat,
         SequenceAt(body, pos, literals, offset, length, q, a), Len(back) + Len(literals) <= allowed
  PROVE  Literals(body[pos + 1]) = {Left(back \o literals, a)}
  <1> DEFINE v == Len(literals)
             nibble == body[pos + 1] \div (NibbleTop + 1)
             one == [length |-> v, after |-> q]
             fitting == { r \in LengthAt(nibble, pos + 1) : r.after + r.length <= Len(body) /\ Len(back) + r.length <= allowed }
  <1>0. body \in Seq(Byte) /\ pos \in Nat /\ literals \in Seq(Byte) /\ IsLength(length) /\ LiteralsAt(pos, literals, q, a)
    BY DEF SequenceAt
  <1> USE <1>0
  <1>1. /\ body[pos + 1] = Token(literals, length) /\ LiesAt(body, pos + 1, Extended(v))
        /\ LiesAt(body, q, literals) /\ a <= Len(body) /\ q \in Nat /\ a \in Nat
    BY WrittenParts
  <1>2. v \in Nat /\ q = pos + 1 + Len(Extended(v)) /\ a = q + v /\ Len(back) + v <= allowed
    BY LenProperties DEF LiteralsAt
  <1>3. nibble = Nibble(v)
    BY <1>1, TokenIs
  <1>4. SubSeq(body, q + 1, q + v) = literals
    BY <1>1, PartLies
  <1>5. Literals(body[pos + 1]) = { [out |-> back \o SubSeq(body, r.after + 1, r.after + r.length), after |-> r.after + r.length] : r \in fitting }
    BY DEF Literals
  <1>6. one.after = q /\ one.length = v
    OBVIOUS
  <1> HIDE DEF v, nibble
  <1>7. LengthAt(nibble, pos + 1) = {one}
    <2>1. LengthAt(Nibble(v), pos + 1) = {[length |-> v, after |-> pos + 1 + Len(Extended(v))]}
      BY <1>1, <1>2, LengthReads
    <2> QED
      BY <1>2, <1>3, <2>1
  <1>8. one.after + one.length <= Len(body) /\ Len(back) + one.length <= allowed
    BY <1>1, <1>2, <1>6
  <1> HIDE DEF one
  <1>9. fitting = {one}
    BY <1>7, <1>8
  <1> HIDE DEF fitting
  <1>10. Literals(body[pos + 1]) = {[out |-> back \o SubSeq(body, q + 1, q + v), after |-> q + v]}
    BY <1>5, <1>6, <1>9
  <1> QED
    BY <1>2, <1>4, <1>10 DEF Left

LEMMA CopyIs ==
  ASSUME NEW bytes \in Seq(Byte), NEW s \in Nat, NEW o, NEW length, MatchAt(bytes, s, o, length)
  PROVE  CopyBack(FirstOf(bytes, s), o, length) = FirstOf(bytes, s + length)
  <1>1. /\ o \in 1 .. s /\ length \in Nat /\ s + length <= Len(bytes) /\ Repeating(bytes, s, o, length) /\ Len(bytes) \in Nat
        /\ s + length \in Nat /\ s <= s + length /\ s <= Len(bytes)
    BY LenProperties DEF MatchAt
  <1> DEFINE start == FirstOf(bytes, s)
             more == FirstOf(bytes, s + length)
             copied == CopyBack(start, o, length)
  <1>2. start \in Seq(Byte) /\ Len(start) = s /\ \A k \in 1 .. s : start[k] = bytes[k]
    BY <1>1, FirstOfIs
  <1>3. more \in Seq(Byte) /\ Len(more) = s + length /\ \A k \in 1 .. s + length : more[k] = bytes[k]
    BY <1>1, FirstOfIs
  <1> HIDE DEF start, more
  <1>4. /\ copied \in Seq(Byte) /\ Len(copied) = s + length /\ \A k \in 1 .. s : copied[k] = start[k]
        /\ \A k \in 1 .. length : copied[s + k] = start[s - o + 1 + ((k - 1) % o)]
    BY <1>1, <1>2, CopyTyped
  <1> HIDE DEF copied
  <1>5. \A k \in 1 .. length : bytes[s + k] = bytes[s - o + 1 + ((k - 1) % o)]
    BY <1>1, PeriodRepeats
  <1>6. ASSUME NEW i \in 1 .. s + length PROVE copied[i] = more[i]
    <2>1. CASE i <= s
      <3>1. i \in 1 .. s
        BY <2>1
      <3> QED
        BY <1>2, <1>3, <1>4, <3>1
    <2>2. CASE i > s
      <3> DEFINE k == i - s
      <3>1. k \in 1 .. length /\ s + k = i /\ o \in Nat \ {0} /\ k - 1 \in Int
        BY <1>1, <2>2
      <3> HIDE DEF k
      <3>2. (k - 1) % o \in 0 .. o - 1
        BY <3>1, Division
      <3>3. s - o + 1 + ((k - 1) % o) \in 1 .. s
        BY <1>1, <3>1, <3>2
      <3>4. copied[s + k] = bytes[s - o + 1 + ((k - 1) % o)]
        BY <1>2, <1>4, <3>1, <3>3
      <3> QED
        BY <1>3, <1>5, <3>1, <3>4
    <2> QED
      BY <1>1, <2>1, <2>2
  <1>7. copied = more
    BY <1>1, <1>3, <1>4, <1>6, SeqEqual
  <1> QED
    BY <1>7 DEF copied, more, start

\* The payload fits in what the header allows.
RoomFor(bytes) == bytes \in Seq(Byte) /\ allowed \in Nat /\ Len(bytes) <= allowed

LEMMA MatchDecoded ==
  ASSUME NEW bytes, NEW literals, NEW s, NEW o, NEW length, NEW q, NEW a,
         RoomFor(bytes), s \in Nat, MatchAt(bytes, s, o, length), SequenceAt(body, pos, literals, o, length, q, a)
  PROVE  /\ MatchAfter(body[pos + 1], Left(FirstOf(bytes, s), a)) = {Left(FirstOf(bytes, s + length), pos + Len(Written(literals, o, length)))}
         /\ a < Len(body) /\ q \in Nat
  <1>0. /\ body \in Seq(Byte) /\ pos \in Nat /\ literals \in Seq(Byte)
        /\ bytes \in Seq(Byte) /\ allowed \in Nat /\ Len(bytes) <= allowed
    BY DEF SequenceAt, RoomFor
  <1> USE <1>0
  <1>1. /\ o \in 1 .. s /\ o <= MaxOffset /\ length >= MinMatch /\ s + length <= Len(bytes) /\ Len(bytes) \in Nat
        /\ MinMatch \in Nat \ {0} /\ length \in Nat
    BY LenProperties, FrameConstants DEF MatchAt
  <1>2. o \in 0 .. MaxOffset /\ IsLength(length) /\ length # 0 /\ Extra(length) \in Nat /\ Extra(length) + MinMatch = length
    BY <1>1 DEF IsLength, Extra
  <1> DEFINE e == Extra(length)
             l == Left(FirstOf(bytes, s), a)
             token == body[pos + 1]
             offset == body[l.after + 1] + body[l.after + 2] * (ByteTop + 1)
             lengths == { r \in LengthAt(token % (NibbleTop + 1), l.after + 2) : Len(l.out) + r.length + MinMatch <= allowed }
  <1>3. /\ token = Token(literals, length) /\ LiesAt(body, a, MatchBytes(o, length)) /\ a \in Nat /\ a <= Len(body)
        /\ pos + Len(Written(literals, o, length)) = a + Len(MatchBytes(o, length)) /\ q \in Nat
    <2> HIDE DEF token, e, l
    <2>1. /\ body[pos + 1] = Token(literals, length) /\ LiesAt(body, a, MatchBytes(o, length)) /\ a \in Nat /\ a <= Len(body)
          /\ pos + Len(Written(literals, o, length)) = a + Len(MatchBytes(o, length)) /\ q \in Nat
      BY WrittenParts
    <2> QED
      BY <2>1 DEF token
  <1>4. /\ a + 2 <= Len(body) /\ body[a + 1] + body[a + 2] * (ByteTop + 1) = o /\ LiesAt(body, a + 2, Extended(e))
        /\ Len(MatchBytes(o, length)) = 2 + Len(Extended(e)) /\ Len(Extended(e)) \in Nat /\ Len(body) \in Nat
    <2> HIDE DEF l, token, offset, lengths
    <2> QED
      BY <1>2, <1>3, MatchLies, LenProperties
  <1>8. l.after = a /\ l.out = FirstOf(bytes, s) /\ Len(l.out) = s
    BY <1>1, FirstOfIs DEF Left
  <1>9. offset = o
    BY <1>4, <1>8
  <1>10. token % (NibbleTop + 1) = Nibble(e)
    BY <1>2, <1>3, TokenIs
  <1>11. LengthAt(Nibble(e), a + 2) = {[length |-> e, after |-> a + 2 + Len(Extended(e))]}
    <2>1. a + 2 \in Nat
      BY <1>3
    <2> QED
      BY <1>2, <1>4, <2>1, LengthReads
  <1>12. MatchAfter(token, l) = IF l.after + 2 > Len(body) THEN {}
                               ELSE IF offset = 0 \/ offset > Len(l.out) THEN {}
                               ELSE { [out |-> CopyBack(l.out, offset, r.length + MinMatch), after |-> r.after] : r \in lengths }
    BY DEF MatchAfter
  <1> HIDE DEF offset, token
  <1> DEFINE one == [length |-> e, after |-> a + 2 + Len(Extended(e))]
  <1>13. lengths = {one}
    <2>1. lengths = { r \in {one} : s + r.length + MinMatch <= allowed }
      BY <1>8, <1>10, <1>11
    <2>2. s + one.length + MinMatch <= allowed
      BY <1>1, <1>2
    <2> QED
      BY <2>1, <2>2
  <1>14. one.length = e /\ one.after = a + 2 + Len(Extended(e))
    OBVIOUS
  <1> HIDE DEF lengths, one
  <1>15. MatchAfter(token, l) = {[out |-> CopyBack(l.out, o, e + MinMatch), after |-> a + 2 + Len(Extended(e))]}
    <2>1. ~ (l.after + 2 > Len(body)) /\ ~ (offset = 0 \/ offset > Len(l.out))
      BY <1>1, <1>3, <1>4, <1>8, <1>9
    <2>2. MatchAfter(token, l) = { [out |-> CopyBack(l.out, o, r.length + MinMatch), after |-> r.after] : r \in lengths }
      BY <1>9, <1>12, <2>1
    <2> QED
      BY <1>13, <1>14, <2>2
  <1>16. CopyBack(l.out, o, e + MinMatch) = FirstOf(bytes, s + length)
    BY <1>2, <1>8, CopyIs
  <1>17. pos + Len(Written(literals, o, length)) = a + 2 + Len(Extended(e)) /\ a < Len(body)
    BY <1>3, <1>4
  <1> QED
    BY <1>3, <1>15, <1>16, <1>17 DEF token, Left

----------------------------------------------------------------------------
\* A block, from the places where its sequences begin: a place, and how many bytes are decoded there.
SequenceOf(bytes, text, p, n, w, s, o, length) ==
  /\ n <= s /\ MatchAt(bytes, s, o, length)
  /\ w = Written(Between(bytes, n, s), o, length) /\ LiesAt(text, p, w)

Leads(bytes, text, p, n, q, m) ==
  \E s \in Nat, o \in Nat, length \in Nat, w \in Seq(Byte) :
    SequenceOf(bytes, text, p, n, w, s, o, length) /\ q = p + Len(w) /\ m = s + length

Closes(bytes, text, p, n) ==
  \E w \in Seq(Byte) : /\ w = Written(Between(bytes, n, Len(bytes)), 0, 0)
                       /\ LiesAt(text, p, w) /\ Len(text) = p + Len(w)

Marked(bytes, marks) ==
  marks \subseteq Nat \X Nat /\ << 0, 0 >> \in marks /\ \A mark \in marks : mark[2] <= Len(bytes)

Begun(bytes, text, marks, last) ==
  /\ Marked(bytes, marks) /\ last \in marks
  /\ \A mark \in marks : mark = last \/ \E next \in marks : Leads(bytes, text, mark[1], mark[2], next[1], next[2])

Whole(bytes, text, marks) ==
  /\ Marked(bytes, marks)
  /\ \A mark \in marks : Closes(bytes, text, mark[1], mark[2]) \/ \E next \in marks : Leads(bytes, text, mark[1], mark[2], next[1], next[2])

LEMMA MatchIs ==
  ASSUME NEW bytes \in Seq(Byte), NEW s \in Nat, NEW o, NEW length, MatchAt(bytes, s, o, length)
  PROVE  o \in 0 .. MaxOffset /\ IsLength(length) /\ length \in Nat /\ s <= Len(bytes) /\ s + length <= Len(bytes) /\ s + length \in Nat
  <1>1. o \in 1 .. s /\ o <= MaxOffset /\ length \in Nat /\ length >= MinMatch /\ s + length <= Len(bytes) /\ Len(bytes) \in Nat /\ MaxOffset \in Nat
    BY LenProperties, FrameConstants DEF MatchAt
  <1> QED
    BY <1>1 DEF IsLength

LEMMA LeadsOn ==
  ASSUME NEW bytes, NEW text \in Seq(Byte), NEW more \in Seq(Byte), NEW p \in Nat, NEW n, NEW q, NEW m, Leads(bytes, text, p, n, q, m)
  PROVE  Leads(bytes, text \o more, p, n, q, m)
  <1>1. PICK s \in Nat, o \in Nat, length \in Nat, w \in Seq(Byte) :
          SequenceOf(bytes, text, p, n, w, s, o, length) /\ q = p + Len(w) /\ m = s + length
    BY DEF Leads
  <1>2. LiesAt(text, p, w)
    BY <1>1 DEF SequenceOf
  <1>3. LiesAt(text \o more, p, w)
    BY <1>2, LiesBefore
  <1>4. SequenceOf(bytes, text \o more, p, n, w, s, o, length)
    BY <1>1, <1>3 DEF SequenceOf
  <1> QED
    BY <1>1, <1>4 DEF Leads

\* The next sequence makes a mark, behind what it wrote.
LEMMA BlockGrows ==
  ASSUME NEW bytes \in Seq(Byte), NEW text \in Seq(Byte), NEW marks, NEW n \in Nat, Begun(bytes, text, marks, << Len(text), n >>),
         NEW s \in Nat, n <= s, NEW o, NEW length, MatchAt(bytes, s, o, length),
         NEW w, w = Written(Between(bytes, n, s), o, length)
  PROVE  /\ w \in Seq(Byte)
         /\ Begun(bytes, text \o w, marks \cup {<< Len(text \o w), s + length >>}, << Len(text \o w), s + length >>)
  <1> DEFINE last == << Len(text), n >>
             next == << Len(text \o w), s + length >>
             longer == text \o w
  <1>1. o \in 0 .. MaxOffset /\ o \in Nat /\ IsLength(length) /\ length \in Nat /\ s <= Len(bytes) /\ s + length <= Len(bytes) /\ s + length \in Nat
    <2>1. o \in 0 .. MaxOffset /\ IsLength(length) /\ length \in Nat /\ s <= Len(bytes) /\ s + length <= Len(bytes) /\ s + length \in Nat
      BY MatchIs
    <2>2. o \in Nat
      BY <2>1, FrameConstants
    <2> QED
      BY <2>1, <2>2
  <1>2. Between(bytes, n, s) \in Seq(Byte)
    BY <1>1, BetweenIs
  <1>3. w \in Seq(Byte)
    BY <1>1, <1>2, WrittenIs
  <1>4. longer \in Seq(Byte) /\ Len(longer) = Len(text) + Len(w) /\ LiesAt(longer, Len(text), w) /\ Len(longer) \in Nat /\ Len(text) \in Nat
    BY <1>3, LiesBefore, LenProperties
  <1>5. Leads(bytes, longer, last[1], last[2], next[1], next[2])
    <2>1. SequenceOf(bytes, longer, last[1], last[2], w, s, o, length)
      BY <1>4 DEF SequenceOf
    <2>2. next[1] = last[1] + Len(w) /\ next[2] = s + length
      BY <1>4
    <2> HIDE DEF last, next, longer
    <2> QED
      BY <1>1, <1>3, <2>1, <2>2 DEF Leads
  <1>6. Marked(bytes, marks) /\ last \in marks /\ \A mark \in marks : mark = last \/ \E m \in marks : Leads(bytes, text, mark[1], mark[2], m[1], m[2])
    BY DEF Begun
  <1>7. next \in Nat \X Nat /\ next[2] = s + length
    BY <1>1, <1>4
  <1> HIDE DEF last, next
  <1>8. Marked(bytes, marks \cup {next})
    BY <1>1, <1>6, <1>7 DEF Marked
  <1>9. ASSUME NEW mark \in marks \cup {next} PROVE mark = next \/ \E m \in marks \cup {next} : Leads(bytes, longer, mark[1], mark[2], m[1], m[2])
    <2>1. CASE mark = next
      BY <2>1
    <2>2. CASE mark = last
      BY <1>5, <2>2
    <2>3. CASE mark \in marks /\ mark # last
      <3>1. PICK m \in marks : Leads(bytes, text, mark[1], mark[2], m[1], m[2])
        BY <1>6, <2>3
      <3>2. mark[1] \in Nat
        BY <1>6, <2>3 DEF Marked
      <3>3. Leads(bytes, longer, mark[1], mark[2], m[1], m[2])
        BY <1>3, <3>1, <3>2, LeadsOn
      <3> QED
        BY <3>3
    <2> QED
      BY <2>1, <2>2, <2>3
  <1>10. Begun(bytes, longer, marks \cup {next}, next)
    BY <1>8, <1>9 DEF Begun
  <1> QED
    BY <1>3, <1>10 DEF next, longer

\* The last sequence makes the block whole.
LEMMA BlockEnds ==
  ASSUME NEW bytes \in Seq(Byte), NEW text \in Seq(Byte), NEW marks, NEW n \in Nat, n <= Len(bytes), Begun(bytes, text, marks, << Len(text), n >>),
         NEW w, w = Written(Between(bytes, n, Len(bytes)), 0, 0)
  PROVE  Whole(bytes, text \o w, marks)
  <1> DEFINE last == << Len(text), n >>
             longer == text \o w
  <1>1. IsLength(0) /\ 0 \in 0 .. MaxOffset /\ Len(bytes) \in Nat
    BY FrameConstants, LenProperties DEF IsLength
  <1>2. Between(bytes, n, Len(bytes)) \in Seq(Byte)
    <2>1. Len(bytes) <= Len(bytes)
      BY <1>1
    <2> QED
      BY <1>1, <2>1, BetweenIs
  <1>3. w \in Seq(Byte)
    BY <1>1, <1>2, WrittenIs
  <1>4. Len(longer) = Len(text) + Len(w) /\ LiesAt(longer, Len(text), w)
    BY <1>3, LiesBefore
  <1>5. last[1] = Len(text) /\ last[2] = n
    OBVIOUS
  <1>6. Closes(bytes, longer, last[1], last[2])
    <2> HIDE DEF last, longer
    <2> QED
      BY <1>3, <1>4, <1>5 DEF Closes
  <1>7. Marked(bytes, marks) /\ \A mark \in marks : mark = last \/ \E m \in marks : Leads(bytes, text, mark[1], mark[2], m[1], m[2])
    BY DEF Begun
  <1> HIDE DEF last
  <1>8. ASSUME NEW mark \in marks PROVE Closes(bytes, longer, mark[1], mark[2]) \/ \E m \in marks : Leads(bytes, longer, mark[1], mark[2], m[1], m[2])
    <2>1. CASE mark = last
      BY <1>6, <2>1
    <2>2. CASE mark # last
      <3>1. PICK m \in marks : Leads(bytes, text, mark[1], mark[2], m[1], m[2])
        BY <1>7, <2>2
      <3>2. mark[1] \in Nat
        BY <1>7 DEF Marked
      <3>3. Leads(bytes, longer, mark[1], mark[2], m[1], m[2])
        BY <1>3, <3>1, <3>2, LeadsOn
      <3> QED
        BY <3>3
    <2> QED
      BY <2>1, <2>2
  <1>9. Whole(bytes, longer, marks)
    BY <1>7, <1>8 DEF Whole
  <1> QED
    BY <1>9 DEF longer

\* What NextSequence makes of the sequence at pos.
Decoding ==
  LET token == body[pos + 1]
      literals == Literals(token)
  IN { l \in literals : l.after >= Len(body) } \cup UNION { MatchAfter(token, l) : l \in { l \in literals : l.after < Len(body) } }

LEMMA SequenceDecoded ==
  ASSUME body \in Seq(Byte), back \in Seq(Byte), pos \in Nat, allowed \in Nat,
         NEW bytes \in Seq(Byte), Len(bytes) <= allowed, NEW n \in Nat, Len(back) = n, back = FirstOf(bytes, n),
         NEW next, NEW m, Leads(bytes, body, pos, n, next, m)
  PROVE  Decoding = {Left(FirstOf(bytes, m), next)} /\ m \in Nat /\ m <= Len(bytes)
  <1>1. PICK s \in Nat, o \in Nat, length \in Nat, w \in Seq(Byte) :
          /\ n <= s /\ MatchAt(bytes, s, o, length) /\ LiesAt(body, pos, w)
          /\ w = Written(Between(bytes, n, s), o, length) /\ next = pos + Len(w) /\ m = s + length
    BY DEF Leads, SequenceOf
  <1> DEFINE done == Left(FirstOf(bytes, s + length), pos + Len(w))
  <1>1a. next = pos + Len(w) /\ m = s + length
    BY <1>1
  <1>1b. n <= s /\ MatchAt(bytes, s, o, length)
    BY <1>1
  <1>1c. w = Written(Between(bytes, n, s), o, length) /\ LiesAt(body, pos, w)
    BY <1>1
  <1> DEFINE literals == Between(bytes, n, s)
             q == pos + 1 + Len(Extended(Len(literals)))
             a == q + Len(literals)
             l == Left(FirstOf(bytes, s), a)
             token == body[pos + 1]
  <1>2. o \in 0 .. MaxOffset /\ IsLength(length) /\ s <= Len(bytes) /\ s + length <= Len(bytes) /\ s + length \in Nat /\ Len(bytes) \in Nat
    BY <1>1b, MatchIs, LenProperties
  <1>3. literals \in Seq(Byte) /\ Len(literals) = s - n
    BY <1>1b, <1>2, BetweenIs
  <1>3a. back \o literals = FirstOf(bytes, s)
    <2>1. FirstOf(bytes, n) \o literals = FirstOf(bytes, s)
      BY <1>1b, <1>2, BetweenIs
    <2> QED
      BY <2>1
  <1>4. LiteralsAt(pos, literals, q, a) /\ w = Written(literals, o, length) /\ LiesAt(body, pos, Written(literals, o, length))
    BY <1>1c DEF LiteralsAt
  <1>4a. SequenceAt(body, pos, literals, o, length, q, a)
    <2> HIDE DEF literals, q, a
    <2> QED
      BY <1>2, <1>3, <1>4 DEF SequenceAt
  <1>4b. RoomFor(bytes)
    BY DEF RoomFor
  <1>5. Len(back) + Len(literals) <= allowed
    BY <1>1b, <1>2, <1>3
  <1>6. l.after = a
    BY DEF Left
  <1> HIDE DEF literals, q, a
  <1>7. Literals(token) = {Left(back \o literals, a)}
    BY <1>4a, <1>5, LiteralsDecoded
  <1>8. Literals(token) = {l}
    BY <1>3a, <1>7
  <1>9. MatchAfter(token, l) = {Left(FirstOf(bytes, s + length), pos + Len(Written(literals, o, length)))} /\ a < Len(body) /\ q \in Nat
    <2> HIDE DEF token, l
    <2>1. /\ MatchAfter(body[pos + 1], Left(FirstOf(bytes, s), a)) = {Left(FirstOf(bytes, s + length), pos + Len(Written(literals, o, length)))}
          /\ a < Len(body) /\ q \in Nat
      BY <1>1b, <1>4a, <1>4b, MatchDecoded
    <2> QED
      BY <2>1 DEF token, l
  <1>10. MatchAfter(token, l) = {done}
    BY <1>4, <1>9
  <1> HIDE DEF token, l
  <1>11. Decoding = { x \in {l} : x.after >= Len(body) } \cup UNION { MatchAfter(token, x) : x \in { x \in {l} : x.after < Len(body) } }
    BY <1>8 DEF Decoding, token
  <1>12. ~ (a >= Len(body))
    <2>1. Len(literals) \in Nat
      BY <1>3, LenProperties
    <2>2. a \in Int /\ Len(body) \in Int
      BY <1>4, <1>9, <2>1, LenProperties DEF LiteralsAt
    <2> QED
      BY <1>9, <2>2
  <1>13. Decoding = {done}
    <2>1. { x \in {l} : x.after >= Len(body) } = {}
      BY <1>6, <1>12
    <2>2. { x \in {l} : x.after < Len(body) } = {l}
      BY <1>6, <1>9
    <2> QED
      BY <1>10, <1>11, <2>1, <2>2
  <1> QED
    BY <1>1a, <1>2, <1>13 DEF done

LEMMA EndDecoded ==
  ASSUME body \in Seq(Byte), back \in Seq(Byte), pos \in Nat, allowed \in Nat,
         NEW bytes \in Seq(Byte), Len(bytes) <= allowed, NEW n \in Nat, n <= Len(bytes), Len(back) = n, back = FirstOf(bytes, n),
         Closes(bytes, body, pos, n)
  PROVE  Decoding = {Left(bytes, Len(body))}
  <1>1. PICK w \in Seq(Byte) : w = Written(Between(bytes, n, Len(bytes)), 0, 0) /\ LiesAt(body, pos, w) /\ Len(body) = pos + Len(w)
    BY DEF Closes
  <1> DEFINE s == Len(bytes)
             literals == Between(bytes, n, s)
             q == pos + 1 + Len(Extended(Len(literals)))
             a == q + Len(literals)
             done == Left(bytes, Len(body))
             token == body[pos + 1]
  <1>2. IsLength(0) /\ 0 \in 0 .. MaxOffset /\ s \in Nat /\ n <= s /\ s <= Len(bytes) /\ s <= allowed
    BY FrameConstants, LenProperties DEF IsLength
  <1>3. w = Written(literals, 0, 0) /\ LiesAt(body, pos, Written(literals, 0, 0))
    BY <1>1
  <1>4. FirstOf(bytes, s) = bytes
    BY FirstOfAll
  <1> HIDE DEF s
  <1>5. literals \in Seq(Byte) /\ Len(literals) = s - n
    BY <1>2, BetweenIs
  <1>5a. back \o literals = bytes
    <2>1. FirstOf(bytes, n) \o literals = FirstOf(bytes, s)
      BY <1>2, BetweenIs
    <2> QED
      BY <1>4, <2>1
  <1>6. LiteralsAt(pos, literals, q, a)
    BY DEF LiteralsAt
  <1>6a. SequenceAt(body, pos, literals, 0, 0, q, a)
    <2> HIDE DEF literals, q, a
    <2> QED
      BY <1>2, <1>3, <1>5, <1>6 DEF SequenceAt
  <1>7. Len(back) + Len(literals) <= allowed
    BY <1>2, <1>5
  <1> HIDE DEF literals, q, a
  <1>8. a = Len(body)
    <2>1. pos + Len(Written(literals, 0, 0)) = a + Len(MatchBytes(0, 0)) /\ a \in Nat /\ q \in Nat
      BY <1>6a, WrittenParts
    <2>2. Len(MatchBytes(0, 0)) = 0
      BY EmptySeq DEF MatchBytes
    <2>3. Len(body) = a + 0
      BY <1>1, <1>3, <2>1, <2>2
    <2> QED
      BY <2>1, <2>3
  <1>9. Literals(token) = {Left(back \o literals, a)}
    BY <1>6a, <1>7, LiteralsDecoded
  <1>10. Literals(token) = {done} /\ done.after = Len(body)
    BY <1>5a, <1>8, <1>9 DEF Left
  <1> HIDE DEF token, done
  <1>11. Decoding = { x \in {done} : x.after >= Len(body) } \cup UNION { MatchAfter(token, x) : x \in { x \in {done} : x.after < Len(body) } }
    BY <1>10 DEF Decoding, token
  <1>12. Len(body) >= Len(body) /\ ~ (Len(body) < Len(body))
    BY LenProperties
  <1>13. { x \in {done} : x.after >= Len(body) } = {done} /\ { x \in {done} : x.after < Len(body) } = {}
    BY <1>10, <1>12
  <1>14. Decoding = {done}
    BY <1>11, <1>13
  <1> QED
    BY <1>14 DEF done

----------------------------------------------------------------------------
\* A payload on its way: so far written, and so far read.
Growing(bytes, text, n) == \E marks \in SUBSET (Nat \X Nat) : Begun(bytes, text, marks, << Len(text), n >>)

Marking(bytes, text, out, p) ==
  \E marks \in SUBSET (Nat \X Nat) : Whole(bytes, text, marks) /\ << p, Len(out) >> \in marks /\ out = FirstOf(bytes, Len(out))

OnTheWay(bytes, text, out, p) ==
  \/ Marking(bytes, text, out, p)
  \/ p >= Len(text) /\ out = bytes

LEMMA StartsEmpty == ASSUME NEW bytes \in Seq(Byte) PROVE Growing(bytes, << >>, 0)
  <1>1. Len(<< >>) = 0 /\ Len(bytes) \in Nat
    BY EmptySeq, LenProperties
  <1> DEFINE mark == << 0, 0 >>
             marks == {mark}
  <1>2. mark \in Nat \X Nat /\ mark[2] = 0 /\ mark = << 0, 0 >>
    OBVIOUS
  <1> HIDE DEF mark
  <1>3. marks \in SUBSET (Nat \X Nat) /\ Marked(bytes, marks)
    BY <1>1, <1>2 DEF Marked
  <1>4. Begun(bytes, << >>, marks, mark)
    BY <1>3 DEF Begun
  <1> HIDE DEF marks
  <1>5. << Len(<< >>), 0 >> = mark
    BY <1>1, <1>2
  <1> QED
    BY <1>3, <1>4, <1>5 DEF Growing

LEMMA Grows ==
  ASSUME NEW bytes \in Seq(Byte), NEW text \in Seq(Byte), NEW n \in Nat, Growing(bytes, text, n),
         NEW s \in Nat, n <= s, NEW o, NEW length, MatchAt(bytes, s, o, length)
  PROVE  Growing(bytes, text \o Written(Between(bytes, n, s), o, length), s + length)
  <1>1. PICK marks \in SUBSET (Nat \X Nat) : Begun(bytes, text, marks, << Len(text), n >>)
    BY DEF Growing
  <1> DEFINE w == Written(Between(bytes, n, s), o, length)
             next == << Len(text \o w), s + length >>
  <1>2. w \in Seq(Byte) /\ Begun(bytes, text \o w, marks \cup {next}, next)
    <2>1. w = Written(Between(bytes, n, s), o, length)
      OBVIOUS
    <2> HIDE DEF w
    <2> QED
      BY <1>1, <2>1, BlockGrows
  <1>3. marks \cup {next} \in SUBSET (Nat \X Nat)
    BY <1>2 DEF Begun, Marked
  <1> HIDE DEF w
  <1> QED
    BY <1>2, <1>3 DEF Growing, w

LEMMA Ends ==
  ASSUME NEW bytes \in Seq(Byte), NEW text \in Seq(Byte), NEW n \in Nat, n <= Len(bytes), Growing(bytes, text, n)
  PROVE  OnTheWay(bytes, text \o Written(Between(bytes, n, Len(bytes)), 0, 0), << >>, 0)
  <1>1. PICK marks \in SUBSET (Nat \X Nat) : Begun(bytes, text, marks, << Len(text), n >>)
    BY DEF Growing
  <1> DEFINE w == Written(Between(bytes, n, Len(bytes)), 0, 0)
  <1>2. Whole(bytes, text \o w, marks)
    <2>1. w = Written(Between(bytes, n, Len(bytes)), 0, 0)
      OBVIOUS
    <2> HIDE DEF w
    <2> QED
      BY <1>1, <2>1, BlockEnds
  <1>3. Len(<< >>) = 0 /\ << >> = FirstOf(bytes, 0)
    <2>1. 0 <= Len(bytes)
      BY LenProperties
    <2>2. FirstOf(bytes, 0) \in Seq(Byte) /\ Len(FirstOf(bytes, 0)) = 0
      BY <2>1, FirstOfIs
    <2> QED
      BY <2>2, EmptySeq
  <1>4. << 0, 0 >> \in marks
    BY <1>1 DEF Begun, Marked
  <1> HIDE DEF w
  <1>5. Marking(bytes, text \o w, << >>, 0)
    BY <1>2, <1>3, <1>4 DEF Marking
  <1>6. OnTheWay(bytes, text \o w, << >>, 0)
    BY <1>5 DEF OnTheWay
  <1> QED
    BY <1>6 DEF w

\* At a mark the block is not over: a sequence has its token.
LEMMA MoreAtMark ==
  ASSUME NEW bytes \in Seq(Byte), NEW text \in Seq(Byte), NEW out, NEW p \in Nat, Marking(bytes, text, out, p)
  PROVE  p < Len(text) /\ Len(out) <= Len(bytes) /\ Len(out) \in Nat
  <1>1. PICK marks \in SUBSET (Nat \X Nat) : Whole(bytes, text, marks) /\ << p, Len(out) >> \in marks
    BY DEF Marking
  <1> DEFINE mark == << p, Len(out) >>
             n == Len(out)
  <1>2. mark[1] = p /\ mark[2] = n /\ n \in Nat
    <2>1. mark \in Nat \X Nat
      BY <1>1
    <2> QED
      BY <2>1
  <1>3. /\ n <= Len(bytes)
        /\ Closes(bytes, text, p, n) \/ \E next \in marks : Leads(bytes, text, p, n, next[1], next[2])
    <2>1. mark \in marks /\ Whole(bytes, text, marks)
      BY <1>1
    <2> HIDE DEF mark, n
    <2> QED
      BY <1>2, <2>1 DEF Whole, Marked
  <1> HIDE DEF mark, n
  <1>4. Len(bytes) \in Nat /\ Len(text) \in Nat
    BY LenProperties
  <1>5. ASSUME NEW w, LiesAt(text, p, w), Len(w) >= 1, Len(w) \in Nat PROVE p < Len(text)
    <2>1. p + Len(w) <= Len(text)
      BY <1>5 DEF LiesAt
    <2> QED
      BY <1>4, <1>5, <2>1
  <1>6. CASE Closes(bytes, text, p, n)
    <2>1. PICK w \in Seq(Byte) : w = Written(Between(bytes, n, Len(bytes)), 0, 0) /\ LiesAt(text, p, w)
      BY <1>6 DEF Closes
    <2>2. Between(bytes, n, Len(bytes)) \in Seq(Byte) /\ IsLength(0) /\ 0 \in 0 .. MaxOffset
      <3>1. Len(bytes) <= Len(bytes)
        BY <1>4
      <3>2. Between(bytes, n, Len(bytes)) \in Seq(Byte)
        BY <1>2, <1>3, <1>4, <3>1, BetweenIs
      <3> QED
        BY <3>2, FrameConstants DEF IsLength
    <2>3. Len(w) >= 1 /\ Len(w) \in Nat
      BY <2>1, <2>2, WrittenIs
    <2> QED
      BY <1>2, <1>3, <1>5, <2>1, <2>3 DEF n
  <1>7. CASE \E next \in marks : Leads(bytes, text, p, n, next[1], next[2])
    <2>1. PICK s \in Nat, o \in Nat, length \in Nat, w \in Seq(Byte) : SequenceOf(bytes, text, p, n, w, s, o, length)
      BY <1>7 DEF Leads
    <2>2. n <= s /\ MatchAt(bytes, s, o, length) /\ w = Written(Between(bytes, n, s), o, length) /\ LiesAt(text, p, w)
      BY <2>1 DEF SequenceOf
    <2>3. o \in 0 .. MaxOffset /\ IsLength(length) /\ s <= Len(bytes)
      BY <2>2, MatchIs
    <2>4. Between(bytes, n, s) \in Seq(Byte)
      BY <1>2, <2>2, <2>3, BetweenIs
    <2>5. Len(w) >= 1 /\ Len(w) \in Nat
      BY <2>2, <2>3, <2>4, WrittenIs
    <2> QED
      BY <1>2, <1>3, <1>5, <2>2, <2>5 DEF n
  <1> QED
    BY <1>3, <1>6, <1>7

\* A turn of the decoder reads the one sequence that is there, and comes to the next mark or to the end.
LEMMA DecodesOn ==
  ASSUME body \in Seq(Byte), back \in Seq(Byte), pos \in Nat, NEW bytes, RoomFor(bytes),
         OnTheWay(bytes, body, back, pos), pos < Len(body)
  PROVE  \E w : Decoding = {w} /\ OnTheWay(bytes, body, w.out, w.after)
  <1>1. bytes \in Seq(Byte) /\ allowed \in Nat /\ Len(bytes) <= allowed /\ Len(body) \in Nat
    BY LenProperties DEF RoomFor
  <1>2. Marking(bytes, body, back, pos)
    <2>1. ~ (pos >= Len(body))
      BY <1>1
    <2> QED
      BY <2>1 DEF OnTheWay
  <1> DEFINE n == Len(back)
             mark == << pos, n >>
  <1>3. n \in Nat /\ n <= Len(bytes) /\ Len(back) = n
    BY <1>1, <1>2, MoreAtMark
  <1>4. PICK marks \in SUBSET (Nat \X Nat) : Whole(bytes, body, marks) /\ mark \in marks /\ back = FirstOf(bytes, n)
    BY <1>2 DEF Marking
  <1>5. mark[1] = pos /\ mark[2] = n
    OBVIOUS
  <1> HIDE DEF n, mark
  <1>6. Closes(bytes, body, pos, n) \/ \E next \in marks : Leads(bytes, body, pos, n, next[1], next[2])
    BY <1>4, <1>5 DEF Whole
  <1>7. CASE Closes(bytes, body, pos, n)
    <2> DEFINE w == Left(bytes, Len(body))
    <2>1. Decoding = {w}
      BY <1>1, <1>3, <1>4, <1>7, EndDecoded
    <2>2. w.out = bytes /\ w.after = Len(body)
      BY DEF Left
    <2> HIDE DEF w
    <2>3. OnTheWay(bytes, body, w.out, w.after)
      BY <1>1, <2>2 DEF OnTheWay
    <2> QED
      BY <2>1, <2>3
  <1>8. CASE \E next \in marks : Leads(bytes, body, pos, n, next[1], next[2])
    <2>1. PICK next \in marks : Leads(bytes, body, pos, n, next[1], next[2])
      BY <1>8
    <2> DEFINE q == next[1]
               m == next[2]
               w == Left(FirstOf(bytes, m), q)
    <2>2. << q, m >> \in marks /\ Leads(bytes, body, pos, n, q, m)
      <3>1. next \in Nat \X Nat
        BY <1>4, <2>1
      <3>2. next = << next[1], next[2] >>
        BY <3>1
      <3> QED
        BY <2>1, <3>2
    <2> HIDE DEF q, m
    <2>3. Decoding = {w} /\ m \in Nat /\ m <= Len(bytes)
      BY <1>1, <1>3, <1>4, <2>2, SequenceDecoded
    <2>4. w.out = FirstOf(bytes, m) /\ w.after = q
      BY DEF Left
    <2>5. Len(FirstOf(bytes, m)) = m
      BY <1>1, <2>3, FirstOfIs
    <2> HIDE DEF w
    <2>6. Marking(bytes, body, w.out, w.after)
      BY <1>4, <2>2, <2>4, <2>5 DEF Marking
    <2>7. OnTheWay(bytes, body, w.out, w.after)
      BY <2>6 DEF OnTheWay
    <2> QED
      BY <2>3, <2>7
  <1> QED
    BY <1>6, <1>7, <1>8

PayloadInv ==
  raw # {} =>
    /\ doing # "failed"
    /\ doing = "compress" => Growing(Bytes, body, anchor)
    /\ doing = "decompress" => RoomFor(Bytes) /\ OnTheWay(Bytes, body, back, pos)
    /\ doing = "done" => back = Bytes

LEMMA PayloadStarts == FramesInit => PayloadInv
  <1> SUFFICES ASSUME FramesInit, raw # {} PROVE PayloadInv
    BY DEF PayloadInv
  <1>1. doing = "compress" /\ body = << >> /\ anchor = 0
    BY DEF FramesInit
  <1>2. PICK bytes \in BoundedSeq(Alphabet, Longest) : raw = {bytes}
    BY DEF FramesInit
  <1>3. Bytes \in Seq(Byte)
    <2>1. bytes \in Seq(Alphabet)
      BY BoundedIs, FrameConstants
    <2> QED
      BY <1>2, <2>1, PayloadIs
  <1>4. Growing(Bytes, body, anchor)
    BY <1>1, <1>3, StartsEmpty
  <1> QED
    BY <1>1, <1>4 DEF PayloadInv

LEMMA PayloadSearch == ASSUME FramesInv, PayloadInv, Search PROVE PayloadInv'
  <1>1. doing = "compress" /\ doing' = doing /\ raw' = raw /\ scan < PayloadSize - MfLimit /\ Searching
    BY DEF FramesInv, Search
  <1>2. PICK bytes \in Seq(Alphabet) : raw = {bytes} /\ Len(bytes) <= Longest
    BY <1>1, PayloadThere DEF Searching
  <1>3. Bytes = bytes /\ PayloadSize = Len(bytes) /\ PayloadSize \in Nat /\ bytes \in Seq(Byte) /\ MaxOffset \in Nat
    BY <1>2, PayloadIs, FrameConstants
  <1>4. scan \in Nat /\ anchor \in Nat /\ anchor <= scan /\ body \in Seq(Byte) /\ Growing(bytes, body, anchor)
    BY <1>1, <1>2, <1>3 DEF FramesInv, Searching, PayloadInv
  <1> DEFINE candidate == table[SlotOf[Read(scan)]]
             length == MatchLength(scan, candidate)
  <1>5. candidate \in -1 .. Longest /\ candidate < scan
    <2>1. scan + MinMatch <= Len(bytes)
      BY <1>1, <1>3, <1>4, FrameConstants
    <2>2. Read(scan) \in [1 .. MinMatch -> Alphabet]
      BY <1>2, <1>4, <2>1, ReadIs
    <2>3. SlotOf[Read(scan)] \in 0 .. (Slots - 1)
      BY <2>2, FrameConstants
    <2> QED
      BY <1>1, <2>3 DEF FramesInv, Searching
  <1>6. \/ body' = body /\ anchor' = anchor
        \/ /\ ~ (candidate < 0 \/ scan - candidate > MaxOffset \/ Read(candidate) # Read(scan))
           /\ body' = body \o Written(SubSeq(Bytes, anchor + 1, scan), scan - candidate, length) /\ anchor' = scan + length
    BY DEF Search
  <1> HIDE DEF candidate, length
  <1>7. Bytes' = bytes
    BY <1>1, <1>3, PayloadKept
  <1>8. Growing(bytes, body', anchor')
    <2>1. CASE body' = body /\ anchor' = anchor
      BY <1>4, <2>1
    <2>2. CASE /\ ~ (candidate < 0 \/ scan - candidate > MaxOffset \/ Read(candidate) # Read(scan))
               /\ body' = body \o Written(SubSeq(Bytes, anchor + 1, scan), scan - candidate, length) /\ anchor' = scan + length
      <3>1. candidate \in Nat /\ scan - candidate <= MaxOffset /\ Read(candidate) = Read(scan)
        BY <1>3, <1>4, <1>5, <2>2
      <3>2. MatchAt(bytes, scan, scan - candidate, length)
        BY <1>1, <1>2, <1>4, <1>5, <3>1, MatchFound DEF length
      <3>3. Growing(bytes, body \o Written(Between(bytes, anchor, scan), scan - candidate, length), scan + length)
        BY <1>3, <1>4, <3>2, Grows
      <3>4. body' = body \o Written(Between(bytes, anchor, scan), scan - candidate, length)
        BY <1>3, <2>2 DEF Between
      <3> QED
        BY <2>2, <3>3, <3>4
    <2> QED
      BY <1>6, <2>1, <2>2
  <1> QED
    BY <1>1, <1>7, <1>8 DEF PayloadInv

LEMMA PayloadEncode == ASSUME Longest <= MaxDecompressed, FramesInv, PayloadInv, Encode PROVE PayloadInv'
  <1>1. doing = "compress" /\ Searching /\ raw' = raw /\ pos' = pos /\ back = << >> /\ pos = 0
    BY DEF FramesInv, Encode, Searching
  <1>2. PICK bytes \in Seq(Alphabet) : raw = {bytes} /\ Len(bytes) <= Longest
    BY <1>1, PayloadThere DEF Searching
  <1>3. Bytes = bytes /\ PayloadSize = Len(bytes) /\ PayloadSize \in Nat /\ bytes \in Seq(Byte) /\ Longest \in Nat /\ MaxDecompressed \in Nat
    BY <1>2, PayloadIs, FrameConstants
  <1>4. anchor \in Nat /\ anchor <= Len(bytes) /\ body \in Seq(Byte) /\ Growing(bytes, body, anchor)
    BY <1>1, <1>2, <1>3 DEF FramesInv, Searching, PayloadInv
  <1> DEFINE literals == Between(bytes, anchor, Len(bytes))
             block == body \o Written(literals, 0, 0)
  <1>5. \/ back' = bytes /\ doing' = "done"
        \/ body' = block /\ allowed' = MaxOutput(block) /\ doing' = "decompress" /\ back' = back
    BY <1>3 DEF Encode, Between
  <1>6. OnTheWay(bytes, block, << >>, 0)
    BY <1>3, <1>4, Ends
  <1>7. literals \in Seq(Byte)
    <2>1. Len(bytes) \in Nat /\ Len(bytes) <= Len(bytes)
      BY <1>3
    <2> QED
      BY <1>3, <1>4, <2>1, BetweenIs
  <1>8. MaxOutput(block) \in Nat /\ Len(bytes) <= MaxOutput(block)
    <2>1. PayloadSize <= MaxDecompressed
      BY <1>2, <1>3
    <2>2. block = body \o Written(literals, 0, 0)
      OBVIOUS
    <2> HIDE DEF literals, block
    <2> QED
      BY <1>3, <1>4, <1>7, <2>1, <2>2, BlockIs
  <1> HIDE DEF literals, block
  <1>9. Bytes' = bytes
    BY <1>1, <1>3, PayloadKept
  <1>10. CASE back' = bytes /\ doing' = "done"
    BY <1>9, <1>10 DEF PayloadInv
  <1>11. CASE body' = block /\ allowed' = MaxOutput(block) /\ doing' = "decompress" /\ back' = back
    <2>1. RoomFor(Bytes)'
      BY <1>3, <1>8, <1>9, <1>11 DEF RoomFor
    <2>2. OnTheWay(bytes, body', back', pos')
      BY <1>1, <1>6, <1>11
    <2> QED
      BY <1>9, <1>11, <2>1, <2>2 DEF PayloadInv
  <1> QED
    BY <1>5, <1>10, <1>11

LEMMA PayloadSequence == ASSUME FramesInv, PayloadInv, NextSequence PROVE PayloadInv'
  <1>1. /\ doing = "decompress" /\ pos < Len(body) /\ raw' = raw /\ body' = body /\ allowed' = allowed
        /\ IF Decoding = {} THEN doing' = "failed" ELSE \E w \in Decoding : back' = w.out /\ pos' = w.after /\ doing' = doing
    BY DEF NextSequence, Decoding
  <1>2. SUFFICES ASSUME raw # {} PROVE PayloadInv'
    BY <1>1 DEF PayloadInv
  <1>3. RoomFor(Bytes) /\ OnTheWay(Bytes, body, back, pos)
    BY <1>1, <1>2 DEF PayloadInv
  <1>4. body \in Seq(Byte) /\ back \in Seq(Byte) /\ pos \in Nat
    BY DEF FramesInv
  <1>5. PICK w : Decoding = {w} /\ OnTheWay(Bytes, body, w.out, w.after)
    BY <1>1, <1>3, <1>4, DecodesOn
  <1>6. back' = w.out /\ pos' = w.after /\ doing' = "decompress"
    BY <1>1, <1>5
  <1>7. Bytes' = Bytes
    BY <1>1, PayloadKept
  <1>8. RoomFor(Bytes)' /\ OnTheWay(Bytes, body, back, pos)'
    <2>1. RoomFor(Bytes)'
      BY <1>1, <1>3, <1>7 DEF RoomFor
    <2>2. OnTheWay(Bytes', body', back', pos')
      BY <1>1, <1>5, <1>6, <1>7
    <2> QED
      BY <2>1, <2>2
  <1> QED
    BY <1>6, <1>8 DEF PayloadInv

LEMMA PayloadDecoded == ASSUME FramesInv, PayloadInv, Decoded PROVE PayloadInv'
  <1>1. doing = "decompress" /\ pos >= Len(body) /\ doing' = "done" /\ raw' = raw /\ back' = back
    BY DEF Decoded
  <1>2. SUFFICES ASSUME raw # {} PROVE PayloadInv'
    BY <1>1 DEF PayloadInv
  <1>3. RoomFor(Bytes) /\ OnTheWay(Bytes, body, back, pos) /\ body \in Seq(Byte) /\ pos \in Nat
    BY <1>1, <1>2 DEF PayloadInv, FramesInv
  <1>4. ~ Marking(Bytes, body, back, pos)
    <2>1. Bytes \in Seq(Byte) /\ Len(body) \in Nat
      BY <1>3, LenProperties DEF RoomFor
    <2>2. ASSUME Marking(Bytes, body, back, pos) PROVE pos < Len(body)
      BY <1>3, <2>1, <2>2, MoreAtMark
    <2> QED
      BY <1>1, <1>3, <2>1, <2>2
  <1>5. back = Bytes
    BY <1>3, <1>4 DEF OnTheWay
  <1>6. Bytes' = Bytes
    BY <1>1, PayloadKept
  <1> QED
    BY <1>1, <1>5, <1>6 DEF PayloadInv

LEMMA PayloadIdle == ASSUME PayloadInv, UNCHANGED frameVars PROVE PayloadInv'
  <1>1. /\ doing' = doing /\ raw' = raw /\ body' = body /\ anchor' = anchor /\ back' = back /\ pos' = pos /\ allowed' = allowed
        /\ Bytes' = Bytes
    BY PayloadKept DEF frameVars
  <1>2. RoomFor(Bytes)' <=> RoomFor(Bytes)
    BY <1>1 DEF RoomFor
  <1> QED
    BY <1>1, <1>2 DEF PayloadInv

(***************************************************************************)
(* A payload comes back from its frame as it was, and its block keeps the   *)
(* rules of the format for its end: for every alphabet, hash and number of  *)
(* the format, and every payload that may be decompressed at all.  The      *)
(* marks of PayloadInv are where the sequences of its block begin.          *)
(* (encodeFrame, decodeFrame, compressBlock and decompressBlock)            *)
(***************************************************************************)
THEOREM PayloadsReturn == ASSUME Longest <= MaxDecompressed PROVE FramesSpec => []FramesReturn
  <1>1. FramesInit => FramesInv /\ PayloadInv
    BY FramesStarts, PayloadStarts
  <1>2. FramesInv /\ PayloadInv /\ [FramesNext]_frameVars => FramesInv' /\ PayloadInv'
    <2> SUFFICES ASSUME FramesInv, PayloadInv, [FramesNext]_frameVars PROVE FramesInv' /\ PayloadInv'
      OBVIOUS
    <2>1. CASE Search
      BY <2>1, FramesSearch, PayloadSearch
    <2>2. CASE Encode
      BY <2>2, FramesEncode, PayloadEncode
    <2>3. CASE NextSequence
      BY <2>3, FramesSequence, PayloadSequence
    <2>4. CASE Decoded
      BY <2>4, FramesDecoded, PayloadDecoded
    <2>5. CASE UNCHANGED frameVars
      BY <2>5, FramesIdle, PayloadIdle
    <2> QED
      BY <2>1, <2>2, <2>3, <2>4, <2>5 DEF FramesNext
  <1>3. FramesInv /\ PayloadInv => FramesReturn
    BY DEF FramesInv, PayloadInv, FramesReturn, MatchesEnd
  <1> QED
    BY <1>1, <1>2, <1>3, PTL DEF FramesSpec
=============================================================================
