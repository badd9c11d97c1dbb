--------------------------------- MODULE Frames ---------------------------------
(***************************************************************************)
(* What a payload becomes on its way to MAX and back: the LZ4 block         *)
(* (src/src/protocol/lz4.ts), one step for each turn of the loops of        *)
(* compressBlock and decompressBlock, and the header whose flags tell how   *)
(* far the block may grow (src/src/protocol/frame.ts).                      *)
(*                                                                          *)
(* The numbers of the format are constants, so that a short payload meets   *)
(* every length byte and limit of a long one; two nibbles are a byte, and an *)
(* offset has two bytes, so that nothing pushed is cut.  The bytes of a     *)
(* payload are in Alphabet.  Offsets count from zero, as in the code.       *)
(* MessagePack, and payloads past the 24 bits of the length, are left out.  *)
(***************************************************************************)
EXTENDS Integers, Sequences, SequencesExt, FiniteSetsExt

CONSTANTS
  Alphabet, Longest,         \* payloads: their bytes, and how many at most
  MinMatch, LastLiterals, MfLimit, MaxOffset,          \* lz4.ts
  Slots, SlotOf,             \* the table of 1 << HASH_BITS places, and the place of MinMatch bytes
  NibbleTop, ByteTop,        \* 15 and 255
  CompressFrom, MaxLz4Flags, MaxDecompressed,          \* frame.ts
  Foreign, LongestForeign    \* blocks nobody compressed: their bytes, and how many at most

VARIABLES
  doing,     \* "compress", "decompress", "done" or "failed"
  raw,       \* the payload; none when the block is not ours
  scan, anchor, table, matches, \* compressBlock; matches are kept for EndOfBlock only
  body, allowed,                \* the body of the frame, and maxOutput
  back, pos                     \* decompressBlock

frameVars == << doing, raw, scan, anchor, table, matches, body, allowed, back, pos >>

Byte == 0 .. ByteTop

ASSUME FrameAssumption ==
  /\ {Longest, MaxOffset, LongestForeign, MaxDecompressed} \subseteq Nat
  /\ {MinMatch, LastLiterals, Slots, NibbleTop, ByteTop, CompressFrom, MaxLz4Flags} \subseteq Nat \ {0}
  /\ MfLimit \in Nat /\ MfLimit >= MinMatch + LastLiterals
  /\ ByteTop = NibbleTop * (NibbleTop + 2) /\ MaxOffset < (ByteTop + 1) * (ByteTop + 1)
  /\ Alphabet \subseteq Byte /\ Foreign \subseteq Byte
  /\ SlotOf \in [[1 .. MinMatch -> Alphabet] -> 0 .. (Slots - 1)]

----------------------------------------------------------------------------
FramesInit ==
  /\ scan = 0 /\ anchor = 0 /\ matches = {}
  /\ table = [s \in 0 .. (Slots - 1) |-> -1]
  /\ back = << >> /\ pos = 0
  /\ \/ /\ raw \in { {bytes} : bytes \in BoundedSeq(Alphabet, Longest) }
        /\ doing = "compress" /\ body = << >> /\ allowed = 0
     \/ /\ raw = {}
        /\ doing = "decompress"
        /\ body \in BoundedSeq(Foreign, LongestForeign)
        /\ allowed \in 0 .. Longest

Payload == UNION { DOMAIN bytes : bytes \in raw }   \* its positions, from 1
Bytes == CHOOSE bytes \in raw : TRUE
PayloadSize == Cardinality(Payload)

----------------------------------------------------------------------------
\* writeLength and writeSequence; a match length of zero is the last sequence.
LengthBytes(value) == [k \in 1 .. (value \div ByteTop) |-> ByteTop] \o << value % ByteTop >>

Extended(value) == IF value >= NibbleTop THEN LengthBytes(value - NibbleTop) ELSE << >>
Nibble(value) == IF value < NibbleTop THEN value ELSE NibbleTop

Written(literals, offset, length) ==
  LET extra == IF length = 0 THEN 0 ELSE length - MinMatch IN
  << Nibble(Len(literals)) * (NibbleTop + 1) + Nibble(extra) >>
    \o Extended(Len(literals)) \o literals
    \o (IF length = 0 THEN << >>
        ELSE << offset % (ByteTop + 1), offset \div (ByteTop + 1) >> \o Extended(extra))

\* The next MinMatch bytes.
Read(i) == SubSeq(Bytes, i + 1, i + MinMatch)

MatchLimitAtEnd == PayloadSize   \* a mutant: a match may run to the end
MatchLimit == PayloadSize - LastLiterals

MatchLength(i, candidate) ==
  Max({ n \in MinMatch .. PayloadSize :
          \A k \in MinMatch .. (n - 1) : i + k < MatchLimit /\ Bytes[i + k + 1] = Bytes[candidate + k + 1] })

Search ==
  LET candidate == table[SlotOf[Read(scan)]]
      length == MatchLength(scan, candidate)
  IN
  /\ doing = "compress" /\ scan < PayloadSize - MfLimit
  /\ table' = [table EXCEPT ![SlotOf[Read(scan)]] = scan]
  /\ IF candidate < 0 \/ scan - candidate > MaxOffset \/ Read(candidate) # Read(scan)
     THEN scan' = scan + 1 /\ UNCHANGED << anchor, matches, body >>
     ELSE /\ body' = body \o Written(SubSeq(Bytes, anchor + 1, scan), scan - candidate, length)
          /\ matches' = matches \cup {[from |-> scan, to |-> scan + length]}
          /\ scan' = scan + length
          /\ anchor' = scan + length
  /\ UNCHANGED << doing, raw, allowed, back, pos >>

\* encodeFrame: the block goes out with the factor it may grow by; short payloads, and those that shrink too far, plain.
Factor(block) == (PayloadSize + Len(block) - 1) \div Len(block)
MaxOutput(block) == IF Factor(block) * Len(block) <= MaxDecompressed THEN Factor(block) * Len(block) ELSE MaxDecompressed

Encode ==
  LET block == body \o Written(SubSeq(Bytes, anchor + 1, PayloadSize), 0, 0)
      plain == PayloadSize < CompressFrom \/ Factor(block) > MaxLz4Flags
  IN
  /\ doing = "compress" /\ scan >= PayloadSize - MfLimit
  /\ IF plain THEN body' = Bytes /\ back' = Bytes /\ doing' = "done" /\ UNCHANGED allowed
              ELSE body' = block /\ allowed' = MaxOutput(block) /\ doing' = "decompress" /\ UNCHANGED back
  /\ UNCHANGED << raw, scan, anchor, table, matches, pos >>

----------------------------------------------------------------------------
\* readLength from q: the length and where it ends, or nothing when the block ends first.
ReadLength(q) ==
  LET stop == { k \in q .. (Len(body) - 1) : body[k + 1] # ByteTop /\ \A j \in q .. (k - 1) : body[j + 1] = ByteTop } IN
  { [length |-> (k - q) * ByteTop + body[k + 1], after |-> k + 1] : k \in stop }

LengthAt(nibble, q) ==
  IF nibble < NibbleTop THEN {[length |-> nibble, after |-> q]}
  ELSE { [r EXCEPT !.length = @ + NibbleTop] : r \in ReadLength(q) }

\* copyBack, byte by byte: a match longer than its offset overlaps the bytes it produces, and repeats the first of them.
CopyBack(bytes, offset, length) ==
  bytes \o [k \in 1 .. length |-> bytes[Len(bytes) - offset + 1 + ((k - 1) % offset)]]

\* The literals of the sequence at pos, and the match behind them: what it adds, and where the next begins.
Literals(token) ==
  { [out |-> back \o SubSeq(body, r.after + 1, r.after + r.length), after |-> r.after + r.length] :
      r \in { r \in LengthAt(token \div (NibbleTop + 1), pos + 1) :
                r.after + r.length <= Len(body) /\ Len(back) + r.length <= allowed } }

MatchAfter(token, l) ==
  LET offset == body[l.after + 1] + body[l.after + 2] * (ByteTop + 1) IN
  IF l.after + 2 > Len(body) THEN {}
  ELSE IF offset = 0 \/ offset > Len(l.out) THEN {}
  ELSE { [out |-> CopyBack(l.out, offset, r.length + MinMatch), after |-> r.after] :
           r \in { r \in LengthAt(token % (NibbleTop + 1), l.after + 2) :
                     Len(l.out) + r.length + MinMatch <= allowed } }

\* One sequence; the last has no match.
NextSequence ==
  LET token == body[pos + 1]
      literals == Literals(token)
      whole == { l \in literals : l.after >= Len(body) } \cup UNION { MatchAfter(token, l) : l \in { l \in literals : l.after < Len(body) } }
  IN
  /\ doing = "decompress" /\ pos < Len(body)
  /\ IF whole = {} THEN doing' = "failed" /\ UNCHANGED << back, pos >>
     ELSE \E w \in whole : back' = w.out /\ pos' = w.after /\ UNCHANGED doing
  /\ UNCHANGED << raw, scan, anchor, table, matches, body, allowed >>

Decoded ==
  /\ doing = "decompress" /\ pos >= Len(body)
  /\ doing' = "done"
  /\ UNCHANGED << raw, scan, anchor, table, matches, body, allowed, back, pos >>

FramesNext == Search \/ Encode \/ NextSequence \/ Decoded
FramesSpec == FramesInit /\ [][FramesNext]_frameVars

----------------------------------------------------------------------------
FramesTypeOK ==
  /\ doing \in {"compress", "decompress", "done", "failed"}
  /\ \A bytes \in raw : bytes \in Seq(Alphabet) /\ Len(bytes) <= Longest
  /\ {scan, anchor, pos, allowed} \subseteq Nat
  /\ body \in Seq(Byte) /\ back \in Seq(Byte)
  /\ \A s \in DOMAIN table : table[s] \in -1 .. Longest

(***************************************************************************)
(* A payload comes back from its frame as it was, within the bound its own  *)
(* header gives.  Its block keeps the rules of the format for its end, which *)
(* a decoder as lenient as ours would not miss (src/src/protocol/lz4.ts:6): *)
(* the last bytes are literals, and no match begins near the end.  And no   *)
(* block of anybody's becomes more than maxOutput.                          *)
(***************************************************************************)
FramesReturn ==
  /\ raw # {} => doing # "failed" /\ (doing = "done" => back = Bytes)
  /\ \A m \in matches : m.from < PayloadSize - MfLimit /\ m.to <= PayloadSize - LastLiterals
  /\ doing = "decompress" => Len(back) <= allowed
=============================================================================
