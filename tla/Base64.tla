------------------------------- MODULE Base64 -------------------------------
(***************************************************************************)
(* base64_encode and base64_decode (libc/extensions/base64.c).  A          *)
(* character is its index in the table, Pad the sign =, Junk any other.    *)
(***************************************************************************)
EXTENDS Integers, Sequences, SequencesExt

CONSTANTS
  Bytes,   \* the bytes to encode
  MaxLen   \* bound: how many of them

VARIABLES source, encoded, decoded, phase

Pad  == 64
Junk == 65

\* The buffer that is allocated: line feeds and a zero are counted too.
RoomToEncode(len) ==
  LET olen == ((len * 4) \div 3) + 4 IN olen + (olen \div 72) + 1

Block(a, b, c) == <<a \div 4, (a % 4) * 16 + b \div 16, (b % 16) * 4 + c \div 64, c % 64>>

Encoded(s) ==
  LET whole == Len(s) \div 3
      rest  == Len(s) % 3
      last  == SubSeq(s, 3 * whole + 1, Len(s))
  IN  FlattenSeq([i \in 1 .. whole |-> Block(s[3*i - 2], s[3*i - 1], s[3*i])])
      \o CASE rest = 0 -> <<>>
           [] rest = 1 -> SubSeq(Block(last[1], 0, 0), 1, 2) \o <<Pad, Pad>>
           [] rest = 2 -> SubSeq(Block(last[1], last[2], 0), 1, 3) \o <<Pad>>

Unblock(b) ==
  LET v == [i \in 1 .. 4 |-> IF b[i] = Pad THEN 0 ELSE b[i]]
  IN  << (v[1] * 4 + v[2] \div 16) % 256, (v[2] * 16 + v[3] \div 4) % 256, (v[3] * 64 + v[4]) % 256 >>

\* What was decoded, or nothing when the text is none: its known characters
\* must come in fours, and the first block with padding ends it.
Decoded(s) ==
  LET known  == SelectSeq(s, LAMBDA c : c # Junk)
      blocks == [i \in 1 .. Len(known) \div 4 |-> SubSeq(known, 4*i - 3, 4*i)]
      padded == {i \in DOMAIN blocks : Contains(blocks[i], Pad)}
      last   == IF padded = {} THEN Len(blocks) ELSE CHOOSE i \in padded : \A j \in padded : i <= j
      pad    == Len(SelectSeq(blocks[last], LAMBDA c : c = Pad))
      out    == FlattenSeq([i \in 1 .. last |-> Unblock(blocks[i])])
  IN  IF known = <<>> \/ Len(known) % 4 # 0 \/ pad > 2
      THEN <<>> ELSE <<SubSeq(out, 1, Len(out) - pad)>>

-----------------------------------------------------------------------------
Init == source = <<>> /\ encoded = <<>> /\ decoded = <<>> /\ phase = "source"

base64_encode ==
  /\ phase = "source"
  /\ \E s \in SeqOf(Bytes, MaxLen) : source' = s /\ encoded' = Encoded(s)
  /\ phase' = "text"
  /\ UNCHANGED decoded

\* The text is broken into lines by whoever carries it.
Carry ==
  /\ phase = "text"
  /\ \E i \in 1 .. Len(encoded) + 1 : encoded' = InsertAt(encoded, i, Junk)
  /\ phase' = "carried"
  /\ UNCHANGED <<source, decoded>>

base64_decode ==
  /\ phase \in {"text", "carried"}
  /\ decoded' = Decoded(encoded)
  /\ phase' = "read"
  /\ UNCHANGED <<source, encoded>>

Next == base64_encode \/ Carry \/ base64_decode

-----------------------------------------------------------------------------
\* The text and its zero fit the buffer of the encoder, and decoding gives the
\* bytes back, with a line feed or without; of no bytes it gives nothing.
BytesReadBack ==
  /\ phase = "text" => Len(encoded) + 1 <= RoomToEncode(Len(source))
  /\ phase = "read" => decoded = IF source = <<>> THEN <<>> ELSE <<source>>

=============================================================================
