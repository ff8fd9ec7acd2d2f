---------------------------- MODULE InlineFrames ----------------------------
(***************************************************************************)
(* The way of a frame to the bridge without a shared segment: the client   *)
(* writes its bytes as base64 into the request, three bytes at a time, the *)
(* bridge reads them back with a decoder of its own, one character at a    *)
(* time. A character is its ASCII code.                                    *)
(***************************************************************************)
EXTENDS Integers, Sequences

CONSTANTS
  Payloads,  \* the data of the frames the client sends
  Ints       \* how many values the decoder's int has, 2^32 in the build

ASSUME PayloadsAssumption == Payloads \subseteq Seq(0 .. 255)
ASSUME IntsAssumption == Ints \in Nat \ {0} /\ Ints % 2^16 = 0

Equals == 61

VARIABLES
  payload,  \* the data of the frame
  text,     \* the characters of the request not yet decoded
  decoder   \* base64_decode: val, valb, out

inlineVars == <<payload, text, decoder>>

-----------------------------------------------------------------------------
(* The encoder of the client.                                              *)

\* CHARS: "A" to "Z", "a" to "z", "0" to "9", "+", "/".
Char(v) == CASE v \in 0 .. 25  -> 65 + v
             [] v \in 26 .. 51 -> 97 + v - 26
             [] v \in 52 .. 61 -> 48 + v - 52
             [] v = 62         -> 43
             [] v = 63         -> 47

\* The three bytes of chunk q in one word, zeros for those the last lacks.
Byte(data, i) == IF i <= Len(data) THEN data[i] ELSE 0
Packed(b0, b1, b2) == 65536 * b0 + 256 * b1 + b2
Triple(data, q) ==
  Packed(Byte(data, 3*q + 1), Byte(data, 3*q + 2), Byte(data, 3*q + 3))

\* Bits of chunk q, six for each character.
Sextet(data, q, k) == (Triple(data, q) \div 64^(3 - k)) % 64

\* Character k of chunk q stands for bits of byte 3q + k and the one after:
\* without that byte it is padding.
Chunks(data) == (Len(data) + 2) \div 3
Encoded(data) ==
  [i \in 1 .. 4 * Chunks(data) |->
     LET q == (i - 1) \div 4
         k == (i - 1) % 4
     IN  IF 3*q + k > Len(data) THEN Equals ELSE Char(Sextet(data, q, k))]

-----------------------------------------------------------------------------
(* The decoder of the bridge.                                              *)

\* b64_char_value, -1 for what is no character of base64.
CharValue(c) == CASE c \in 65 .. 90  -> c - 65
                  [] c \in 97 .. 122 -> c - 97 + 26
                  [] c \in 48 .. 57  -> c - 48 + 52
                  [] c = 43          -> 62
                  [] c = 47          -> 63
                  [] OTHER           -> -1

Ignored == {Equals, 10, 13, 32}
Skipped(c) == c \in Ignored \/ CharValue(c) < 0

\* val keeps every character that ever came: the shift runs out of the int
\* after the fifth, and what is read of it are its low bits.
Shifted(d, c) == (64 * d.val + CharValue(c)) % Ints

\* (val >> n) & 0xFF.
ByteAt(val, n) == (val \div 2^n) % 256

\* Mutant: a byte is taken only once more than eight bits are there.
DecodedLate(d, c) ==
  LET val  == Shifted(d, c)
      valb == d.valb + 6
  IN  IF valb > 0
      THEN [val |-> val, valb |-> valb - 8, out |-> Append(d.out, ByteAt(val, valb))]
      ELSE [val |-> val, valb |-> valb, out |-> d.out]

\* A byte is taken as soon as eight bits are there.
Decoded(d, c) ==
  LET val  == Shifted(d, c)
      valb == d.valb + 6
  IN  IF valb >= 0
      THEN [val |-> val, valb |-> valb - 8, out |-> Append(d.out, ByteAt(val, valb))]
      ELSE [val |-> val, valb |-> valb, out |-> d.out]

InlineInit == /\ payload \in Payloads
              /\ text = Encoded(payload)
              /\ decoder = [val |-> 0, valb |-> -8, out |-> <<>>]

DecodeChar == /\ text # <<>> /\ ~Skipped(Head(text))
              /\ decoder' = Decoded(decoder, Head(text))
              /\ text' = Tail(text)
              /\ UNCHANGED payload

SkipChar == /\ text # <<>> /\ Skipped(Head(text))
            /\ text' = Tail(text)
            /\ UNCHANGED <<payload, decoder>>

InlineNext == DecodeChar \/ SkipChar

-----------------------------------------------------------------------------
(* The bridge has the very bytes the client sent (bridge_client.rs         *)
(* base64_encode against bridge_main.cpp base64_decode): the last one or   *)
(* two bytes, which have padding of their own, and those after the int of  *)
(* the decoder has run over, too.                                          *)
InlineFramesArrive == text = <<>> => decoder.out = payload

InlineSpec == InlineInit /\ [][InlineNext]_inlineVars
=============================================================================
