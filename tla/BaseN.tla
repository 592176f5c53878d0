------------------------------- MODULE BaseN -------------------------------
(***************************************************************************)
(* The encodings of utils/basen.h, with which the blobs of transactions    *)
(* are written: groups of 4, 5 or 6 bits of the bytes, each a character of *)
(* a dictionary.  A character is the index it has there; Pad is =, Junk    *)
(* anything that is in no dictionary.                                      *)
(***************************************************************************)
EXTENDS Naturals, Sequences

CONSTANTS Pad, Junk

\* value >> n and value << n of a byte, and its last n bits.
Shr(value, n) == value \div 2 ^ n
Shl(value, n) == (value * 2 ^ n) % 256
LowBits(value, n) == value % 2 ^ n

\* The two halves of value | value: they have no bit in common.
Or(hi, lo) == hi + lo

(***************************************************************************)
(* encode.                                                                 *)
(***************************************************************************)
extract_partial_bits(value, start_bit, bits_count) ==
    LowBits(Shr(value, 8 - bits_count - start_bit), bits_count)

extract_overlapping_bits(previous, next, start_bit, bits_count) ==
    LET in_next == bits_count - (8 - start_bit)
    IN LowBits(Or(Shl(previous, in_next), LowBits(Shr(next, 8 - in_next), in_next)), bits_count)

\* One round of the loop takes a group from the byte iter, or keeps the byte as the backlog
\* and takes the group with the next one; then come the = that fill the last byte.
RECURSIVE EncodeFrom(_, _, _, _)
EncodeFrom(bytes, group, iter, start_bit) ==
    IF iter > Len(bytes)
    THEN IF start_bit = 0 THEN <<>>
         ELSE <<Pad>> \o EncodeFrom(bytes, group, iter, (start_bit + group) % 8)
    ELSE IF start_bit + group < 8
    THEN <<extract_partial_bits(bytes[iter], start_bit, group)>>
         \o EncodeFrom(bytes, group, iter, start_bit + group)
    ELSE <<extract_overlapping_bits(bytes[iter], IF iter < Len(bytes) THEN bytes[iter + 1] ELSE 0,
                                    start_bit, group)>>
         \o EncodeFrom(bytes, group, iter + 1, (start_bit + group) % 8)

Encode(bytes, group) == EncodeFrom(bytes, group, 1, 0)

(***************************************************************************)
(* decode.                                                                 *)
(***************************************************************************)
\* One character: = is counted, junk is skipped, a group goes into the byte under way and,
\* if it does not fit, into the next one.
DecodeChar(st, c, group) ==
    LET fits == st.bit + group <= 8
        next == group - (8 - st.bit)
        value == IF fits THEN Or(st.buffer, Shl(c, 8 - st.bit - group)) ELSE Or(st.buffer, Shr(c, next))
    IN IF c = Pad THEN [st EXCEPT !.equals = @ + 1]
       ELSE IF c = Junk THEN st
       ELSE IF st.bit + group < 8 THEN [st EXCEPT !.buffer = value, !.bit = @ + group]
       ELSE [st EXCEPT !.out = Append(@, value),
                       !.buffer = IF fits THEN 0 ELSE Shl(c, 8 - next),
                       !.bit = IF fits THEN 0 ELSE next]

RECURSIVE DecodeFrom(_, _, _)
DecodeFrom(st, text, group) ==
    IF text = <<>> THEN st ELSE DecodeFrom(DecodeChar(st, Head(text), group), Tail(text), group)

Fresh == [out |-> <<>>, buffer |-> 0, bit |-> 0, equals |-> 0]

\* Bits that are left and that the = do not make up for are a truncated byte.
Decode(text, group) ==
    LET st == DecodeFrom(Fresh, text, group)
    IN IF st.bit # 0 /\ (st.equals * group + st.bit) % 8 # 0
       THEN Append(st.out, st.buffer) ELSE st.out

encoded_size(group, rawsize) ==
    CASE group = 4 -> rawsize * 2
      [] group = 5 -> ((rawsize + 4) \div 5) * 8
      [] group = 6 -> ((rawsize + 2) \div 3) * 4
=============================================================================
