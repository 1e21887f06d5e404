-------------------------------- MODULE Codec -------------------------------
(***************************************************************************)
(* pack.c and the length field of protocol.c on sequences of bytes.  A     *)
(* format is a sequence of pairs of a letter and an argument; numbers are  *)
(* stored in network order and two's complement.                           *)
(***************************************************************************)
EXTENDS Integers, SequencesExt

CONSTANTS LenBase,       \* 128 in the code: a byte of a length below it is the
                         \* last one
          MAX_LEN_BYTES  \* 4 in the code

ASSUME CodecAssumption == LenBase \in Nat \ {0, 1} /\ MAX_LEN_BYTES \in Nat

-----------------------------------------------------------------------------
(* Numbers *)

\* packi16, packi32 and packi64: the last w bytes of val.
packi(val, w) ==
  LET shifted[n \in 0..w - 1] == IF n = 0 THEN val ELSE shifted[n - 1] \div 256
  IN  [j \in 1..w |-> shifted[w - j] % 256]

\* unpacku16 and its like.
unpacku(bytes) == FoldLeft(LAMBDA n, b : 256 * n + b, 0, bytes)

\* unpacki32 and its like: the first byte carries the sign.
unpacki(bytes) ==
  FoldLeft(LAMBDA n, b : 256 * n + b,
           IF Head(bytes) > 127 THEN Head(bytes) - 256 ELSE Head(bytes), Tail(bytes))

-----------------------------------------------------------------------------
(* Strings end at their first zero byte *)

strlen(s) == LET ends == {i \in 1..Len(s) : s[i] = 0}
             IN  IF ends = {} THEN Len(s)
                 ELSE (CHOOSE i \in ends : \A j \in ends : i <= j) - 1

CString(s) == SubSeq(s, 1, strlen(s))

-----------------------------------------------------------------------------
(* pack *)

Width(letter) == CASE letter = "B" -> 1 [] letter = "H" -> 2
                   [] letter \in {"i", "I"} -> 4 [] letter = "Q" -> 8

\* A string is stored without its length.
pack(format) ==
  FlattenSeq([i \in 1..Len(format) |->
                IF format[i][1] = "s" THEN CString(format[i][2])
                ELSE packi(format[i][2], Width(format[i][1]))])

-----------------------------------------------------------------------------
(* encode_length and decode_length *)

RECURSIVE encode_length(_, _), decode_length(_, _, _)

\* Seven bits at a time, as long as there is room.
encode_length(len, room) ==
  IF room = 0 THEN <<>>
  ELSE <<(len % LenBase) + IF len \div LenBase > 0 THEN LenBase ELSE 0>>
       \o IF len \div LenBase > 0 THEN encode_length(len \div LenBase, room - 1)
          ELSE <<>>

\* Value and number of bytes of the length that starts at index i; a value of
\* -1 when it runs into something that is no byte of a length.
decode_length(bytes, i, multiplier) ==
  IF i > Len(bytes) \/ bytes[i] < 0 THEN <<-1, 0>>
  ELSE IF bytes[i] < LenBase THEN <<bytes[i] * multiplier, 1>>
  ELSE LET rest == decode_length(bytes, i + 1, multiplier * LenBase)
       IN  IF rest[1] = -1 THEN rest
           ELSE <<(bytes[i] - LenBase) * multiplier + rest[1], rest[2] + 1>>
=============================================================================
