---------------------------- MODULE Serializer ----------------------------
(***************************************************************************)
(* The conversions of core/serializer_deserializer.hpp between values and  *)
(* bytes: size_of, append and extract of each scalar type, and serialize   *)
(* and deserialize of a tuple of scalars.  Integers go on the wire with    *)
(* their highest byte first.  A float or a double is the integer of its    *)
(* bits, which pseudo_cast copies.                                         *)
(*                                                                         *)
(* B is the number of values of a byte: 256 in the code, smaller for TLC,  *)
(* whose integers do not hold a uint32_t.                                  *)
(***************************************************************************)
EXTENDS Integers, Sequences

CONSTANT B

ASSUME ByteAssumption == B \in Nat \ {0} /\ B % 2 = 0

Byte == 0..(B - 1)

Type == {"u8", "i8", "u16", "i16", "u32", "i32", "u64", "i64", "float", "double", "bool"}

\* Bytes of a value of type t.
size_of(t) ==
  CASE t \in {"u8", "i8", "bool"}     -> 1
    [] t \in {"u16", "i16"}           -> 2
    [] t \in {"u32", "i32", "float"}  -> 4
    [] t \in {"u64", "i64", "double"} -> 8

\* Values of a uint16_t, of a uint32_t and of a uint64_t.
Half == B * B
Word == Half * Half
Long == Word * Word

\* The values of type t.
Value(t) ==
  CASE t = "u8"                -> 0..(B - 1)
    [] t = "i8"                -> -(B \div 2)..(B \div 2 - 1)
    [] t = "u16"               -> 0..(Half - 1)
    [] t = "i16"               -> -(Half \div 2)..(Half \div 2 - 1)
    [] t \in {"u32", "float"}  -> 0..(Word - 1)
    [] t = "i32"               -> -(Word \div 2)..(Word \div 2 - 1)
    [] t \in {"u64", "double"} -> 0..(Long - 1)
    [] t = "i64"               -> -(Long \div 2)..(Long \div 2 - 1)
    [] t = "bool"              -> BOOLEAN

\* reinterpret_cast of a signed integer to the unsigned one of m values, and
\* back.
Unsigned(v, m) == IF v < 0 THEN v + m ELSE v
Signed(u, m) == IF u < m \div 2 THEN u ELSE u - m
-----------------------------------------------------------------------------
(***************************************************************************)
(* append                                                                  *)
(***************************************************************************)
Shr(v) == v \div B      \* v >> 8
Low(v) == v % B         \* v & 0xff

append_u16(v) == <<Low(Shr(v)), Low(v)>>

append_u32(v) == <<Low(Shr(Shr(Shr(v)))), Low(Shr(Shr(v))), Low(Shr(v)), Low(v)>>

append_u64(v) == append_u32(v \div Word) \o append_u32(v % Word)

append(t, v) ==
  CASE t = "u8"                -> <<v>>
    [] t = "i8"                -> <<Unsigned(v, B)>>
    [] t = "u16"               -> append_u16(v)
    [] t = "i16"               -> append_u16(Unsigned(v, Half))
    [] t \in {"u32", "float"}  -> append_u32(v)
    [] t = "i32"               -> append_u32(Unsigned(v, Word))
    [] t \in {"u64", "double"} -> append_u64(v)
    [] t = "i64"               -> append_u64(Unsigned(v, Long))
    [] t = "bool"              -> IF v THEN <<1>> ELSE <<0>>
-----------------------------------------------------------------------------
(***************************************************************************)
(* extract, from the first bytes of b                                      *)
(***************************************************************************)
extract_u16(b) == b[2] + b[1] * B

extract_u32(b) == b[4] + (b[3] + (b[2] + b[1] * B) * B) * B

extract_u64(b) == extract_u32(<<b[5], b[6], b[7], b[8]>>) + extract_u32(b) * Word

extract(t, b) ==
  CASE t = "u8"                -> b[1]
    [] t = "i8"                -> Signed(b[1], B)
    [] t = "u16"               -> extract_u16(b)
    [] t = "i16"               -> Signed(extract_u16(b), Half)
    [] t \in {"u32", "float"}  -> extract_u32(b)
    [] t = "i32"               -> Signed(extract_u32(b), Word)
    [] t \in {"u64", "double"} -> extract_u64(b)
    [] t = "i64"               -> Signed(extract_u64(b), Long)
    [] t = "bool"              -> b[1] = 1
-----------------------------------------------------------------------------
(***************************************************************************)
(* Tuples: each value at the sum of the sizes of those before it.          *)
(***************************************************************************)
\* Bytes of the first n types.
SizeUpTo(types, n) ==
  LET sum[i \in 0..n] == IF i = 0 THEN 0 ELSE sum[i - 1] + size_of(types[i])
  IN  sum[n]

required_buffer_size(types) == SizeUpTo(types, Len(types))

serialize(types, values) ==
  LET buff[i \in 0..Len(types)] ==
        IF i = 0 THEN << >> ELSE buff[i - 1] \o append(types[i], values[i])
  IN  buff[Len(types)]

deserialize(types, buff) ==
  [i \in 1..Len(types) |->
     extract(types[i], SubSeq(buff, SizeUpTo(types, i - 1) + 1, SizeUpTo(types, i)))]
=============================================================================
