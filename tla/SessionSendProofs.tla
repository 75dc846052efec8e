------------------------- MODULE SessionSendProofs -------------------------
(***************************************************************************)
(* Proofs about Serializer and SessionSend, for every width of a byte,     *)
(* every set of messages and any number of threads.                        *)
(*  - What extract makes of the bytes of append: an integer is rebuilt     *)
(*    from its bytes by dividing and multiplying by B one byte at a time   *)
(*    (DivMod), a signed one by the two reinterpretations being inverse    *)
(*    (SignedUnsigned), a uint64_t from its halves.                        *)
(*  - What a decoder reads in a stream depends only on the bytes at its    *)
(*    position (Holds), and a stream is its pieces put together (Cat): so  *)
(*    tuples, arguments, messages, frames and streams of any length.       *)
(*  - SSInv, inductive: the buffers hold what has been serialised of the   *)
(*    message of a send that is alone, the stream the messages sent and    *)
(*    the written part of one frame.                                       *)
(***************************************************************************)
EXTENDS SessionSend, SequenceTheorems, WellFoundedInduction, TLAPS

\* Division by a positive number leaves a quotient and a remainder.
LEMMA DivMod ==
  ASSUME NEW v \in Nat, NEW m \in Nat \ {0}
  PROVE  /\ v \div m \in Nat /\ v % m \in 0..(m - 1)
         /\ v = (v % m) + (v \div m) * m
  OBVIOUS

\* The quotient is small when the number is.
LEMMA DivBound ==
  ASSUME NEW m \in Nat \ {0}, NEW n \in Nat, NEW v \in 0..(n * m - 1)
  PROVE  v \div m \in 0..(n - 1)
<1>1. v \in Nat /\ v < n * m
  OBVIOUS
<1>2. v \div m \in Nat /\ v % m \in Nat /\ v = (v % m) + (v \div m) * m
  BY <1>1, DivMod
<1>3. ASSUME v \div m >= n PROVE FALSE
  <2> DEFINE q == v \div m
  <2>1. q \in Nat /\ q >= n
    BY <1>2, <1>3
  <2>2. q * m >= n * m
    BY <2>1
  <2> QED
    BY <1>1, <1>2, <2>2
<1> QED
  BY <1>2, <1>3

\* What the code takes of B: it is a positive natural, and so are its powers.
LEMMA Widths ==
  /\ B \in Nat \ {0} /\ Half \in Nat \ {0} /\ Word \in Nat \ {0} /\ Long \in Nat \ {0}
  /\ Half = B * B /\ Word = Half * Half /\ Long = Word * Word
<1>1. B \in Nat \ {0}
  BY ByteAssumption
<1>2. Half \in Nat \ {0}
  BY <1>1 DEF Half
<1>3. Word \in Nat \ {0}
  BY <1>2 DEF Word
<1>4. Long \in Nat \ {0}
  BY <1>3 DEF Long
<1> QED
  BY <1>1, <1>2, <1>3, <1>4 DEF Half, Word, Long

\* The widths are even.
LEMMA EvenWidths ==
  \A m \in {B, Half, Word, Long} : \E h \in Nat : m = 2 * h
<1>1. PICK h \in Nat : B = 2 * h
  <2>1. B = 2 * (B \div 2) /\ B \div 2 \in Nat
    BY ByteAssumption
  <2> QED
    BY <2>1
<1>2. Half = 2 * (h * B) /\ h * B \in Nat
  BY <1>1, Widths
<1>3. Word = 2 * ((h * B) * Half) /\ (h * B) * Half \in Nat
  BY <1>2, Widths
<1>4. Long = 2 * (((h * B) * Half) * Word) /\ ((h * B) * Half) * Word \in Nat
  BY <1>3, Widths
<1> QED
  BY <1>1, <1>2, <1>3, <1>4

\* A signed integer is what its unsigned reinterpretation is read back as.
LEMMA SignedUnsigned ==
  ASSUME NEW m \in Nat, NEW h \in Nat, m = 2 * h,
         NEW v \in -(m \div 2)..(m \div 2 - 1)
  PROVE  /\ Unsigned(v, m) \in 0..(m - 1)
         /\ Signed(Unsigned(v, m), m) = v
<1>1. m \div 2 = h
  OBVIOUS
<1> QED
  BY <1>1 DEF Signed, Unsigned

\* Two bytes.
LEMMA RoundTrip16 ==
  ASSUME NEW v \in 0..(Half - 1)
  PROVE  extract_u16(append_u16(v)) = v
<1>1. v \in Nat /\ B \in Nat \ {0} /\ Half = B * B
  BY Widths
<1>2. Shr(v) \in 0..(B - 1)
  BY <1>1, DivBound DEF Shr
<1>3. Low(Shr(v)) = Shr(v)
  BY <1>1, <1>2 DEF Low
<1>4. v = Low(v) + Shr(v) * B
  BY <1>1, DivMod DEF Low, Shr
<1> QED
  BY <1>3, <1>4 DEF extract_u16, append_u16

\* Four bytes.
LEMMA RoundTrip32 ==
  ASSUME NEW v \in 0..(Word - 1)
  PROVE  /\ extract_u32(append_u32(v)) = v
         /\ append_u32(v) \in Seq(Byte) /\ Len(append_u32(v)) = 4
<1> DEFINE s == Shr(v)
           t == Shr(s)
           u == Shr(t)
<1>1. v \in Nat /\ B \in Nat \ {0}
  BY Widths
<1>2. PICK n \in Nat : n = Half * B /\ Word = n * B
  BY Widths
<1>3. s \in 0..(Half * B - 1)
  BY <1>1, <1>2, DivBound DEF Shr
<1>4. t \in 0..(Half - 1)
  BY <1>1, <1>3, Widths, DivBound DEF Shr
<1>5. u \in 0..(B - 1)
  BY <1>1, <1>4, Widths, DivBound DEF Shr
<1>6. v = Low(v) + s * B /\ Low(v) \in Byte
  BY <1>1, DivMod DEF Low, Shr, Byte
<1>7. s = Low(s) + t * B /\ Low(s) \in Byte
  BY <1>1, <1>3, DivMod DEF Low, Shr, Byte
<1>8. t = Low(t) + u * B /\ Low(t) \in Byte
  BY <1>1, <1>4, DivMod DEF Low, Shr, Byte
<1>9. u = Low(u) /\ Low(u) \in Byte
  BY <1>1, <1>5 DEF Low, Byte
<1>10. append_u32(v) = <<Low(u), Low(t), Low(s), Low(v)>>
  BY DEF append_u32
<1> HIDE DEF s, t, u
<1>11. extract_u32(append_u32(v)) = v
  BY <1>6, <1>7, <1>8, <1>9, <1>10 DEF extract_u32
<1> QED
  BY <1>6, <1>7, <1>8, <1>9, <1>10, <1>11

\* The bytes of two four-byte sequences put together.
LEMMA ConcatFour ==
  ASSUME NEW p \in Seq(Byte), Len(p) = 4, NEW q \in Seq(Byte), Len(q) = 4
  PROVE  /\ extract_u32(p \o q) = extract_u32(p)
         /\ extract_u64(p \o q) = extract_u32(q) + extract_u32(p) * Word
<1> DEFINE r == p \o q
<1>1. \A i \in 1..(Len(p) + Len(q)) : r[i] = IF i <= Len(p) THEN p[i] ELSE q[i - Len(p)]
  BY ConcatProperties, Zenon
<1> HIDE DEF r
<1>2. \A i \in 1..8 : r[i] = IF i <= 4 THEN p[i] ELSE q[i - 4]
  BY <1>1
<1>3. r[1] = p[1] /\ r[2] = p[2] /\ r[3] = p[3] /\ r[4] = p[4]
  BY <1>2
<1>4. r[5] = q[1] /\ r[6] = q[2] /\ r[7] = q[3] /\ r[8] = q[4]
  BY <1>2
<1>5. extract_u32(r) = extract_u32(p)
  BY <1>3 DEF extract_u32
<1>6. extract_u32(<<q[1], q[2], q[3], q[4]>>) = extract_u32(q)
  BY DEF extract_u32
<1>7. extract_u64(r) = extract_u32(q) + extract_u32(p) * Word
  BY <1>4, <1>5, <1>6 DEF extract_u64
<1> QED
  BY <1>5, <1>7 DEF r

\* Eight bytes: the two halves.
LEMMA RoundTrip64 ==
  ASSUME NEW v \in 0..(Long - 1)
  PROVE  extract_u64(append_u64(v)) = v
<1> DEFINE hi == v \div Word
           lo == v % Word
<1>1. v \in Nat /\ Word \in Nat \ {0} /\ Long = Word * Word
  BY Widths
<1>2. hi \in 0..(Word - 1)
  BY <1>1, DivBound
<1>3. lo \in 0..(Word - 1) /\ v = lo + hi * Word
  BY <1>1, DivMod
<1> HIDE DEF hi, lo
<1> DEFINE p == append_u32(hi)
           q == append_u32(lo)
<1>4. /\ extract_u32(p) = hi /\ p \in Seq(Byte) /\ Len(p) = 4
      /\ extract_u32(q) = lo /\ q \in Seq(Byte) /\ Len(q) = 4
  BY <1>2, <1>3, RoundTrip32
<1>5. append_u64(v) = p \o q
  BY DEF append_u64, hi, lo
<1> HIDE DEF p, q
<1>6. extract_u64(p \o q) = lo + hi * Word
  BY <1>4, ConcatFour
<1> QED
  BY <1>3, <1>5, <1>6

(***************************************************************************)
(* What append<T> writes, extract<T> reads back, for every type of the     *)
(* protocol, every value of it and every even width of a byte, the code's  *)
(* 256 included, which is beyond TLC.                                      *)
(***************************************************************************)
THEOREM RoundTrip ==
  ASSUME NEW t \in Type, NEW v \in Value(t)
  PROVE  extract(t, append(t, v)) = v
<1>1. CASE t = "u8"
  BY <1>1 DEF append, extract, Value
<1>2. CASE t = "i8"
  <2>1. PICK h \in Nat : B = 2 * h
    BY EvenWidths
  <2> QED
    BY <1>2, <2>1, Widths, SignedUnsigned DEF append, extract, Value
<1>3. CASE t = "u16"
  BY <1>3, RoundTrip16 DEF append, extract, Value
<1>4. CASE t = "i16"
  <2>1. PICK h \in Nat : Half = 2 * h
    BY EvenWidths
  <2>2. Unsigned(v, Half) \in 0..(Half - 1) /\ Signed(Unsigned(v, Half), Half) = v
    BY <1>4, <2>1, Widths, SignedUnsigned DEF Value
  <2> QED
    BY <1>4, <2>2, RoundTrip16 DEF append, extract
<1>5. CASE t \in {"u32", "float"}
  BY <1>5, RoundTrip32 DEF append, extract, Value
<1>6. CASE t = "i32"
  <2>1. PICK h \in Nat : Word = 2 * h
    BY EvenWidths
  <2>2. Unsigned(v, Word) \in 0..(Word - 1) /\ Signed(Unsigned(v, Word), Word) = v
    BY <1>6, <2>1, Widths, SignedUnsigned DEF Value
  <2> QED
    BY <1>6, <2>2, RoundTrip32 DEF append, extract
<1>7. CASE t \in {"u64", "double"}
  BY <1>7, RoundTrip64 DEF append, extract, Value
<1>8. CASE t = "i64"
  <2>1. PICK h \in Nat : Long = 2 * h
    BY EvenWidths
  <2>2. Unsigned(v, Long) \in 0..(Long - 1) /\ Signed(Unsigned(v, Long), Long) = v
    BY <1>8, <2>1, Widths, SignedUnsigned DEF Value
  <2> QED
    BY <1>8, <2>2, RoundTrip64 DEF append, extract
<1>9. CASE t = "bool"
  BY <1>9 DEF append, extract, Value
<1> QED
  BY <1>1, <1>2, <1>3, <1>4, <1>5, <1>6, <1>7, <1>8, <1>9 DEF Type
-----------------------------------------------------------------------------
(***************************************************************************)
(* Sequences of bytes put one after the other.                             *)
(***************************************************************************)
\* A nonempty set of naturals has a least element: how the lemmas below do
\* without an induction rule.
LEMMA LeastNat ==
  ASSUME NEW S \in SUBSET Nat, S # {}
  PROVE  \E m \in S : \A n \in S : m <= n
<1> DEFINE R == {ss \in Nat \X Nat : ss[1] < ss[2]}
<1>1. IsWellFoundedOn(R, Nat)
  BY NatLessThanWellFounded, Zenon DEF OpToRel
<1>2. PICK m \in S : \A n \in S : ~(<<n, m>> \in R)
  <2> HIDE DEF R
  <2> QED BY <1>1, WFMin, Zenon
<1>3. \A n \in S : ~(n < m)
  BY <1>2
<1> QED BY <1>3

\* What holds at 0 and passes from each number to the next holds up to N: the
\* set of the numbers for which it holds is all of them.
LEMMA UpTo ==
  ASSUME NEW N \in Nat, NEW S, 0 \in S, \A i \in 0..(N - 1) : i \in S => i + 1 \in S
  PROVE  \A i \in 0..N : i \in S
<1> DEFINE T == {i \in 0..N : i \notin S}
<1> SUFFICES ASSUME T # {} PROVE FALSE
  OBVIOUS
<1>1. PICK m \in T : \A n \in T : m <= n
  <2>1. T \in SUBSET Nat
    OBVIOUS
  <2> HIDE DEF T
  <2> QED BY <2>1, LeastNat
<1>2. m \in 0..N /\ m # 0 /\ m \notin S
  BY <1>1
<1>3. m - 1 \in 0..(N - 1) /\ m - 1 \notin T
  BY <1>1, <1>2
<1>4. m - 1 \in S
  BY <1>3
<1>5. (m - 1) + 1 \in S
  BY <1>3, <1>4
<1> QED BY <1>2, <1>5

\* s holds the first elements of f put together, up to n of them.
IsConcat(s, f, n) == s = [i \in 0..n |-> IF i = 0 THEN << >> ELSE s[i - 1] \o f[i]]

\* There is such a function.
LEMMA ConcatExists ==
  ASSUME NEW f, NEW N \in Nat
  PROVE  \E s : IsConcat(s, f, N)
<1> DEFINE S == {n \in Nat : \E s : IsConcat(s, f, n)}
<1>1. 0 \in S
  <2> DEFINE g == [i \in 0..0 |-> << >>]
  <2>1. IsConcat(g, f, 0)
    BY DEF IsConcat
  <2> QED BY <2>1
<1>2. ASSUME NEW k \in 0..(N - 1), k \in S PROVE k + 1 \in S
  <2>1. PICK s : IsConcat(s, f, k)
    BY <1>2
  <2> DEFINE m == k + 1
             g == [i \in 0..m |-> IF i = m THEN s[m - 1] \o f[m] ELSE s[i]]
  <2>2. m \in Nat /\ m # 0 /\ m - 1 = k
    OBVIOUS
  <2>3. \A i \in 0..k : s[i] = IF i = 0 THEN << >> ELSE s[i - 1] \o f[i]
    BY <2>1 DEF IsConcat
  <2> HIDE DEF m
  <2>4. \A i \in 0..m : g[i] = IF i = 0 THEN << >> ELSE g[i - 1] \o f[i]
    BY <2>2, <2>3
  <2>5. IsConcat(g, f, m)
    BY <2>4 DEF IsConcat
  <2> QED BY <2>2, <2>5 DEF m
<1> HIDE DEF S
<1>3. \A i \in 0..N : i \in S
  BY <1>1, <1>2, UpTo
<1>4. N \in S
  BY <1>3
<1> QED BY <1>4 DEF S

\* Two such functions agree where both are defined.
LEMMA ConcatAgree ==
  ASSUME NEW f, NEW M \in Nat, NEW N \in Nat, M <= N,
         NEW s, IsConcat(s, f, M), NEW g, IsConcat(g, f, N)
  PROVE  \A i \in 0..M : s[i] = g[i]
<1> DEFINE S == {i \in 0..M : s[i] = g[i]}
<1>1. /\ \A i \in 0..M : s[i] = IF i = 0 THEN << >> ELSE s[i - 1] \o f[i]
      /\ \A i \in 0..N : g[i] = IF i = 0 THEN << >> ELSE g[i - 1] \o f[i]
  BY DEF IsConcat
<1>2. 0 \in S
  BY <1>1
<1>3. ASSUME NEW i \in 0..(M - 1), i \in S PROVE i + 1 \in S
  <2>1. i + 1 \in 0..M /\ i + 1 \in 0..N /\ i + 1 # 0 /\ (i + 1) - 1 = i
    OBVIOUS
  <2>2. s[i + 1] = s[i] \o f[i + 1] /\ g[i + 1] = g[i] \o f[i + 1]
    BY <1>1, <2>1
  <2> QED BY <1>3, <2>1, <2>2
<1> HIDE DEF S
<1>4. \A i \in 0..M : i \in S
  BY <1>2, <1>3, UpTo
<1> QED BY <1>4 DEF S

\* The first n elements of f, put together.
Cat(f, n) == (CHOOSE s : IsConcat(s, f, n))[n]

\* Any function as above holds them.
LEMMA CatIs ==
  ASSUME NEW f, NEW N \in Nat, NEW s, IsConcat(s, f, N)
  PROVE  \A i \in 0..N : s[i] = Cat(f, i)
<1> SUFFICES ASSUME NEW i \in 0..N PROVE s[i] = Cat(f, i)
  OBVIOUS
<1> DEFINE g == CHOOSE g : IsConcat(g, f, i)
<1>1. IsConcat(g, f, i) /\ Cat(f, i) = g[i]
  BY ConcatExists DEF Cat
<1> HIDE DEF g
<1> QED BY <1>1, ConcatAgree

LEMMA CatSteps ==
  ASSUME NEW f
  PROVE  /\ Cat(f, 0) = << >>
         /\ \A n \in Nat : Cat(f, n + 1) = Cat(f, n) \o f[n + 1]
<1>1. PICK s : IsConcat(s, f, 0)
  BY ConcatExists
<1>2. s[0] = << >> /\ s[0] = Cat(f, 0)
  BY <1>1, CatIs DEF IsConcat
<1>3. ASSUME NEW n \in Nat PROVE Cat(f, n + 1) = Cat(f, n) \o f[n + 1]
  <2>1. PICK g : IsConcat(g, f, n + 1)
    BY ConcatExists
  <2>2. g[n + 1] = Cat(f, n + 1) /\ g[n] = Cat(f, n)
    BY <2>1, CatIs
  <2>3. PICK m : m = n + 1
    OBVIOUS
  <2>4. \A i \in 0..m : g[i] = IF i = 0 THEN << >> ELSE g[i - 1] \o f[i]
    <3>1. g = [i \in 0..m |-> IF i = 0 THEN << >> ELSE g[i - 1] \o f[i]]
      BY <2>1, <2>3, Zenon DEF IsConcat
    <3> QED BY <3>1, Zenon
  <2>5. m \in 0..m /\ m # 0 /\ m - 1 = n
    BY <2>3
  <2>6. g[m] = g[n] \o f[m]
    BY <2>4, <2>5
  <2> QED BY <2>2, <2>3, <2>6, Zenon
<1> QED BY <1>2, <1>3

\* Bytes put together are bytes.
LEMMA CatType ==
  ASSUME NEW f, NEW N \in Nat, \A i \in 1..N : f[i] \in Seq(Byte)
  PROVE  /\ \A n \in 0..N : Cat(f, n) \in Seq(Byte)
         /\ \A n \in 1..N : /\ Cat(f, n) = Cat(f, n - 1) \o f[n]
                            /\ Len(Cat(f, n)) = Len(Cat(f, n - 1)) + Len(f[n])
<1> DEFINE S == {n \in Nat : Cat(f, n) \in Seq(Byte)}
<1>1. 0 \in S
  BY CatSteps, EmptySeq
<1>2. ASSUME NEW i \in 0..(N - 1), i \in S PROVE i + 1 \in S
  <2>1. i \in Nat /\ i + 1 \in 1..N /\ Cat(f, i) \in Seq(Byte) /\ f[i + 1] \in Seq(Byte)
    BY <1>2
  <2>2. Cat(f, i + 1) = Cat(f, i) \o f[i + 1]
    BY <2>1, CatSteps
  <2>3. Cat(f, i + 1) \in Seq(Byte)
    BY <2>1, <2>2, ConcatProperties
  <2>4. i + 1 \in Nat
    BY <2>1
  <2> QED BY <2>3, <2>4, Zenon
<1> HIDE DEF S
<1>3. \A n \in 0..N : n \in S
  BY <1>1, <1>2, UpTo
<1>4. \A n \in 0..N : Cat(f, n) \in Seq(Byte)
  BY <1>3 DEF S
<1>5. ASSUME NEW n \in 1..N
      PROVE  /\ Cat(f, n) = Cat(f, n - 1) \o f[n]
             /\ Len(Cat(f, n)) = Len(Cat(f, n - 1)) + Len(f[n])
  <2>1. n - 1 \in Nat /\ n - 1 \in 0..N /\ (n - 1) + 1 = n
    OBVIOUS
  <2>2. Cat(f, n) = Cat(f, n - 1) \o f[n]
    BY <2>1, CatSteps
  <2> QED BY <2>1, <2>2, <1>4, ConcatProperties
<1> QED BY <1>4, <1>5

\* Equal elements put together are equal.
LEMMA CatEqual ==
  ASSUME NEW f, NEW g, NEW N \in Nat, \A i \in 1..N : f[i] = g[i]
  PROVE  Cat(f, N) = Cat(g, N)
<1> DEFINE S == {n \in Nat : Cat(f, n) = Cat(g, n)}
<1>1. 0 \in S
  BY CatSteps
<1>2. ASSUME NEW i \in 0..(N - 1), i \in S PROVE i + 1 \in S
  <2>1. i \in Nat /\ i + 1 \in 1..N /\ Cat(f, i) = Cat(g, i) /\ f[i + 1] = g[i + 1]
    BY <1>2
  <2>2. Cat(f, i + 1) = Cat(f, i) \o f[i + 1] /\ Cat(g, i + 1) = Cat(g, i) \o g[i + 1]
    BY <2>1, CatSteps
  <2>3. Cat(f, i + 1) = Cat(g, i + 1)
    BY <2>1, <2>2, Zenon
  <2>4. i + 1 \in Nat
    BY <2>1
  <2> QED BY <2>3, <2>4, Zenon
<1> HIDE DEF S
<1>3. \A n \in 0..N : n \in S
  BY <1>1, <1>2, UpTo
<1> QED BY <1>3 DEF S

\* Elements of one length.
LEMMA CatLen ==
  ASSUME NEW f, NEW N \in Nat, NEW c \in Nat,
         \A i \in 1..N : f[i] \in Seq(Byte) /\ Len(f[i]) = c
  PROVE  \A n \in 0..N : Len(Cat(f, n)) = n * c
<1> DEFINE S == {n \in 0..N : Len(Cat(f, n)) = n * c}
<1>1. 0 \in S
  BY CatSteps
<1>2. ASSUME NEW i \in 0..(N - 1), i \in S PROVE i + 1 \in S
  <2>1. Len(Cat(f, i + 1)) = Len(Cat(f, i)) + c
    <3>1. i + 1 \in 1..N /\ (i + 1) - 1 = i
      OBVIOUS
    <3> QED BY <3>1, CatType
  <2>2. (i + 1) * c = i * c + c /\ i + 1 \in 0..N
    OBVIOUS
  <2> QED BY <1>2, <2>1, <2>2
<1> HIDE DEF S
<1>3. \A n \in 0..N : n \in S
  BY <1>1, <1>2, UpTo
<1> QED BY <1>3 DEF S

\* The bytes s are in buff after position p.
Holds(buff, p, s) == p + Len(s) <= Len(buff) /\ \A i \in 1..Len(s) : buff[p + i] = s[i]

\* Bytes held are read with SubSeq.
LEMMA HoldsRead ==
  ASSUME NEW buff \in Seq(Byte), NEW p \in Nat, NEW s \in Seq(Byte), Holds(buff, p, s)
  PROVE  SubSeq(buff, p + 1, p + Len(s)) = s
<1> DEFINE r == SubSeq(buff, p + 1, p + Len(s))
<1>1. \A i \in (p + 1)..(p + Len(s)) : buff[i] \in Byte
  BY DEF Holds
<1>2. r \in Seq(Byte) /\ Len(r) = Len(s) /\ \A i \in 1..Len(s) : r[i] = buff[p + i]
  <2> DEFINE m == p + 1
             n == p + Len(s)
  <2>1. m \in Int /\ n \in Int /\ n - m + 1 = Len(s) /\ (m <= n \/ Len(s) = 0)
        /\ \A i \in 1..Len(s) : m + i - 1 = p + i
    OBVIOUS
  <2>2. r = SubSeq(buff, m, n) /\ \A i \in m..n : buff[i] \in Byte
    BY <1>1
  <2> HIDE DEF m, n, r
  <2>3. /\ r \in Seq(Byte)
        /\ Len(r) = IF m <= n THEN n - m + 1 ELSE 0
        /\ \A i \in 1..(n - m + 1) : r[i] = buff[m + i - 1]
    BY <2>1, <2>2, SubSeqProperties
  <2>4. Len(r) = Len(s)
    BY <2>1, <2>3
  <2>5. ASSUME NEW i \in 1..Len(s) PROVE r[i] = buff[p + i]
    BY <2>1, <2>3
  <2> QED BY <2>3, <2>4, <2>5
<1> HIDE DEF r
<1>3. \A i \in 1..Len(s) : r[i] = s[i]
  BY <1>2 DEF Holds
<1>4. r = s
  BY <1>2, <1>3, SeqEqual
<1> QED BY <1>4 DEF r

\* Two sequences are held one after the other.
LEMMA HoldsConcat ==
  ASSUME NEW buff \in Seq(Byte), NEW p \in Nat, NEW s \in Seq(Byte), NEW t \in Seq(Byte)
  PROVE  Holds(buff, p, s \o t) <=> Holds(buff, p, s) /\ Holds(buff, p + Len(s), t)
<1> DEFINE r == s \o t
<1>1. /\ r \in Seq(Byte) /\ Len(r) = Len(s) + Len(t)
      /\ \A i \in 1..(Len(s) + Len(t)) : r[i] = IF i <= Len(s) THEN s[i] ELSE t[i - Len(s)]
  BY ConcatProperties
<1> HIDE DEF r
<1>2. ASSUME Holds(buff, p, r)
      PROVE  Holds(buff, p, s) /\ Holds(buff, p + Len(s), t)
  <2>1. Holds(buff, p, s)
    BY <1>1, <1>2 DEF Holds
  <2>2. ASSUME NEW i \in 1..Len(t) PROVE buff[(p + Len(s)) + i] = t[i]
    <3>1. Len(s) + i \in 1..(Len(s) + Len(t)) /\ ~(Len(s) + i <= Len(s)) /\ (Len(s) + i) - Len(s) = i
      OBVIOUS
    <3>2. r[Len(s) + i] = t[i]
      BY <1>1, <3>1
    <3>3. buff[p + (Len(s) + i)] = r[Len(s) + i]
      BY <1>1, <1>2, <3>1 DEF Holds
    <3> QED BY <3>2, <3>3
  <2> QED BY <1>1, <1>2, <2>1, <2>2 DEF Holds
<1>3. ASSUME Holds(buff, p, s), Holds(buff, p + Len(s), t)
      PROVE  Holds(buff, p, r)
  <2>1. ASSUME NEW i \in 1..Len(r) PROVE buff[p + i] = r[i]
    <3>1. CASE i <= Len(s)
      BY <1>1, <1>3, <3>1 DEF Holds
    <3>2. CASE ~(i <= Len(s))
      <4>1. i - Len(s) \in 1..Len(t) /\ (p + Len(s)) + (i - Len(s)) = p + i
        BY <1>1, <3>2
      <4>2. buff[p + i] = t[i - Len(s)]
        BY <1>3, <4>1 DEF Holds
      <4> QED BY <1>1, <3>2, <4>2
    <3> QED BY <3>1, <3>2
  <2> QED BY <1>1, <1>3, <2>1 DEF Holds
<1> QED BY <1>2, <1>3 DEF r

\* A sequence holds itself, and what it holds it still holds when it is longer.
LEMMA HoldsMore ==
  ASSUME NEW buff \in Seq(Byte), NEW b \in Seq(Byte)
  PROVE  /\ Holds(buff, 0, buff) /\ Holds(buff \o b, 0, buff) /\ Holds(buff \o b, Len(buff), b)
         /\ \A p \in Nat, s \in Seq(Byte) : Holds(buff, p, s) => Holds(buff \o b, p, s)
<1>1. Holds(buff, 0, buff)
  BY DEF Holds
<1> DEFINE r == buff \o b
<1>2. /\ r \in Seq(Byte) /\ Len(r) = Len(buff) + Len(b)
      /\ \A i \in 1..(Len(buff) + Len(b)) : r[i] = IF i <= Len(buff) THEN buff[i] ELSE b[i - Len(buff)]
  BY ConcatProperties
<1>3. Holds(r, 0, r)
  <2> HIDE DEF r
  <2> QED BY <1>2 DEF Holds
<1>4. Holds(r, 0, buff) /\ Holds(r, 0 + Len(buff), b)
  BY <1>2, <1>3, HoldsConcat
<1> HIDE DEF r
<1>5. ASSUME NEW p \in Nat, NEW s \in Seq(Byte), Holds(buff, p, s)
      PROVE  Holds(r, p, s)
  <2>1. p + Len(s) <= Len(buff) /\ \A i \in 1..Len(s) : buff[p + i] = s[i]
    BY <1>5 DEF Holds
  <2>2. ASSUME NEW i \in 1..Len(s) PROVE r[p + i] = s[i]
    <3>1. p + i \in 1..(Len(buff) + Len(b)) /\ p + i <= Len(buff)
      BY <2>1
    <3>2. r[p + i] = buff[p + i]
      BY <1>2, <3>1
    <3> QED BY <2>1, <3>2
  <2>3. p + Len(s) <= Len(r)
    BY <1>2, <2>1
  <2> QED BY <2>2, <2>3 DEF Holds
<1> QED BY <1>1, <1>4, <1>5 DEF r

\* Elements put together are held one after the other.
LEMMA CatHolds ==
  ASSUME NEW buff \in Seq(Byte), NEW p \in Nat,
         NEW f, NEW N \in Nat, \A i \in 1..N : f[i] \in Seq(Byte),
         Holds(buff, p, Cat(f, N))
  PROVE  \A k \in 1..N : Holds(buff, p + Len(Cat(f, k - 1)), f[k])
<1> DEFINE S == {i \in 0..N : Holds(buff, p, Cat(f, N - i))}
<1>0. \A n \in 1..N : Holds(buff, p, Cat(f, n)) =>
                        Holds(buff, p, Cat(f, n - 1)) /\ Holds(buff, p + Len(Cat(f, n - 1)), f[n])
  <2> TAKE n \in 1..N
  <2>0. n - 1 \in 0..N
    OBVIOUS
  <2>1. Cat(f, n) = Cat(f, n - 1) \o f[n] /\ Cat(f, n - 1) \in Seq(Byte) /\ f[n] \in Seq(Byte)
    BY <2>0, CatType
  <2> QED BY <2>1, HoldsConcat
<1>1. 0 \in S
  OBVIOUS
<1>2. ASSUME NEW i \in 0..(N - 1), i \in S PROVE i + 1 \in S
  <2>1. N - i \in 1..N /\ (N - i) - 1 = N - (i + 1) /\ i + 1 \in 0..N
    OBVIOUS
  <2> QED BY <1>0, <1>2, <2>1
<1> HIDE DEF S
<1>3. \A n \in 0..N : n \in S
  BY <1>1, <1>2, UpTo
<1>4. ASSUME NEW k \in 1..N PROVE Holds(buff, p, Cat(f, k))
  <2>1. N - k \in 0..N /\ N - (N - k) = k
    OBVIOUS
  <2>2. N - k \in S
    BY <1>3, <2>1
  <2> QED BY <2>1, <2>2 DEF S
<1> QED BY <1>0, <1>4
-----------------------------------------------------------------------------
(***************************************************************************)
(* Scalars and tuples of scalars.                                          *)
(***************************************************************************)
LEMMA SizeOfType ==
  ASSUME NEW t \in Type
  PROVE  size_of(t) \in {1, 2, 4, 8}
  BY DEF Type, size_of

\* append writes as many bytes as the type has.
LEMMA AppendType ==
  ASSUME NEW t \in Type, NEW v \in Value(t)
  PROVE  append(t, v) \in Seq(Byte) /\ Len(append(t, v)) = size_of(t)
<1>0. B \in Nat \ {0} /\ \A x \in Nat : Low(x) \in Byte /\ Shr(x) \in Nat
  <2>1. B \in Nat \ {0}
    BY Widths
  <2>2. ASSUME NEW x \in Nat PROVE x % B \in 0..(B - 1) /\ x \div B \in Nat
    BY <2>1, DivMod
  <2> QED BY <2>1, <2>2 DEF Low, Shr, Byte
<1>1. ASSUME NEW x \in Nat PROVE append_u16(x) \in Seq(Byte) /\ Len(append_u16(x)) = 2
  <2>1. Low(Shr(x)) \in Byte /\ Low(x) \in Byte
    BY <1>0
  <2> QED BY <2>1 DEF append_u16
<1>2. ASSUME NEW x \in 0..(Long - 1) PROVE append_u64(x) \in Seq(Byte) /\ Len(append_u64(x)) = 8
  <2> DEFINE hi == x \div Word
             lo == x % Word
  <2>1. x \in Nat /\ Word \in Nat \ {0} /\ Long = Word * Word
    BY Widths
  <2>2. hi \in 0..(Word - 1)
    BY <2>1, DivBound
  <2>3. lo \in 0..(Word - 1)
    BY <2>1, DivMod
  <2> HIDE DEF hi, lo
  <2> DEFINE p == append_u32(hi)
             q == append_u32(lo)
  <2>4. p \in Seq(Byte) /\ Len(p) = 4 /\ q \in Seq(Byte) /\ Len(q) = 4
    BY <2>2, <2>3, RoundTrip32
  <2>5. append_u64(x) = p \o q
    BY DEF append_u64, hi, lo
  <2> HIDE DEF p, q
  <2>6. p \o q \in Seq(Byte) /\ Len(p \o q) = Len(p) + Len(q)
    BY <2>4, ConcatProperties, Zenon
  <2>7. Len(p \o q) = 8
    BY <2>4, <2>6
  <2> QED BY <2>5, <2>6, <2>7
<1>3. CASE t = "u8"
  <2>1. v \in Byte
    BY <1>3 DEF Value, Byte
  <2> QED BY <1>3, <2>1 DEF append, size_of
<1>4. CASE t = "i8"
  <2>1. PICK h \in Nat : B = 2 * h
    BY EvenWidths
  <2>2. Unsigned(v, B) \in Byte
    BY <1>4, <2>1, <1>0, SignedUnsigned DEF Value, Byte
  <2> QED BY <1>4, <2>2 DEF append, size_of
<1>5. CASE t = "u16"
  <2>1. v \in Nat
    BY <1>5, Widths DEF Value
  <2> QED BY <1>1, <1>5, <2>1 DEF append, size_of
<1>6. CASE t = "i16"
  <2>1. PICK h \in Nat : Half = 2 * h
    BY EvenWidths
  <2>2. Unsigned(v, Half) \in 0..(Half - 1)
    BY <1>6, <2>1, Widths, SignedUnsigned DEF Value
  <2>3. Unsigned(v, Half) \in Nat
    BY <2>2, Widths
  <2> QED BY <1>1, <1>6, <2>3 DEF append, size_of
<1>7. CASE t \in {"u32", "float"}
  <2>1. v \in 0..(Word - 1)
    BY <1>7 DEF Value
  <2> QED BY <1>7, <2>1, RoundTrip32 DEF append, size_of
<1>8. CASE t = "i32"
  <2>1. PICK h \in Nat : Word = 2 * h
    BY EvenWidths
  <2>2. Unsigned(v, Word) \in 0..(Word - 1)
    BY <1>8, <2>1, Widths, SignedUnsigned DEF Value
  <2> QED BY <1>8, <2>2, RoundTrip32 DEF append, size_of
<1>9. CASE t \in {"u64", "double"}
  <2>1. v \in 0..(Long - 1)
    BY <1>9 DEF Value
  <2> QED BY <1>2, <1>9, <2>1 DEF append, size_of
<1>10. CASE t = "i64"
  <2>1. PICK h \in Nat : Long = 2 * h
    BY EvenWidths
  <2>2. Unsigned(v, Long) \in 0..(Long - 1)
    BY <1>10, <2>1, Widths, SignedUnsigned DEF Value
  <2> QED BY <1>2, <1>10, <2>2 DEF append, size_of
<1>11. CASE t = "bool"
  <2>1. 0 \in Byte /\ 1 \in Byte
    <3>1. B % 2 = 0 /\ B \in Nat \ {0}
      BY ByteAssumption
    <3>2. B >= 2
      BY <3>1
    <3> QED BY <3>1, <3>2 DEF Byte
  <2>2. append(t, v) = <<1>> \/ append(t, v) = <<0>>
    BY <1>11 DEF append
  <2>3. size_of(t) = 1
    BY <1>11 DEF size_of
  <2>4. <<1>> \in Seq(Byte) /\ Len(<<1>>) = 1 /\ <<0>> \in Seq(Byte) /\ Len(<<0>>) = 1
    BY <2>1
  <2> QED BY <2>2, <2>3, <2>4, Zenon
<1> QED
  BY <1>3, <1>4, <1>5, <1>6, <1>7, <1>8, <1>9, <1>10, <1>11 DEF Type

IsSizes(s, types, n) == s = [i \in 0..n |-> IF i = 0 THEN 0 ELSE s[i - 1] + size_of(types[i])]

\* SizeUpTo is the length of that many elements with the sizes of the types.
LEMMA SizesAre ==
  ASSUME NEW types, NEW f, NEW N \in Nat,
         \A i \in 1..N : f[i] \in Seq(Byte) /\ Len(f[i]) = size_of(types[i])
  PROVE  \A n \in 0..N : SizeUpTo(types, n) = Len(Cat(f, n))
<1> SUFFICES ASSUME NEW n \in 0..N PROVE SizeUpTo(types, n) = Len(Cat(f, n))
  OBVIOUS
<1> DEFINE g == [i \in 0..n |-> Len(Cat(f, i))]
           s == CHOOSE s : IsSizes(s, types, n)
           S == {i \in 0..n : s[i] = g[i]}
<1>0. n \in Nat /\ n <= N
  OBVIOUS
<1>1. /\ Len(Cat(f, 0)) = 0
      /\ \A i \in 1..n : Len(Cat(f, i)) = Len(Cat(f, i - 1)) + size_of(types[i])
  <2>1. Len(Cat(f, 0)) = 0
    BY CatSteps
  <2>2. ASSUME NEW i \in 1..n
        PROVE  Len(Cat(f, i)) = Len(Cat(f, i - 1)) + size_of(types[i])
    <3>1. i \in 1..N
      BY <1>0
    <3>2. Len(Cat(f, i)) = Len(Cat(f, i - 1)) + Len(f[i])
      BY <3>1, CatType
    <3> QED BY <3>1, <3>2
  <2> QED BY <2>1, <2>2
<1>2. ASSUME NEW i \in 0..n
      PROVE  g[i] = IF i = 0 THEN 0 ELSE g[i - 1] + size_of(types[i])
  <2>1. CASE i = 0
    BY <1>1, <2>1
  <2>2. CASE i # 0
    <3>1. i \in 1..n /\ i - 1 \in 0..n
      BY <2>2, <1>0
    <3> QED BY <1>1, <2>2, <3>1
  <2> QED BY <2>1, <2>2
<1>3. IsSizes(g, types, n)
  <2>1. g = [i \in 0..n |-> g[i]]
    OBVIOUS
  <2> HIDE DEF g
  <2> QED BY <1>2, <2>1 DEF IsSizes
<1>4. IsSizes(s, types, n)
  <2> HIDE DEF g
  <2> QED BY <1>3
<1>5. SizeUpTo(types, n) = s[n]
  BY DEF SizeUpTo, IsSizes
<1> HIDE DEF s, g
<1>6. /\ \A i \in 0..n : s[i] = IF i = 0 THEN 0 ELSE s[i - 1] + size_of(types[i])
      /\ \A i \in 0..n : g[i] = IF i = 0 THEN 0 ELSE g[i - 1] + size_of(types[i])
  BY <1>3, <1>4 DEF IsSizes
<1>7. 0 \in S
  BY <1>0, <1>6
<1>8. ASSUME NEW i \in 0..(n - 1), i \in S PROVE i + 1 \in S
  <2>1. i + 1 \in 0..n /\ i + 1 # 0 /\ (i + 1) - 1 = i /\ s[i] = g[i]
    BY <1>0, <1>8
  <2>2. s[i + 1] = s[i] + size_of(types[i + 1]) /\ g[i + 1] = g[i] + size_of(types[i + 1])
    BY <1>6, <2>1
  <2> QED BY <2>1, <2>2
<1> HIDE DEF S
<1>9. n \in S
  <2>1. \A i \in 0..n : i \in S
    BY <1>0, <1>7, <1>8, UpTo
  <2> QED BY <1>0, <2>1
<1> QED BY <1>5, <1>9 DEF S, g

IsSerialized(s, types, values) ==
  s = [i \in 0..Len(types) |-> IF i = 0 THEN << >> ELSE s[i - 1] \o append(types[i], values[i])]

\* The bytes of the values, one after the other.
Appended(types, values) == [i \in 1..Len(types) |-> append(types[i], values[i])]

\* Each of values has its type.
Typed(types, values) == \A i \in 1..Len(types) : values[i] \in Value(types[i])

LEMMA SerializeIs ==
  ASSUME NEW types \in Seq(Type), NEW values, Typed(types, values)
  PROVE  /\ \A i \in 1..Len(types) : /\ Appended(types, values)[i] = append(types[i], values[i])
                                     /\ Appended(types, values)[i] \in Seq(Byte)
                                     /\ Len(Appended(types, values)[i]) = size_of(types[i])
         /\ serialize(types, values) = Cat(Appended(types, values), Len(types))
         /\ serialize(types, values) \in Seq(Byte)
         /\ required_buffer_size(types) = Len(serialize(types, values))
         /\ \A n \in 0..Len(types) : SizeUpTo(types, n) = Len(Cat(Appended(types, values), n))
<1> DEFINE f == Appended(types, values)
           N == Len(types)
           s == CHOOSE s : IsSerialized(s, types, values)
<1>1. N \in Nat
  OBVIOUS
<1>2. ASSUME NEW i \in 1..N
      PROVE  f[i] = append(types[i], values[i]) /\ f[i] \in Seq(Byte) /\ Len(f[i]) = size_of(types[i])
  <2>1. types[i] \in Type /\ values[i] \in Value(types[i])
    BY DEF Typed
  <2>2. f[i] = append(types[i], values[i])
    BY DEF Appended
  <2> QED BY <2>1, <2>2, AppendType
<1>3. serialize(types, values) = s[N]
  BY DEF serialize, IsSerialized
<1>4. \A r : IsConcat(r, f, N) <=> IsSerialized(r, types, values)
  <2> TAKE r
  <2>1. [i \in 0..N |-> IF i = 0 THEN << >> ELSE r[i - 1] \o f[i]]
        = [i \in 0..N |-> IF i = 0 THEN << >> ELSE r[i - 1] \o append(types[i], values[i])]
    <3>1. ASSUME NEW i \in 0..N, i # 0 PROVE f[i] = append(types[i], values[i])
      <4>1. i \in 1..N
        BY <1>1, <3>1
      <4> QED BY <1>2, <4>1
    <3> HIDE DEF f
    <3> QED BY <3>1
  <2> QED BY <2>1 DEF IsConcat, IsSerialized
<1>5. \E r : IsSerialized(r, types, values)
  <2> HIDE DEF f, N
  <2> QED BY <1>1, <1>4, ConcatExists
<1>6. IsConcat(s, f, N)
  BY <1>4, <1>5
<1> HIDE DEF s, f, N
<1>7. s[N] = Cat(f, N)
  <2>1. \A i \in 0..N : s[i] = Cat(f, i)
    BY <1>1, <1>6, CatIs
  <2>2. N \in 0..N
    BY <1>1
  <2> QED BY <2>1, <2>2
<1>8. \A n \in 0..N : SizeUpTo(types, n) = Len(Cat(f, n))
  BY <1>1, <1>2, SizesAre
<1>9. N \in 0..N /\ Cat(f, N) \in Seq(Byte)
  <2>1. N \in 0..N
    BY <1>1
  <2>2. \A i \in 0..N : Cat(f, i) \in Seq(Byte)
    BY <1>1, <1>2, CatType
  <2> QED BY <2>1, <2>2
<1>10. required_buffer_size(types) = Len(serialize(types, values))
  BY <1>3, <1>7, <1>8, <1>9 DEF required_buffer_size, N
<1> QED BY <1>2, <1>3, <1>7, <1>8, <1>9, <1>10 DEF f, N

\* A tuple of scalars is read from where its bytes are.
\* The tuple values is read in buff after p.
TupleAt(buff, p, types, values) ==
  deserialize(types, SubSeq(buff, p + 1, p + required_buffer_size(types)))
    = [i \in 1..Len(types) |-> values[i]]

LEMMA TupleHeld ==
  ASSUME NEW types \in Seq(Type), NEW values, Typed(types, values),
         NEW buff \in Seq(Byte), NEW p \in Nat, Holds(buff, p, serialize(types, values))
  PROVE  TupleAt(buff, p, types, values)
<1> DEFINE f == Appended(types, values)
           N == Len(types)
           b == serialize(types, values)
<1>1. /\ N \in Nat /\ b \in Seq(Byte) /\ b = Cat(f, N) /\ required_buffer_size(types) = Len(b)
      /\ \A n \in 0..N : SizeUpTo(types, n) = Len(Cat(f, n))
  BY SerializeIs
<1>2. \A i \in 1..N : f[i] = append(types[i], values[i]) /\ f[i] \in Seq(Byte)
  BY SerializeIs
<1> HIDE DEF f, b
<1>3. SubSeq(buff, p + 1, p + required_buffer_size(types)) = b
  BY <1>1, HoldsRead DEF b
<1>4. Holds(b, 0, Cat(f, N))
  BY <1>1, HoldsMore
<1>5. ASSUME NEW i \in 1..N
      PROVE  extract(types[i], SubSeq(b, SizeUpTo(types, i - 1) + 1, SizeUpTo(types, i))) = values[i]
  <2>1. i - 1 \in 0..N /\ i \in 0..N
    BY <1>1
  <2>2. Cat(f, i - 1) \in Seq(Byte) /\ Len(Cat(f, i)) = Len(Cat(f, i - 1)) + Len(f[i])
    BY <1>1, <1>2, <2>1, CatType
  <2>3. PICK q \in Nat : q = Len(Cat(f, i - 1))
    BY <2>2
  <2>4. Holds(b, 0 + Len(Cat(f, i - 1)), f[i])
    BY <1>1, <1>2, <1>4, CatHolds
  <2>5. Holds(b, q, f[i])
    BY <2>3, <2>4
  <2>6. SubSeq(b, q + 1, q + Len(f[i])) = f[i]
    BY <1>1, <1>2, <2>5, HoldsRead
  <2>7. SizeUpTo(types, i - 1) = q /\ SizeUpTo(types, i) = q + Len(f[i])
    BY <1>1, <2>1, <2>2, <2>3
  <2>8. types[i] \in Type /\ values[i] \in Value(types[i])
    BY DEF Typed
  <2>9. extract(types[i], f[i]) = values[i]
    BY <1>2, <2>8, RoundTrip
  <2> QED BY <2>6, <2>7, <2>9
<1> QED BY <1>3, <1>5 DEF TupleAt, deserialize

(***************************************************************************)
(* deserialize gives back the tuple that serialize was given, for tuples   *)
(* of any number of scalars of any types: each value is written and read   *)
(* at the same offset (serializer_deserializer.hpp, serialize and          *)
(* deserialize).                                                           *)
(***************************************************************************)
THEOREM TupleRoundTrip ==
  ASSUME NEW types \in Seq(Type), NEW values,
         values = [i \in 1..Len(types) |-> values[i]],
         \A i \in 1..Len(types) : values[i] \in Value(types[i])
  PROVE  /\ deserialize(types, serialize(types, values)) = values
         /\ Len(serialize(types, values)) = required_buffer_size(types)
<1> DEFINE b == serialize(types, values)
<1>1. Typed(types, values)
  BY DEF Typed
<1>2. b \in Seq(Byte) /\ Len(b) = required_buffer_size(types)
  BY <1>1, SerializeIs
<1> HIDE DEF b
<1>3. Holds(b, 0, b)
  BY <1>2, HoldsMore
<1>4. SubSeq(b, 0 + 1, 0 + Len(b)) = b
  BY <1>2, <1>3, HoldsRead
<1>5. deserialize(types, SubSeq(b, 0 + 1, 0 + required_buffer_size(types)))
        = [i \in 1..Len(types) |-> values[i]]
  <2>1. Holds(b, 0, serialize(types, values)) /\ 0 \in Nat
    BY <1>3 DEF b
  <2>2. b \in Seq(Byte)
    BY <1>2
  <2>3. TupleAt(b, 0, types, values)
    BY <1>1, <2>1, <2>2, TupleHeld, Zenon
  <2> QED BY <2>3, Zenon DEF TupleAt
<1>6. deserialize(types, b) = values
  BY <1>2, <1>4, <1>5
<1> QED BY <1>2, <1>6 DEF b

\* A scalar is read from where its bytes are.
LEMMA ScalarHeld ==
  ASSUME NEW t \in Type, NEW v \in Value(t),
         NEW buff \in Seq(Byte), NEW p \in Nat, Holds(buff, p, append(t, v))
  PROVE  Scalar(buff, p, t) = v
<1> DEFINE types == <<t>>
           values == <<v>>
           f == Appended(types, values)
<1>1. types \in Seq(Type) /\ Len(types) = 1 /\ types[1] = t /\ values[1] = v /\ Typed(types, values)
  BY DEF Typed
<1> HIDE DEF types, values
<1>2. f[1] = append(t, v)
  BY <1>1 DEF Appended
<1>3. append(t, v) \in Seq(Byte) /\ Len(append(t, v)) = size_of(t)
  BY AppendType
<1> HIDE DEF f
<1>4. Cat(f, 1) = append(t, v)
  <2>1. Cat(f, 0) = << >> /\ Cat(f, 0 + 1) = Cat(f, 0) \o f[0 + 1]
    BY CatSteps
  <2>2. << >> \o append(t, v) = append(t, v)
    BY <1>3, ConcatEmptySeq
  <2>3. 0 + 1 = 1
    OBVIOUS
  <2>4. Cat(f, 1) = << >> \o append(t, v)
    BY <1>2, <2>1, <2>3
  <2> QED BY <2>2, <2>4
<1>5. serialize(types, values) = append(t, v) /\ required_buffer_size(types) = size_of(t)
  <2>1. serialize(types, values) = Cat(f, Len(types))
        /\ required_buffer_size(types) = Len(serialize(types, values))
    BY <1>1, SerializeIs, Zenon DEF f
  <2> QED BY <1>1, <1>3, <1>4, <2>1
<1>6. deserialize(types, SubSeq(buff, p + 1, p + required_buffer_size(types)))
        = [i \in 1..Len(types) |-> values[i]]
  <2>1. Holds(buff, p, serialize(types, values))
    BY <1>5
  <2>2. types \in Seq(Type) /\ Typed(types, values)
    BY <1>1
  <2>3. TupleAt(buff, p, types, values)
    BY <2>1, <2>2, TupleHeld, Zenon
  <2> QED BY <2>3, Zenon DEF TupleAt
<1> QED BY <1>1, <1>5, <1>6 DEF Scalar, types
-----------------------------------------------------------------------------
(***************************************************************************)
(* Arrays, containers and messages.                                        *)
(***************************************************************************)
LEMMA ReverseTwice ==
  ASSUME NEW s \in Seq(Byte)
  PROVE  Reverse(s) \in Seq(Byte) /\ Len(Reverse(s)) = Len(s) /\ Reverse(Reverse(s)) = s
<1> DEFINE n == Len(s)
           r == Reverse(s)
           q == Reverse(r)
<1>1. n \in Nat /\ \A i \in 1..n : (n - i) + 1 \in 1..n /\ (n - ((n - i) + 1)) + 1 = i
  OBVIOUS
<1>2. r = [i \in 1..n |-> s[(n - i) + 1]]
  BY DEF Reverse
<1>3. r \in Seq(Byte) /\ Len(r) = n
  BY <1>1, <1>2
<1> HIDE DEF r
<1>4. q = [i \in 1..n |-> r[(n - i) + 1]]
  BY <1>3 DEF Reverse
<1>5. q \in Seq(Byte) /\ Len(q) = n
  BY <1>1, <1>3, <1>4
<1>6. ASSUME NEW i \in 1..n PROVE q[i] = s[i]
  BY <1>1, <1>2, <1>4
<1> HIDE DEF q
<1>7. q = s
  BY <1>5, <1>6, SeqEqual
<1> QED BY <1>3, <1>7 DEF r, q

IsFlat(s, seqs) ==
  s = [i \in 1..Len(seqs) |-> IF i = 1 THEN seqs[i] ELSE s[i - 1] \o seqs[i]]

LEMMA FlattenIs ==
  ASSUME NEW seqs \in Seq(Seq(Byte))
  PROVE  FlattenSeq(seqs) = Cat(seqs, Len(seqs))
<1> DEFINE N == Len(seqs)
<1>0. N \in Nat /\ \A i \in 1..N : seqs[i] \in Seq(Byte)
  OBVIOUS
<1>1. CASE N = 0
  <2>1. seqs = << >>
    BY <1>1
  <2> QED BY <1>1, <2>1, CatSteps DEF FlattenSeq
<1>2. CASE N # 0
  <2> DEFINE s == CHOOSE s : IsFlat(s, seqs)
             g == [i \in 1..N |-> Cat(seqs, i)]
             S == {i \in 0..N : i = 0 \/ s[i] = g[i]}
  <2>1. FlattenSeq(seqs) = s[N]
    BY <1>2 DEF FlattenSeq, IsFlat
  <2>2. ASSUME NEW i \in 1..N
        PROVE  g[i] = IF i = 1 THEN seqs[i] ELSE g[i - 1] \o seqs[i]
    <3>0. Cat(seqs, i) = Cat(seqs, i - 1) \o seqs[i]
      BY <1>0, CatType
    <3>1. CASE i = 1
      <4>1. Cat(seqs, i - 1) = << >>
        BY <3>1, CatSteps
      <4>2. << >> \o seqs[i] = seqs[i]
        BY <1>0, ConcatEmptySeq
      <4> QED BY <3>0, <3>1, <4>1, <4>2
    <3>2. CASE i # 1
      <4>1. i - 1 \in 1..N
        BY <3>2
      <4> QED BY <3>0, <3>2, <4>1
    <3> QED BY <3>1, <3>2
  <2>3. IsFlat(g, seqs)
    <3>1. g = [i \in 1..N |-> g[i]]
      OBVIOUS
    <3> HIDE DEF g
    <3> QED BY <2>2, <3>1 DEF IsFlat
  <2>4. IsFlat(s, seqs)
    <3> HIDE DEF g
    <3> QED BY <2>3
  <2>5. g[N] = Cat(seqs, N)
    BY <1>0, <1>2
  <2> HIDE DEF s, g
  <2>6. \A i \in 1..N : s[i] = IF i = 1 THEN seqs[i] ELSE s[i - 1] \o seqs[i]
    BY <2>4 DEF IsFlat
  <2>7. 0 \in S
    BY <1>0
  <2>8. ASSUME NEW i \in 0..(N - 1), i \in S PROVE i + 1 \in S
    <3>1. i + 1 \in 1..N /\ i + 1 \in 0..N /\ (i + 1) - 1 = i
      BY <1>0
    <3>2. CASE i = 0
      <4>1. s[i + 1] = seqs[i + 1] /\ g[i + 1] = seqs[i + 1]
        BY <2>2, <2>6, <3>1, <3>2
      <4> QED BY <3>1, <4>1
    <3>3. CASE i # 0
      <4>1. i + 1 # 1 /\ s[i] = g[i]
        BY <2>8, <3>3
      <4>2. s[i + 1] = s[i] \o seqs[i + 1] /\ g[i + 1] = g[i] \o seqs[i + 1]
        BY <2>2, <2>6, <3>1, <4>1
      <4> QED BY <3>1, <4>1, <4>2
    <3> QED BY <3>2, <3>3
  <2> HIDE DEF S
  <2>9. N \in S
    <3>1. \A i \in 0..N : i \in S
      BY <1>0, <2>7, <2>8, UpTo
    <3> QED BY <1>0, <3>1
  <2>10. s[N] = g[N]
    BY <1>2, <2>9 DEF S
  <2> QED BY <2>1, <2>5, <2>10
<1> QED BY <1>1, <1>2

\* An argument as MessageAssumption has it.
IsArg(a) ==
  /\ a.family \in ArgFamily /\ a.type \in Type
  /\ a.values \in Seq(Value(a.type))
  /\ a.family = "scalar" => Len(a.values) = 1
  /\ a.family = "container" => Len(a.values) * size_of(a.type) < Word

\* The bytes of each value of a in memory.
Natives(a) == [i \in DOMAIN a.values |-> Reverse(append(a.type, a.values[i]))]

LEMMA NativeIs ==
  ASSUME NEW a, IsArg(a)
  PROVE  /\ \A i \in 1..Len(a.values) : /\ Natives(a)[i] \in Seq(Byte)
                                        /\ Len(Natives(a)[i]) = size_of(a.type)
                                        /\ extract(a.type, Reverse(Natives(a)[i])) = a.values[i]
         /\ Native(a) = Cat(Natives(a), Len(a.values))
         /\ Native(a) \in Seq(Byte) /\ Len(Native(a)) = Len(a.values) * size_of(a.type)
<1> DEFINE f == Natives(a)
<1>0. PICK N \in Nat : N = Len(a.values)
  BY DEF IsArg
<1>1. /\ a.type \in Type /\ size_of(a.type) \in Nat /\ DOMAIN a.values = 1..N
      /\ \A i \in 1..N : a.values[i] \in Value(a.type)
  <2>1. a.type \in Type /\ a.values \in Seq(Value(a.type))
    BY DEF IsArg
  <2> QED BY <1>0, <2>1, SizeOfType
<1>2. f = [i \in 1..N |-> Reverse(append(a.type, a.values[i]))]
  BY <1>1 DEF Natives
<1>3. ASSUME NEW i \in 1..N
      PROVE  f[i] \in Seq(Byte) /\ Len(f[i]) = size_of(a.type)
             /\ extract(a.type, Reverse(f[i])) = a.values[i]
  <2> DEFINE b == append(a.type, a.values[i])
  <2>1. b \in Seq(Byte) /\ Len(b) = size_of(a.type) /\ extract(a.type, b) = a.values[i]
    BY <1>1, AppendType, RoundTrip
  <2>2. f[i] = Reverse(b)
    BY <1>2
  <2> HIDE DEF f, b
  <2>3. Reverse(b) \in Seq(Byte) /\ Len(Reverse(b)) = Len(b) /\ Reverse(Reverse(b)) = b
    BY <2>1, ReverseTwice
  <2> QED BY <2>1, <2>2, <2>3
<1>4. f \in Seq(Seq(Byte)) /\ Len(f) = N
  BY <1>2, <1>3
<1>5. Native(a) = FlattenSeq(f)
  BY DEF Native, Natives
<1> HIDE DEF f
<1>6. Native(a) = Cat(f, N)
  BY <1>4, <1>5, FlattenIs
<1>7. N \in 0..N
  OBVIOUS
<1>8. Cat(f, N) \in Seq(Byte)
  BY <1>3, <1>7, CatType
<1>9. Len(Cat(f, N)) = N * size_of(a.type)
  <2>1. \A n \in 0..N : Len(Cat(f, n)) = n * size_of(a.type)
    BY <1>1, <1>3, CatLen, Zenon
  <2> QED BY <1>7, <2>1
<1> QED BY <1>0, <1>3, <1>6, <1>8, <1>9 DEF f

\* Native values are read from where their bytes are.
LEMMA ValuesHeld ==
  ASSUME NEW a, IsArg(a), NEW buff \in Seq(Byte), NEW p \in Nat, Holds(buff, p, Native(a))
  PROVE  Values(buff, p, a.type, Len(a.values)) = a.values
<1> DEFINE f == Natives(a)
           c == size_of(a.type)
<1>0. PICK N \in Nat : N = Len(a.values)
  BY DEF IsArg
<1>1. /\ c \in Nat /\ a.type \in Type /\ a.values \in Seq(Value(a.type))
      /\ a.values = [i \in 1..N |-> a.values[i]]
  <2>1. a.type \in Type /\ a.values \in Seq(Value(a.type))
    BY DEF IsArg
  <2> QED BY <1>0, <2>1, SizeOfType
<1>2. /\ \A i \in 1..N : f[i] \in Seq(Byte) /\ Len(f[i]) = c
                           /\ extract(a.type, Reverse(f[i])) = a.values[i]
      /\ Native(a) = Cat(f, N)
  BY <1>0, NativeIs
<1> HIDE DEF f, c
<1>3. ASSUME NEW i \in 1..N
      PROVE  extract(a.type, Reverse(SubSeq(buff, p + (i - 1) * c + 1, p + i * c))) = a.values[i]
  <2>1. \A k \in 1..N : Holds(buff, p + Len(Cat(f, k - 1)), f[k])
    BY <1>2, CatHolds
  <2>2. i - 1 \in 0..N /\ Len(Cat(f, i - 1)) = (i - 1) * c
    <3>1. i - 1 \in 0..N
      OBVIOUS
    <3>2. \A n \in 0..N : Len(Cat(f, n)) = n * c
      BY <1>1, <1>2, CatLen, Zenon
    <3> QED BY <3>1, <3>2
  <2>3. PICK q \in Nat : q = p + (i - 1) * c
    BY <1>1
  <2>4. q + c = p + i * c
    BY <1>1, <2>3
  <2>5. Holds(buff, q, f[i])
    BY <2>1, <2>2, <2>3
  <2>6. SubSeq(buff, q + 1, q + Len(f[i])) = f[i]
    BY <1>2, <2>5, HoldsRead
  <2>7. SubSeq(buff, p + (i - 1) * c + 1, p + i * c) = f[i]
    BY <1>2, <2>3, <2>4, <2>6
  <2> QED BY <1>2, <2>7
<1>4. Values(buff, p, a.type, N)
        = [i \in 1..N |-> extract(a.type, Reverse(SubSeq(buff, p + (i - 1) * c + 1, p + i * c)))]
  BY DEF Values, c
<1> QED BY <1>0, <1>1, <1>3, <1>4

\* What command_serializer makes of an argument.
Wire(a) == IF a.family = "scalar" THEN append(a.type, a.values[1]) ELSE Contents(a)

LEMMA WireType ==
  ASSUME NEW a, IsArg(a)
  PROVE  Wire(a) \in Seq(Byte)
<1>1. CASE a.family = "scalar"
  <2>1. a.values[1] \in Value(a.type) /\ a.type \in Type
    BY <1>1 DEF IsArg
  <2> QED BY <1>1, <2>1, AppendType DEF Wire
<1>2. CASE a.family = "array"
  BY <1>2, NativeIs DEF Wire, Contents
<1>3. CASE a.family = "container"
  <2> DEFINE v == Len(a.values) * size_of(a.type)
  <2>1. "u32" \in Type /\ v \in Value("u32")
    <3>1. Len(a.values) \in Nat /\ size_of(a.type) \in Nat /\ v < Word
      BY <1>3, SizeOfType DEF IsArg
    <3>2. v \in Nat
      BY <3>1
    <3> QED BY <3>1, <3>2, Widths DEF Value, Type
  <2> HIDE DEF v
  <2>2. append("u32", v) \in Seq(Byte) /\ Native(a) \in Seq(Byte)
    BY <2>1, AppendType, NativeIs
  <2>3. Wire(a) = append("u32", v) \o Native(a)
    BY <1>3 DEF Wire, Contents, v
  <2> QED BY <2>2, <2>3, ConcatProperties
<1> QED BY <1>1, <1>2, <1>3 DEF IsArg, ArgFamily

\* An argument is read from where its bytes are, with an argument of the same
\* type for a prototype.
LEMMA ArgumentHeld ==
  ASSUME NEW a, IsArg(a), NEW b, IsArg(b), Alike(a, b),
         NEW buff \in Seq(Byte), NEW p \in Nat, Holds(buff, p, Wire(a))
  PROVE  Received(buff, p, b) = [values |-> a.values, position |-> p + Len(Wire(a))]
<1>0. /\ a.type \in Type /\ b.type = a.type /\ b.family = a.family
      /\ size_of(a.type) \in Nat \ {0} /\ Len(a.values) \in Nat
      /\ a.values \in Seq(Value(a.type))
  <2>1. a.type \in Type /\ b.type = a.type /\ b.family = a.family /\ a.values \in Seq(Value(a.type))
    BY DEF IsArg, Alike
  <2> QED BY <2>1, SizeOfType
<1>1. CASE a.family = "scalar"
  <2>1. Len(a.values) = 1 /\ a.values[1] \in Value(a.type)
    BY <1>0, <1>1 DEF IsArg
  <2>2. Wire(a) = append(a.type, a.values[1]) /\ Len(Wire(a)) = size_of(a.type)
    BY <1>0, <1>1, <2>1, AppendType DEF Wire
  <2>3. Scalar(buff, p, a.type) = a.values[1]
    BY <1>0, <2>1, <2>2, ScalarHeld
  <2>4. <<a.values[1]>> = a.values
    BY <1>0, <2>1
  <2>5. Received(buff, p, b) = [values |-> <<Scalar(buff, p, b.type)>>, position |-> p + size_of(b.type)]
    BY <1>0, <1>1 DEF Received
  <2> QED BY <1>0, <2>2, <2>3, <2>4, <2>5
<1>2. CASE a.family = "array"
  <2>1. Len(b.values) = Len(a.values)
    BY <1>0, <1>2 DEF Alike
  <2>2. Wire(a) = Native(a) /\ Len(Wire(a)) = Len(a.values) * size_of(a.type)
    BY <1>2, NativeIs DEF Wire, Contents
  <2>3. Values(buff, p, a.type, Len(a.values)) = a.values
    BY <2>2, ValuesHeld
  <2>4. Received(buff, p, b) = [values |-> Values(buff, p, b.type, Len(b.values)),
                                position |-> p + Len(b.values) * size_of(b.type)]
    BY <1>0, <1>2 DEF Received
  <2> QED BY <1>0, <2>1, <2>2, <2>3, <2>4
<1>3. CASE a.family = "container"
  <2> DEFINE c == size_of(a.type)
             k == Len(a.values)
             v == k * c
             h == append("u32", v)
  <2>1. "u32" \in Type /\ v \in Value("u32") /\ size_of("u32") = 4
    <3>1. v < Word
      BY <1>3 DEF IsArg
    <3>2. v \in Nat
      BY <1>0
    <3> HIDE DEF v
    <3> QED BY <3>1, <3>2, Widths DEF Value, Type, size_of
  <2>2. v \div c = k
    <3>1. c \in Nat \ {0} /\ k \in Nat
      BY <1>0
    <3> HIDE DEF c, k
    <3> QED BY <3>1
  <2> HIDE DEF v
  <2>3. h \in Seq(Byte) /\ Len(h) = 4 /\ Native(a) \in Seq(Byte) /\ Len(Native(a)) = v
    BY <2>1, AppendType, NativeIs DEF v
  <2>4. Wire(a) = h \o Native(a)
    BY <1>3 DEF Wire, Contents, v
  <2> HIDE DEF h
  <2>5. Holds(buff, p, h) /\ Holds(buff, p + 4, Native(a)) /\ Len(Wire(a)) = 4 + v
    <3>1. Holds(buff, p, h) /\ Holds(buff, p + Len(h), Native(a))
      BY <2>3, <2>4, HoldsConcat
    <3>2. Len(Wire(a)) = Len(h) + Len(Native(a))
      BY <2>3, <2>4, ConcatProperties, Zenon
    <3> QED BY <2>3, <3>1, <3>2
  <2>6. Scalar(buff, p, "u32") = v
    BY <2>1, <2>5, ScalarHeld DEF h
  <2>7. Values(buff, p + 4, a.type, k) = a.values
    BY <2>5, ValuesHeld
  <2> DEFINE n == Scalar(buff, p, "u32") \div size_of(b.type)
             at == p + size_of("u32")
  <2>8. n = k /\ at = p + 4
    BY <1>0, <2>1, <2>2, <2>6
  <2>9. Received(buff, p, b)
          = [values |-> Values(buff, at, b.type, n), position |-> at + n * size_of(b.type)]
    BY <1>0, <1>3 DEF Received
  <2> HIDE DEF n, at
  <2>10. at + n * size_of(b.type) = p + Len(Wire(a))
    <3>1. at + n * size_of(b.type) = (p + 4) + v
      BY <1>0, <2>8 DEF v
    <3>2. v \in Nat
      BY <1>0 DEF v
    <3> QED BY <2>5, <3>1, <3>2
  <2> QED BY <1>0, <2>7, <2>8, <2>9, <2>10
<1> QED BY <1>1, <1>2, <1>3 DEF IsArg, ArgFamily

\* The bytes of the arguments of m, the first k of them, and all of m.
Wires(m) == [i \in 1..Len(m.args) |-> Wire(m.args[i])]
Body(m, k) == Cat(Wires(m), k)
Packet(m) == Header(m) \o Body(m, Len(m.args))

LEMMA ArgumentsAre ==
  ASSUME NEW m \in Message
  PROVE  /\ Len(m.args) \in Nat /\ DOMAIN m.args = 1..Len(m.args)
         /\ (m.args = << >> <=> Len(m.args) = 0)
         /\ \A i \in 1..Len(m.args) : IsArg(m.args[i])
<1>1. PICK S : m.args \in Seq(S)
  BY MessageAssumption
<1>2. Len(m.args) \in Nat /\ DOMAIN m.args = 1..Len(m.args) /\ (m.args = << >> <=> Len(m.args) = 0)
  BY <1>1
<1>3. \A i \in DOMAIN m.args : IsArg(m.args[i])
  BY MessageAssumption DEF IsArg
<1> QED BY <1>2, <1>3

LEMMA BodyType ==
  ASSUME NEW m \in Message
  PROVE  /\ Body(m, 0) = << >>
         /\ \A k \in 0..Len(m.args) : Body(m, k) \in Seq(Byte)
         /\ \A k \in 1..Len(m.args) : /\ Body(m, k) = Body(m, k - 1) \o Wire(m.args[k])
                                      /\ Wires(m)[k] = Wire(m.args[k]) /\ Wire(m.args[k]) \in Seq(Byte)
                                      /\ Len(Body(m, k)) = Len(Body(m, k - 1)) + Len(Wire(m.args[k]))
<1> DEFINE f == Wires(m)
<1>0. PICK N \in Nat : N = Len(m.args)
  BY ArgumentsAre
<1>1. ASSUME NEW i \in 1..N PROVE f[i] = Wire(m.args[i]) /\ f[i] \in Seq(Byte)
  <2>1. IsArg(m.args[i])
    BY <1>0, ArgumentsAre
  <2>2. Wire(m.args[i]) \in Seq(Byte)
    BY <2>1, WireType
  <2>3. f[i] = Wire(m.args[i])
    BY <1>0 DEF Wires
  <2> QED BY <2>2, <2>3
<1> HIDE DEF f
<1>2. Cat(f, 0) = << >>
  BY CatSteps
<1>3. /\ \A n \in 0..N : Cat(f, n) \in Seq(Byte)
      /\ \A n \in 1..N : Cat(f, n) = Cat(f, n - 1) \o f[n] /\ Len(Cat(f, n)) = Len(Cat(f, n - 1)) + Len(f[n])
  BY <1>1, CatType
<1>4. \A k : Body(m, k) = Cat(f, k)
  BY DEF Body, f
<1>5. ASSUME NEW k \in 1..N
      PROVE  /\ Body(m, k) = Body(m, k - 1) \o Wire(m.args[k])
             /\ f[k] = Wire(m.args[k]) /\ Wire(m.args[k]) \in Seq(Byte)
             /\ Len(Body(m, k)) = Len(Body(m, k - 1)) + Len(Wire(m.args[k]))
  BY <1>1, <1>3, <1>4
<1> QED BY <1>0, <1>2, <1>3, <1>4, <1>5 DEF f

LEMMA HeaderHeld ==
  ASSUME NEW m \in Message
  PROVE  /\ Header(m) \in Seq(Byte) /\ Len(Header(m)) = HeaderSize /\ HeaderSize = 8
         /\ \A buff \in Seq(Byte), p \in Nat : Holds(buff, p, Header(m)) =>
              LET head == deserialize(HeaderTypes, SubSeq(buff, p + 1, p + HeaderSize))
              IN  head[2] = m.class /\ head[3] = m.func
<1> DEFINE types == HeaderTypes
           values == <<0, m.class, m.func>>
           f == Appended(types, values)
<1>1. types \in Seq(Type) /\ Len(types) = 3 /\ types[1] = "u32" /\ types[2] = "u16" /\ types[3] = "u16"
  BY DEF HeaderTypes, Type
<1>2. values[1] = 0 /\ values[2] = m.class /\ values[3] = m.func
  OBVIOUS
<1>3. 0 \in Value("u32") /\ m.class \in Value("u16") /\ m.func \in Value("u16")
  <2>1. Value("u32") = 0..(Word - 1) /\ Value("u16") = 0..(Half - 1)
    BY DEF Value
  <2>2. m.class \in 0..(Half - 1) /\ m.func \in 0..(Half - 1)
    BY MessageAssumption
  <2>3. 0 \in 0..(Word - 1)
    BY Widths
  <2> QED BY <2>1, <2>2, <2>3
<1>4. Header(m) = serialize(types, values)
  BY DEF Header, HeaderTypes
<1> HIDE DEF types, values
<1>5. Typed(types, values)
  <2>1. ASSUME NEW i \in 1..3 PROVE values[i] \in Value(types[i])
    <3>1. i = 1 \/ i = 2 \/ i = 3
      OBVIOUS
    <3> QED BY <1>1, <1>2, <1>3, <3>1
  <2> QED BY <1>1, <2>1 DEF Typed
<1>6. /\ serialize(types, values) \in Seq(Byte)
      /\ required_buffer_size(types) = Len(serialize(types, values))
      /\ serialize(types, values) = Cat(f, Len(types))
      /\ \A i \in 1..Len(types) : f[i] \in Seq(Byte) /\ Len(f[i]) = size_of(types[i])
  BY <1>1, <1>5, SerializeIs
<1> HIDE DEF f
<1>7. Len(Cat(f, 3)) = 8
  <2>1. size_of("u32") = 4 /\ size_of("u16") = 2
    BY DEF size_of
  <2>2. Len(f[1]) = 4 /\ Len(f[2]) = 2 /\ Len(f[3]) = 2
    <3>1. 1 \in 1..Len(types) /\ 2 \in 1..Len(types) /\ 3 \in 1..Len(types)
      BY <1>1
    <3>2. Len(f[1]) = size_of(types[1]) /\ Len(f[2]) = size_of(types[2]) /\ Len(f[3]) = size_of(types[3])
      BY <1>6, <3>1
    <3> QED BY <1>1, <2>1, <3>2
  <2>3. \A i \in 1..3 : f[i] \in Seq(Byte)
    BY <1>1, <1>6
  <2>4. 3 \in Nat
    OBVIOUS
  <2>5. \A n \in 1..3 : Len(Cat(f, n)) = Len(Cat(f, n - 1)) + Len(f[n])
    BY <2>3, <2>4, CatType
  <2>6. Len(Cat(f, 0)) = 0
    BY CatSteps
  <2>7. 1 \in 1..3 /\ 2 \in 1..3 /\ 3 \in 1..3 /\ 1 - 1 = 0 /\ 2 - 1 = 1 /\ 3 - 1 = 2
    OBVIOUS
  <2>8. /\ Len(Cat(f, 1)) = Len(Cat(f, 0)) + Len(f[1])
        /\ Len(Cat(f, 2)) = Len(Cat(f, 1)) + Len(f[2])
        /\ Len(Cat(f, 3)) = Len(Cat(f, 2)) + Len(f[3])
    BY <2>5, <2>7
  <2>9. Len(Cat(f, 1)) = 0 + 4
    BY <2>2, <2>6, <2>8, Zenon
  <2>10. Len(Cat(f, 2)) = (0 + 4) + 2
    BY <2>2, <2>8, <2>9, Zenon
  <2>11. Len(Cat(f, 3)) = ((0 + 4) + 2) + 2
    BY <2>2, <2>8, <2>10, Zenon
  <2>12. ((0 + 4) + 2) + 2 = 8
    OBVIOUS
  <2> QED BY <2>11, <2>12, Zenon
<1>8. Len(Header(m)) = HeaderSize /\ HeaderSize = 8
  BY <1>1, <1>4, <1>6, <1>7 DEF HeaderSize, types
<1>9. ASSUME NEW buff \in Seq(Byte), NEW p \in Nat, Holds(buff, p, Header(m))
      PROVE  LET head == deserialize(HeaderTypes, SubSeq(buff, p + 1, p + HeaderSize))
             IN  head[2] = m.class /\ head[3] = m.func
  <2>1. Holds(buff, p, serialize(types, values))
    BY <1>4, <1>9
  <2>2. types \in Seq(Type)
    BY <1>1
  <2>3. deserialize(types, SubSeq(buff, p + 1, p + required_buffer_size(types)))
          = [i \in 1..Len(types) |-> values[i]]
    <3>1. TupleAt(buff, p, types, values)
      BY <1>5, <2>1, <2>2, TupleHeld, Zenon
    <3> QED BY <3>1, Zenon DEF TupleAt
  <2>4. PICK head : head = deserialize(types, SubSeq(buff, p + 1, p + required_buffer_size(types)))
    OBVIOUS
  <2>5. head[2] = m.class /\ head[3] = m.func
    BY <1>1, <1>2, <2>3, <2>4
  <2> QED BY <2>4, <2>5 DEF types, HeaderSize
<1> QED BY <1>4, <1>6, <1>8, <1>9

LEMMA PacketType ==
  ASSUME NEW m \in Message
  PROVE  /\ Packet(m) \in Seq(Byte) /\ Len(Packet(m)) >= 8
         /\ Len(Packet(m)) = HeaderSize + Len(Body(m, Len(m.args)))
<1> DEFINE b == Body(m, Len(m.args))
<1>1. b \in Seq(Byte)
  BY ArgumentsAre, BodyType
<1>2. Header(m) \in Seq(Byte) /\ Len(Header(m)) = HeaderSize /\ HeaderSize = 8
  BY HeaderHeld
<1>3. Packet(m) = Header(m) \o b
  BY DEF Packet
<1> HIDE DEF b
<1>4. Packet(m) \in Seq(Byte) /\ Len(Packet(m)) = Len(Header(m)) + Len(b)
  BY <1>1, <1>2, <1>3, ConcatProperties, Zenon
<1>5. Len(Packet(m)) >= 8
  BY <1>1, <1>2, <1>4
<1> QED BY <1>2, <1>4, <1>5 DEF b

IsRead(r, buff, position, like) ==
  r = [i \in 0..Len(like) |->
         IF i = 0 THEN [values |-> << >>, position |-> position + HeaderSize]
         ELSE Received(buff, r[i - 1].position, like[i])]

\* The arguments of m are read one after the other.
LEMMA ReadHeld ==
  ASSUME NEW m \in Message, NEW k \in Message, k.class = m.class, k.func = m.func,
         NEW buff \in Seq(Byte), NEW p \in Nat, Holds(buff, p, Packet(m))
  PROVE  /\ Len(k.args) = Len(m.args)
         /\ \E r : IsRead(r, buff, p, k.args)
         /\ \A r : IsRead(r, buff, p, k.args) =>
              /\ \A i \in 1..Len(m.args) : r[i].values = m.args[i].values
              /\ r[Len(m.args)].position = p + Len(Packet(m))
<1>0. PICK N \in Nat : N = Len(m.args)
  BY ArgumentsAre
<1> DEFINE q == p + HeaderSize
           g == [i \in 0..N |-> [values |-> IF i = 0 THEN << >> ELSE m.args[i].values,
                                 position |-> q + Len(Body(m, i))]]
<1>1. Len(k.args) = N /\ \A i \in 1..N : Alike(m.args[i], k.args[i])
  <2>1. Len(m.args) = Len(k.args) /\ \A i \in DOMAIN m.args : Alike(m.args[i], k.args[i])
    BY PrototypeAssumption
  <2> QED BY <1>0, <2>1, ArgumentsAre
<1>2. \A i \in 1..N : IsArg(m.args[i]) /\ IsArg(k.args[i])
  BY <1>0, <1>1, ArgumentsAre
<1>3. q \in Nat /\ Holds(buff, q, Body(m, N))
  <2> DEFINE b == Body(m, N)
  <2>1. Header(m) \in Seq(Byte) /\ Len(Header(m)) = HeaderSize /\ HeaderSize = 8
    BY HeaderHeld
  <2>2. b \in Seq(Byte) /\ Packet(m) = Header(m) \o b
    BY <1>0, BodyType DEF Packet
  <2> HIDE DEF b
  <2>3. Holds(buff, p + Len(Header(m)), b)
    BY <2>1, <2>2, HoldsConcat
  <2> QED BY <2>1, <2>3 DEF b
<1>4. /\ Body(m, 0) = << >>
      /\ \A i \in 0..N : Body(m, i) \in Seq(Byte)
      /\ \A i \in 1..N : /\ Wires(m)[i] = Wire(m.args[i]) /\ Wire(m.args[i]) \in Seq(Byte)
                         /\ Len(Body(m, i)) = Len(Body(m, i - 1)) + Len(Wire(m.args[i]))
  BY <1>0, BodyType
<1> HIDE DEF q
<1>5. \A i \in 1..N : Holds(buff, q + Len(Body(m, i - 1)), Wire(m.args[i]))
  <2>1. \A i \in 1..N : Wires(m)[i] \in Seq(Byte)
    BY <1>4
  <2>2. \A i \in 1..N : Holds(buff, q + Len(Cat(Wires(m), i - 1)), Wires(m)[i])
    BY <1>3, <2>1, CatHolds DEF Body
  <2> QED BY <1>4, <2>2 DEF Body
<1>6. ASSUME NEW i \in 1..N
      PROVE  Received(buff, q + Len(Body(m, i - 1)), k.args[i])
               = [values |-> m.args[i].values, position |-> q + Len(Body(m, i))]
  <2>1. Body(m, i - 1) \in Seq(Byte)
    BY <1>4
  <2>2. PICK z \in Nat : z = q + Len(Body(m, i - 1))
    BY <1>3, <2>1
  <2>3. Holds(buff, z, Wire(m.args[i])) /\ IsArg(m.args[i]) /\ IsArg(k.args[i]) /\ Alike(m.args[i], k.args[i])
    BY <1>1, <1>2, <1>5, <2>2
  <2>4. Received(buff, z, k.args[i]) = [values |-> m.args[i].values, position |-> z + Len(Wire(m.args[i]))]
    BY <2>3, ArgumentHeld
  <2>5. z + Len(Wire(m.args[i])) = q + Len(Body(m, i))
    <3>1. Len(Body(m, i)) = Len(Body(m, i - 1)) + Len(Wire(m.args[i]))
      BY <1>4
    <3>2. Wire(m.args[i]) \in Seq(Byte)
      BY <1>4
    <3>3. Len(Body(m, i - 1)) \in Nat /\ Len(Wire(m.args[i])) \in Nat
      BY <2>1, <3>2, LenProperties
    <3> QED BY <1>3, <2>2, <3>1, <3>3
  <2> QED BY <2>2, <2>4, <2>5
<1>7. ASSUME NEW i \in 0..N
      PROVE  g[i] = IF i = 0 THEN [values |-> << >>, position |-> q]
                    ELSE Received(buff, g[i - 1].position, k.args[i])
  <2>1. CASE i = 0
    <3>1. q + Len(Body(m, 0)) = q
      BY <1>3, <1>4
    <3> QED BY <2>1, <3>1
  <2>2. CASE i # 0
    <3>1. i \in 1..N /\ i - 1 \in 0..N
      BY <2>2
    <3>2. g[i - 1].position = q + Len(Body(m, i - 1))
      BY <3>1
    <3>3. g[i] = [values |-> m.args[i].values, position |-> q + Len(Body(m, i))]
      BY <2>2
    <3> HIDE DEF g
    <3> QED BY <1>6, <2>2, <3>1, <3>2, <3>3
  <2> QED BY <2>1, <2>2
<1>8. IsRead(g, buff, p, k.args)
  <2>1. g = [i \in 0..N |-> g[i]]
    OBVIOUS
  <2> HIDE DEF g
  <2> QED BY <1>1, <1>7, <2>1 DEF IsRead, q
<1>9. g[N].position = q + Len(Body(m, N)) /\ \A i \in 1..N : g[i].values = m.args[i].values
  OBVIOUS
<1> HIDE DEF g
<1>10. q + Len(Body(m, N)) = p + Len(Packet(m))
  <2>1. Len(Packet(m)) = HeaderSize + Len(Body(m, N)) /\ HeaderSize = 8 /\ Len(Body(m, N)) \in Nat
    BY <1>0, <1>4, PacketType, HeaderHeld
  <2> QED BY <2>1 DEF q
<1>11. ASSUME NEW r, IsRead(r, buff, p, k.args)
       PROVE  /\ \A i \in 1..N : r[i].values = m.args[i].values
              /\ r[N].position = p + Len(Packet(m))
  <2> DEFINE S == {i \in 0..N : r[i] = g[i]}
  <2>1. \A i \in 0..N : r[i] = IF i = 0 THEN [values |-> << >>, position |-> q]
                               ELSE Received(buff, r[i - 1].position, k.args[i])
    BY <1>1, <1>11 DEF IsRead, q
  <2>2. 0 \in S
    BY <1>7, <2>1
  <2>3. ASSUME NEW i \in 0..(N - 1), i \in S PROVE i + 1 \in S
    <3>1. i + 1 \in 0..N /\ i + 1 # 0 /\ (i + 1) - 1 = i /\ r[i] = g[i]
      BY <2>3
    <3>2. r[i + 1] = Received(buff, r[i].position, k.args[i + 1])
          /\ g[i + 1] = Received(buff, g[i].position, k.args[i + 1])
      BY <1>7, <2>1, <3>1
    <3> QED BY <3>1, <3>2
  <2> HIDE DEF S
  <2>4. \A i \in 0..N : i \in S
    BY <2>2, <2>3, UpTo
  <2>5. \A i \in 0..N : r[i] = g[i]
    BY <2>4 DEF S
  <2>6. N \in 0..N /\ \A i \in 1..N : i \in 0..N
    OBVIOUS
  <2> QED BY <1>9, <1>10, <2>5, <2>6
<1> QED BY <1>0, <1>1, <1>8, <1>11

\* A message is decoded from where its bytes are.
LEMMA MessageHeld ==
  ASSUME NEW m \in Message, NEW buff \in Seq(Byte), NEW p \in Nat, Holds(buff, p, Packet(m))
  PROVE  Decoded(buff, p) = [class |-> m.class, func |-> m.func, values |-> Meant(m).values,
                             end |-> p + Len(Packet(m))]
<1> DEFINE head == deserialize(HeaderTypes, SubSeq(buff, p + 1, p + HeaderSize))
           k == CHOOSE k \in Message : k.class = head[2] /\ k.func = head[3]
           r == CHOOSE r : IsRead(r, buff, p, k.args)
<1>1. Holds(buff, p, Header(m))
  <2> DEFINE b == Body(m, Len(m.args))
  <2>1. b \in Seq(Byte) /\ Header(m) \in Seq(Byte) /\ Packet(m) = Header(m) \o b
    BY ArgumentsAre, BodyType, HeaderHeld DEF Packet
  <2> HIDE DEF b
  <2> QED BY <2>1, HoldsConcat
<1>2. head[2] = m.class /\ head[3] = m.func
  BY <1>1, HeaderHeld
<1>3. Decoded(buff, p) = [class |-> head[2], func |-> head[3],
                          values |-> [i \in 1..Len(k.args) |-> r[i].values],
                          end |-> r[Len(k.args)].position]
  BY DEF Decoded, IsRead
<1> HIDE DEF head
<1>4. k \in Message /\ k.class = m.class /\ k.func = m.func
  BY <1>2
<1> HIDE DEF k
<1>5. /\ Len(k.args) = Len(m.args)
      /\ \A i \in 1..Len(m.args) : r[i].values = m.args[i].values
      /\ r[Len(m.args)].position = p + Len(Packet(m))
  <2>1. \E s : IsRead(s, buff, p, k.args)
    BY <1>4, ReadHeld
  <2>2. IsRead(r, buff, p, k.args)
    BY <2>1
  <2> HIDE DEF r
  <2>3. /\ Len(k.args) = Len(m.args)
        /\ \A s : IsRead(s, buff, p, k.args) =>
             /\ \A i \in 1..Len(m.args) : s[i].values = m.args[i].values
             /\ s[Len(m.args)].position = p + Len(Packet(m))
    BY <1>4, ReadHeld, Zenon
  <2> QED BY <2>2, <2>3, Zenon
<1> HIDE DEF r
<1>6. Meant(m).values = [i \in 1..Len(m.args) |-> m.args[i].values]
  BY ArgumentsAre DEF Meant
<1>7. [i \in 1..Len(k.args) |-> r[i].values] = Meant(m).values
  BY <1>5, <1>6
<1> QED BY <1>2, <1>3, <1>5, <1>7
-----------------------------------------------------------------------------
(***************************************************************************)
(* Frames.                                                                 *)
(***************************************************************************)
IsShr(s, len, n) == s = [k \in 0..n |-> IF k = 0 THEN len ELSE Shr(s[k - 1])]

LEMMA ShrExists ==
  ASSUME NEW len, NEW N \in Nat
  PROVE  \E s : IsShr(s, len, N)
<1> DEFINE S == {n \in Nat : \E s : IsShr(s, len, n)}
<1>1. 0 \in S
  <2> DEFINE g == [i \in 0..0 |-> len]
  <2>1. IsShr(g, len, 0)
    BY DEF IsShr
  <2> QED BY <2>1
<1>2. ASSUME NEW k \in 0..(N - 1), k \in S PROVE k + 1 \in S
  <2>1. PICK s : IsShr(s, len, k)
    BY <1>2
  <2> DEFINE m == k + 1
             g == [i \in 0..m |-> IF i = m THEN Shr(s[m - 1]) ELSE s[i]]
  <2>2. m \in Nat /\ m # 0 /\ m - 1 = k
    OBVIOUS
  <2>3. \A i \in 0..k : s[i] = IF i = 0 THEN len ELSE Shr(s[i - 1])
    BY <2>1 DEF IsShr
  <2> HIDE DEF m
  <2>4. \A i \in 0..m : g[i] = IF i = 0 THEN len ELSE Shr(g[i - 1])
    BY <2>2, <2>3
  <2>5. IsShr(g, len, m)
    BY <2>4 DEF IsShr
  <2> QED BY <2>2, <2>5 DEF m
<1> HIDE DEF S
<1>3. \A i \in 0..N : i \in S
  BY <1>1, <1>2, UpTo
<1>4. N \in S
  BY <1>3
<1> QED BY <1>4 DEF S

\* The digits of a length are bytes, each the lowest of the length shifted.
LEMMA DigitsAre ==
  ASSUME NEW len \in Nat, NEW n \in Nat
  PROVE  /\ Digits(len, n) \in Seq(Byte) /\ Len(Digits(len, n)) = n
         /\ \E s : /\ s[0] = len /\ \A k \in 0..n : s[k] \in Nat
                   /\ \A k \in 1..n : s[k] = Shr(s[k - 1])
                   /\ \A i \in 1..n : Digits(len, n)[i] = Low(s[n - i])
<1> DEFINE s == CHOOSE s : IsShr(s, len, n)
           d == Digits(len, n)
           S == {k \in 0..n : s[k] \in Nat}
<1>1. d = [i \in 1..n |-> Low(s[n - i])]
  BY DEF Digits, IsShr
<1>2. IsShr(s, len, n)
  BY ShrExists
<1> HIDE DEF s
<1>3. s[0] = len /\ \A k \in 1..n : s[k] = Shr(s[k - 1])
  BY <1>2 DEF IsShr
<1>4. \A x \in Nat : Low(x) \in Byte /\ Shr(x) \in Nat
  <2>1. B \in Nat \ {0}
    BY Widths
  <2>2. ASSUME NEW x \in Nat PROVE x % B \in 0..(B - 1) /\ x \div B \in Nat
    BY <2>1, DivMod
  <2> QED BY <2>2 DEF Low, Shr, Byte
<1>5. 0 \in S
  BY <1>3
<1>6. ASSUME NEW k \in 0..(n - 1), k \in S PROVE k + 1 \in S
  <2>1. k + 1 \in 1..n /\ k + 1 \in 0..n /\ (k + 1) - 1 = k /\ s[k] \in Nat
    BY <1>6
  <2>2. s[k + 1] = Shr(s[k])
    BY <1>3, <2>1
  <2> QED BY <1>4, <2>1, <2>2
<1> HIDE DEF S
<1>7. \A k \in 0..n : k \in S
  BY <1>5, <1>6, UpTo
<1>8. \A k \in 0..n : s[k] \in Nat
  BY <1>7 DEF S
<1>9. ASSUME NEW i \in 1..n PROVE Low(s[n - i]) \in Byte
  <2>1. n - i \in 0..n
    OBVIOUS
  <2> QED BY <1>4, <1>8, <2>1
<1>10. d \in Seq(Byte) /\ Len(d) = n
  BY <1>1, <1>9
<1>11. \A i \in 1..n : d[i] = Low(s[n - i])
  BY <1>1
<1> QED BY <1>3, <1>8, <1>10, <1>11

\* The long length of a medium frame is read back.
LEMMA DigitsMedium ==
  ASSUME NEW len \in 0..(Half - 1)
  PROVE  extract("u16", Digits(len, 2)) = len
<1> DEFINE d == Digits(len, 2)
<1>0. len \in Nat
  OBVIOUS
<1>1. PICK s : /\ s[0] = len /\ \A k \in 0..2 : s[k] \in Nat
               /\ \A k \in 1..2 : s[k] = Shr(s[k - 1])
               /\ \A i \in 1..2 : d[i] = Low(s[2 - i])
  <2>1. 2 \in Nat
    OBVIOUS
  <2> QED BY <1>0, <2>1, DigitsAre, Zenon
<1>2. 1 \in 1..2 /\ 2 \in 1..2 /\ 2 - 1 = 1 /\ 2 - 2 = 0 /\ 1 - 1 = 0
  OBVIOUS
<1> HIDE DEF d
<1>3. s[1] = Shr(len) /\ d[1] = Low(s[1]) /\ d[2] = Low(s[0])
  BY <1>1, <1>2
<1>4. d[1] = Low(Shr(len)) /\ d[2] = Low(len)
  BY <1>1, <1>3
<1>5. extract_u16(append_u16(len)) = len
  BY RoundTrip16
<1>6. extract_u16(append_u16(len)) = Low(len) + Low(Shr(len)) * B
  BY DEF extract_u16, append_u16
<1>7. extract("u16", d) = d[2] + d[1] * B
  BY DEF extract, extract_u16
<1> QED BY <1>4, <1>5, <1>6, <1>7 DEF d

\* Four digits of a number and what is left of it.
LEMMA FourDigits ==
  ASSUME NEW s0 \in Nat, NEW s1 \in Nat, NEW s2 \in Nat, NEW s3 \in Nat, NEW s4 \in Nat,
         s1 = Shr(s0), s2 = Shr(s1), s3 = Shr(s2), s4 = Shr(s3)
  PROVE  s0 = (Low(s0) + (Low(s1) + (Low(s2) + Low(s3) * B) * B) * B) + s4 * Word
<1>1. B \in Nat \ {0} /\ Half = B * B /\ Word = Half * Half
  BY Widths
<1>2. PICK a \in Nat, b \in Nat, c \in Nat, d \in Nat :
        a = Low(s0) /\ b = Low(s1) /\ c = Low(s2) /\ d = Low(s3)
  <2>1. ASSUME NEW x \in Nat PROVE Low(x) \in Nat
    BY <1>1, DivMod DEF Low
  <2>2. Low(s0) \in Nat /\ Low(s1) \in Nat /\ Low(s2) \in Nat /\ Low(s3) \in Nat
    BY <2>1
  <2> QED BY <2>2
<1>3. s0 = a + s1 * B
  BY <1>1, <1>2, DivMod DEF Low, Shr
<1>4. s1 = b + s2 * B
  BY <1>1, <1>2, DivMod DEF Low, Shr
<1>5. s2 = c + s3 * B
  BY <1>1, <1>2, DivMod DEF Low, Shr
<1>6. s3 = d + s4 * B
  BY <1>1, <1>2, DivMod DEF Low, Shr
<1>7. s2 = (c + d * B) + s4 * (B * B)
  BY <1>1, <1>5, <1>6
<1>8. s1 = (b + (c + d * B) * B) + s4 * (B * B * B)
  BY <1>1, <1>4, <1>7
<1>9. s0 = (a + (b + (c + d * B) * B) * B) + s4 * (B * B * B * B)
  BY <1>1, <1>3, <1>8
<1>10. B * B * B * B = Word
  BY <1>1
<1> QED BY <1>2, <1>9, <1>10

\* The long length of a big frame is read back.
LEMMA DigitsBig ==
  ASSUME NEW len \in 0..(Long - 1)
  PROVE  extract("u64", Digits(len, 8)) = len
<1> DEFINE d == Digits(len, 8)
<1>0. len \in Nat
  OBVIOUS
<1>1. PICK s : /\ s[0] = len /\ \A k \in 0..8 : s[k] \in Nat
               /\ \A k \in 1..8 : s[k] = Shr(s[k - 1])
               /\ \A i \in 1..8 : d[i] = Low(s[8 - i])
  <2>1. 8 \in Nat
    OBVIOUS
  <2> QED BY <1>0, <2>1, DigitsAre, Zenon
<1> HIDE DEF d
<1>2. /\ s[1] = Shr(s[0]) /\ s[2] = Shr(s[1]) /\ s[3] = Shr(s[2]) /\ s[4] = Shr(s[3])
      /\ s[5] = Shr(s[4]) /\ s[6] = Shr(s[5]) /\ s[7] = Shr(s[6]) /\ s[8] = Shr(s[7])
  BY <1>1
<1>3. /\ d[1] = Low(s[7]) /\ d[2] = Low(s[6]) /\ d[3] = Low(s[5]) /\ d[4] = Low(s[4])
      /\ d[5] = Low(s[3]) /\ d[6] = Low(s[2]) /\ d[7] = Low(s[1]) /\ d[8] = Low(s[0])
  BY <1>1
<1>4. /\ s[0] \in Nat /\ s[1] \in Nat /\ s[2] \in Nat /\ s[3] \in Nat /\ s[4] \in Nat
      /\ s[5] \in Nat /\ s[6] \in Nat /\ s[7] \in Nat /\ s[8] \in Nat
  BY <1>1
<1> DEFINE lo == extract_u32(<<d[5], d[6], d[7], d[8]>>)
           hi == extract_u32(d)
<1>5. /\ lo = Low(s[0]) + (Low(s[1]) + (Low(s[2]) + Low(s[3]) * B) * B) * B
      /\ hi = Low(s[4]) + (Low(s[5]) + (Low(s[6]) + Low(s[7]) * B) * B) * B
  BY <1>3 DEF extract_u32
<1>6. lo \in Nat /\ hi \in Nat
  <2>1. B \in Nat /\ \A x \in Nat : Low(x) \in Nat
    BY Widths, DivMod DEF Low
  <2>2. \A a, b, c, e \in Nat : a + (b + (c + e * B) * B) * B \in Nat
    BY <2>1
  <2>3. /\ Low(s[0]) \in Nat /\ Low(s[1]) \in Nat /\ Low(s[2]) \in Nat /\ Low(s[3]) \in Nat
        /\ Low(s[4]) \in Nat /\ Low(s[5]) \in Nat /\ Low(s[6]) \in Nat /\ Low(s[7]) \in Nat
    BY <1>4, <2>1
  <2> HIDE DEF lo, hi
  <2> QED BY <1>5, <2>2, <2>3, Zenon
<1> HIDE DEF lo, hi
<1>7. s[0] = lo + s[4] * Word /\ s[4] = hi + s[8] * Word
  <2>1. s[0] = (Low(s[0]) + (Low(s[1]) + (Low(s[2]) + Low(s[3]) * B) * B) * B) + s[4] * Word
    <3>1. PICK a \in Nat, b \in Nat, c \in Nat, e \in Nat, w \in Nat :
            a = s[0] /\ b = s[1] /\ c = s[2] /\ e = s[3] /\ w = s[4]
      BY <1>4
    <3>2. b = Shr(a) /\ c = Shr(b) /\ e = Shr(c) /\ w = Shr(e)
      BY <1>2, <3>1
    <3>3. a = (Low(a) + (Low(b) + (Low(c) + Low(e) * B) * B) * B) + w * Word
      BY <3>2, FourDigits
    <3> QED BY <3>1, <3>3
  <2>2. s[4] = (Low(s[4]) + (Low(s[5]) + (Low(s[6]) + Low(s[7]) * B) * B) * B) + s[8] * Word
    <3>1. PICK a \in Nat, b \in Nat, c \in Nat, e \in Nat, w \in Nat :
            a = s[4] /\ b = s[5] /\ c = s[6] /\ e = s[7] /\ w = s[8]
      BY <1>4
    <3>2. b = Shr(a) /\ c = Shr(b) /\ e = Shr(c) /\ w = Shr(e)
      BY <1>2, <3>1
    <3>3. a = (Low(a) + (Low(b) + (Low(c) + Low(e) * B) * B) * B) + w * Word
      BY <3>2, FourDigits
    <3> QED BY <3>1, <3>3
  <2> QED BY <1>5, <2>1, <2>2, Zenon
<1>8. s[8] = 0
  <2>1. Word \in Nat \ {0} /\ Long = Word * Word
    BY Widths
  <2>2. s[4] * Word < Word * Word
    BY <1>1, <1>4, <1>6, <1>7, <2>1
  <2>3. s[4] < Word
    BY <1>4, <2>1, <2>2
  <2>4. s[8] * Word < Word
    BY <1>4, <1>6, <1>7, <2>1, <2>3
  <2>5. s[8] < 1
    BY <1>4, <2>1, <2>4
  <2> QED BY <1>4, <2>5
<1>9. len = lo + hi * Word
  BY <1>1, <1>4, <1>6, <1>7, <1>8, Widths
<1>10. extract("u64", d) = lo + hi * Word
  BY DEF extract, extract_u64, lo, hi
<1> QED BY <1>9, <1>10 DEF d

\* The header of a frame is bytes, and a reader finds in it where the payload
\* begins and ends.
LEMMA FrameHeader ==
  ASSUME NEW len \in Nat
  PROVE  /\ set_send_header(len) \in Seq(Byte)
         /\ Fits(len) => \A buff \in Seq(Byte), p \in Nat : Holds(buff, p, set_send_header(len)) =>
              FrameAt(buff, p) = [begin |-> p + Len(set_send_header(len)),
                                  end |-> p + Len(set_send_header(len)) + len]
<1> DEFINE h == set_send_header(len)
<1>0. /\ MEDIUM_OFFSET = 4 /\ BIG_OFFSET = 10 /\ SMALL_OFFSET = 2
      /\ SMALL_STREAM \in Nat /\ MEDIUM_STREAM \in Nat /\ BIG_STREAM \in Nat
      /\ SMALL_STREAM < MEDIUM_STREAM /\ MEDIUM_STREAM < BIG_STREAM
      /\ MEDIUM_STREAM \in Byte /\ BIG_STREAM \in Byte /\ BINARY \in Byte
  <2>1. size_of("u16") = 2 /\ size_of("u64") = 8
    BY DEF size_of
  <2>2. \A x \in Byte : x \in Nat
    BY Widths DEF Byte
  <2> QED BY <2>1, <2>2, FrameAssumption
<1>1. Half \in Nat /\ Long \in Nat
  BY Widths
<1>2. Fits(len) => len \in 0..(Long - 1)
  <2>1. Fits(len) => len < Long
    BY <1>0, <1>1, FrameAssumption DEF Fits
  <2> QED BY <1>1, <2>1
<1>3. CASE len <= SMALL_STREAM
  <2>1. h = <<BINARY, len>>
    BY <1>3 DEF set_send_header
  <2>2. len \in Byte
    <3>1. len < MEDIUM_STREAM /\ MEDIUM_STREAM <= B - 1 /\ B \in Nat
      BY <1>0, <1>3, Widths DEF Byte
    <3> QED BY <1>0, <3>1 DEF Byte
  <2>3. h \in Seq(Byte) /\ Len(h) = 2 /\ h[2] = len
    BY <1>0, <2>1, <2>2
  <2> HIDE DEF h
  <2>4. ASSUME NEW buff \in Seq(Byte), NEW p \in Nat, Holds(buff, p, h)
        PROVE  FrameAt(buff, p) = [begin |-> p + Len(h), end |-> p + Len(h) + len]
    <3>1. 2 \in 1..Len(h)
      BY <2>3
    <3>2. buff[p + 2] = len
      BY <2>3, <2>4, <3>1 DEF Holds
    <3>3. FrameAt(buff, p) = [begin |-> p + 2, end |-> p + 2 + len]
      BY <1>0, <1>3, <3>2 DEF FrameAt
    <3> QED BY <2>3, <3>3
  <2> QED BY <2>3, <2>4 DEF h
<1>4. ASSUME NEW k \in Nat, NEW s \in Byte, h = <<BINARY, s>> \o Digits(len, k)
      PROVE  /\ h \in Seq(Byte) /\ Len(h) = 2 + k
             /\ \A buff \in Seq(Byte), p \in Nat : Holds(buff, p, h) =>
                  buff[p + 2] = s /\ SubSeq(buff, p + 3, p + (2 + k)) = Digits(len, k)
  <2> DEFINE d == Digits(len, k)
             g == <<BINARY, s>>
  <2>1. g \in Seq(Byte) /\ Len(g) = 2 /\ g[2] = s
    BY <1>0
  <2>2. d \in Seq(Byte) /\ Len(d) = k
    BY DigitsAre
  <2>3. h = g \o d
    BY <1>4
  <2> HIDE DEF d, g, h
  <2>4. h \in Seq(Byte) /\ Len(h) = Len(g) + Len(d)
    BY <2>1, <2>2, <2>3, ConcatProperties, Zenon
  <2>5. ASSUME NEW buff \in Seq(Byte), NEW p \in Nat, Holds(buff, p, h)
        PROVE  buff[p + 2] = s /\ SubSeq(buff, p + 3, p + (2 + k)) = d
    <3>1. Holds(buff, p, g) /\ Holds(buff, p + Len(g), d)
      BY <2>1, <2>2, <2>3, <2>5, HoldsConcat
    <3>2. 2 \in 1..Len(g)
      BY <2>1
    <3>3. buff[p + 2] = s
      BY <2>1, <3>1, <3>2 DEF Holds
    <3>4. PICK q \in Nat : q = p + 2
      OBVIOUS
    <3>5. Holds(buff, q, d)
      BY <2>1, <3>1, <3>4
    <3>6. SubSeq(buff, q + 1, q + Len(d)) = d
      BY <2>2, <3>5, HoldsRead
    <3>7. q + 1 = p + 3 /\ q + Len(d) = p + (2 + k)
      BY <2>2, <3>4
    <3> QED BY <3>3, <3>6, <3>7
  <2>6. Len(h) = 2 + k
    BY <2>1, <2>2, <2>4
  <2> QED BY <2>4, <2>5, <2>6 DEF d
<1>5. CASE len > SMALL_STREAM /\ len <= Half - 1
  <2>1. h = <<BINARY, MEDIUM_STREAM>> \o Digits(len, 2)
    <3>1. MEDIUM_OFFSET - 2 = 2 /\ ~(len <= SMALL_STREAM)
      BY <1>0, <1>5
    <3> QED BY <1>5, <3>1 DEF set_send_header
  <2> HIDE DEF h
  <2>2. /\ h \in Seq(Byte) /\ Len(h) = 2 + 2
        /\ \A buff \in Seq(Byte), p \in Nat : Holds(buff, p, h) =>
             buff[p + 2] = MEDIUM_STREAM /\ SubSeq(buff, p + 3, p + (2 + 2)) = Digits(len, 2)
    <3>1. 2 \in Nat
      OBVIOUS
    <3> QED BY <1>0, <1>4, <2>1, <3>1, Zenon
  <2>3. extract("u16", Digits(len, 2)) = len
    <3>1. len \in 0..(Half - 1)
      BY <1>1, <1>5
    <3> QED BY <3>1, DigitsMedium
  <2>4. ASSUME NEW buff \in Seq(Byte), NEW p \in Nat, Holds(buff, p, h)
        PROVE  FrameAt(buff, p) = [begin |-> p + Len(h), end |-> p + Len(h) + len]
    <3>1. buff[p + 2] = MEDIUM_STREAM /\ SubSeq(buff, p + 3, p + MEDIUM_OFFSET) = Digits(len, 2)
      BY <1>0, <2>2, <2>4
    <3>2. ~(MEDIUM_STREAM <= SMALL_STREAM)
      BY <1>0
    <3>3. FrameAt(buff, p) = [begin |-> p + MEDIUM_OFFSET,
                              end |-> p + MEDIUM_OFFSET + extract("u16", Digits(len, 2))]
      BY <3>1, <3>2 DEF FrameAt
    <3> QED BY <1>0, <2>2, <2>3, <3>3
  <2> QED BY <2>2, <2>4 DEF h
<1>6. CASE len > SMALL_STREAM /\ ~(len <= Half - 1)
  <2>1. h = <<BINARY, BIG_STREAM>> \o Digits(len, 8)
    <3>1. BIG_OFFSET - 2 = 8 /\ ~(len <= SMALL_STREAM)
      BY <1>0, <1>6
    <3> QED BY <1>6, <3>1 DEF set_send_header
  <2> HIDE DEF h
  <2>2. /\ h \in Seq(Byte) /\ Len(h) = 2 + 8
        /\ \A buff \in Seq(Byte), p \in Nat : Holds(buff, p, h) =>
             buff[p + 2] = BIG_STREAM /\ SubSeq(buff, p + 3, p + (2 + 8)) = Digits(len, 8)
    <3>1. 8 \in Nat
      OBVIOUS
    <3> QED BY <1>0, <1>4, <2>1, <3>1, Zenon
  <2>3. Fits(len) => extract("u64", Digits(len, 8)) = len
    BY <1>2, DigitsBig
  <2>4. ASSUME Fits(len), NEW buff \in Seq(Byte), NEW p \in Nat, Holds(buff, p, h)
        PROVE  FrameAt(buff, p) = [begin |-> p + Len(h), end |-> p + Len(h) + len]
    <3>1. buff[p + 2] = BIG_STREAM /\ SubSeq(buff, p + 3, p + BIG_OFFSET) = Digits(len, 8)
      BY <1>0, <2>2, <2>4
    <3>2. ~(BIG_STREAM <= SMALL_STREAM) /\ BIG_STREAM # MEDIUM_STREAM
      BY <1>0
    <3>3. FrameAt(buff, p) = [begin |-> p + BIG_OFFSET,
                              end |-> p + BIG_OFFSET + extract("u64", Digits(len, 8))]
      BY <3>1, <3>2 DEF FrameAt
    <3> QED BY <1>0, <2>2, <2>3, <2>4, <3>3
  <2> QED BY <2>2, <2>4 DEF h
<1> QED BY <1>0, <1>3, <1>5, <1>6
-----------------------------------------------------------------------------
(***************************************************************************)
(* The inductive invariant.  A thread whose send nobody has overlapped is  *)
(* the only one that sends (Apart), and the buffers hold the part of its   *)
(* message that it has serialised (Building).  As long as no send has been *)
(* overlapped and no write of a TCP session cut short, the stream is the   *)
(* messages sent, one after the other, and of the frame under way, or      *)
(* given up, the bytes written (Streaming).                                *)
(***************************************************************************)
Active == {"args", "write", "request"}

\* The bytes of a message on the wire, and those of several.
Frame(m) == set_send_header(Len(Packet(m))) \o Packet(m)
Parcel(k, m) == IF k = "TCP" THEN Packet(m) ELSE Frame(m)
Parcels(k, s) == [i \in 1..Len(s) |-> Parcel(k, s[i])]

SSType ==
  /\ kind \in {"TCP", "WEBSOCK"}
  /\ send_buffer \in Seq(Byte) /\ scal_data \in Seq(Byte) /\ send_buf \in Seq(Byte)
  /\ connection_closed \in BOOLEAN /\ overlapped \in BOOLEAN /\ cut \in BOOLEAN
  /\ pc \in [Thread -> Active \cup {"idle", "crashed"}]
  /\ msg = [t \in Thread |-> msg[t]] /\ \A t \in Thread : pc[t] \in Active => msg[t] \in Message
  /\ arg \in [Thread -> Nat] /\ left \in [Thread -> Nat] /\ alone \in [Thread -> BOOLEAN]
  /\ sent \in Seq(Message)

Apart ==
  /\ \A t, u \in Thread : alone[t] /\ pc[t] \in Active /\ u # t => pc[u] = "idle"
  /\ ~overlapped => \A t \in Thread : alone[t] /\ pc[t] # "crashed"

Building ==
  \A t \in Thread :
    /\ alone[t] /\ pc[t] = "args" =>
         /\ arg[t] \in 1..(Len(msg[t].args) + 1)
         /\ send_buffer \o scal_data = Header(msg[t]) \o Body(msg[t], arg[t] - 1)
    /\ alone[t] /\ pc[t] = "write" => send_buffer = Packet(msg[t])

\* Only a WebSocket gives up its connection, and has frames.
ByKind ==
  /\ connection_closed => kind = "WEBSOCK"
  /\ \A t \in Thread : pc[t] = "request" => kind = "WEBSOCK"

\* Thread t has written all but the last left[t] bytes of its frame: rest.
Requesting(t, rest) ==
  /\ ~connection_closed
  /\ send_buf = Frame(msg[t]) /\ Fits(Len(Packet(msg[t])))
  /\ left[t] \in 1..Len(send_buf)
  /\ rest = SubSeq(send_buf, 1, Len(send_buf) - left[t])

\* The stream is the messages sent and then rest.
StreamsTo(rest) ==
  /\ wire = Cat(Parcels(kind, sent), Len(sent)) \o rest
  /\ \A t \in Thread : pc[t] = "request" => Requesting(t, rest)
  /\ (\A t \in Thread : pc[t] # "request") /\ ~connection_closed => rest = << >>

SentFit == kind = "WEBSOCK" => \A i \in 1..Len(sent) : Fits(Len(Packet(sent[i])))

Streaming == ~overlapped /\ ~cut => SentFit /\ \E rest \in Seq(Byte) : StreamsTo(rest)

SSInv == SSType /\ Apart /\ Building /\ ByKind /\ Streaming

LEMMA ParcelType ==
  ASSUME NEW m \in Message
  PROVE  /\ Frame(m) \in Seq(Byte)
         /\ Len(Frame(m)) = Len(set_send_header(Len(Packet(m)))) + Len(Packet(m)) /\ Len(Frame(m)) > 0
         /\ \A k : Parcel(k, m) \in Seq(Byte)
<1>1. Packet(m) \in Seq(Byte) /\ Len(Packet(m)) >= 8 /\ Len(Packet(m)) \in Nat
  BY PacketType
<1> DEFINE h == set_send_header(Len(Packet(m)))
<1>2. h \in Seq(Byte)
  BY <1>1, FrameHeader
<1> HIDE DEF h
<1>3. Frame(m) = h \o Packet(m)
  BY DEF Frame, h
<1>4. Frame(m) \in Seq(Byte) /\ Len(Frame(m)) = Len(h) + Len(Packet(m))
  BY <1>1, <1>2, <1>3, ConcatProperties, Zenon
<1>5. Len(Frame(m)) > 0
  BY <1>1, <1>2, <1>4
<1> QED BY <1>1, <1>4, <1>5 DEF h, Parcel

\* One message of Stream.
StreamStep(k, w, from) ==
  LET begin == IF k = "TCP" THEN from ELSE FrameAt(w, from).begin
      m == Decoded(w, begin)
  IN  [class |-> m.class, func |-> m.func, values |-> m.values, end |-> m.end,
       framed |-> k = "TCP" \/ m.end = FrameAt(w, from).end]

IsStream(at, k, w, n) ==
  at = [i \in 0..n |-> IF i = 0 THEN [end |-> 0] ELSE StreamStep(k, w, at[i - 1].end)]

\* What StreamStep makes of message m that ends at e.
Understood(m, e) ==
  [class |-> m.class, func |-> m.func, values |-> Meant(m).values, end |-> e, framed |-> TRUE]

LEMMA ParcelHeld ==
  ASSUME NEW m \in Message, NEW k \in {"TCP", "WEBSOCK"}, k = "WEBSOCK" => Fits(Len(Packet(m))),
         NEW w \in Seq(Byte), NEW p \in Nat, Holds(w, p, Parcel(k, m))
  PROVE  StreamStep(k, w, p) = Understood(m, p + Len(Parcel(k, m)))
<1>1. CASE k = "TCP"
  <2>1. Parcel(k, m) = Packet(m)
    BY <1>1 DEF Parcel
  <2>2. Decoded(w, p) = [class |-> m.class, func |-> m.func, values |-> Meant(m).values,
                         end |-> p + Len(Packet(m))]
    BY <2>1, MessageHeld
  <2>3. PICK d : d = Decoded(w, p)
    OBVIOUS
  <2>4. d.class = m.class /\ d.func = m.func /\ d.values = Meant(m).values
        /\ d.end = p + Len(Parcel(k, m))
    BY <2>1, <2>2, <2>3
  <2>5. (k = "TCP" \/ d.end = FrameAt(w, p).end) = TRUE
    BY <1>1, Zenon
  <2>6. StreamStep(k, w, p) = [class |-> d.class, func |-> d.func, values |-> d.values, end |-> d.end,
                               framed |-> k = "TCP" \/ d.end = FrameAt(w, p).end]
    BY <1>1, <2>3, Zenon DEF StreamStep
  <2> QED BY <2>4, <2>5, <2>6, Zenon DEF Understood
<1>2. CASE k = "WEBSOCK"
  <2> DEFINE h == set_send_header(Len(Packet(m)))
             l == Len(h)
  <2>1. Packet(m) \in Seq(Byte) /\ Len(Packet(m)) \in Nat
    BY PacketType
  <2>2. h \in Seq(Byte) /\ l \in Nat
    BY <2>1, FrameHeader
  <2>3. Parcel(k, m) = h \o Packet(m) /\ Len(Parcel(k, m)) = l + Len(Packet(m))
    BY <1>2, ParcelType DEF Parcel, Frame
  <2> HIDE DEF h
  <2>4. Holds(w, p, h) /\ Holds(w, p + l, Packet(m))
    BY <2>1, <2>2, <2>3, HoldsConcat
  <2>5. FrameAt(w, p) = [begin |-> p + l, end |-> p + l + Len(Packet(m))]
    <3>1. Fits(Len(Packet(m)))
      BY <1>2
    <3> QED BY <2>1, <2>4, <3>1, FrameHeader DEF h
  <2> HIDE DEF l
  <2>6. PICK q \in Nat : q = p + l
    BY <2>2
  <2>7. Decoded(w, q) = [class |-> m.class, func |-> m.func, values |-> Meant(m).values,
                         end |-> q + Len(Packet(m))]
    BY <2>4, <2>6, MessageHeld
  <2>8. FrameAt(w, p) = [begin |-> q, end |-> q + Len(Packet(m))]
    BY <2>5, <2>6
  <2>9. q + Len(Packet(m)) = p + Len(Parcel(k, m))
    BY <2>1, <2>2, <2>3, <2>6
  <2>10. PICK d : d = Decoded(w, q)
    OBVIOUS
  <2>11. d.class = m.class /\ d.func = m.func /\ d.values = Meant(m).values
         /\ d.end = p + Len(Parcel(k, m)) /\ d.end = FrameAt(w, p).end
    BY <2>7, <2>8, <2>9, <2>10
  <2>12. (k = "TCP" \/ d.end = FrameAt(w, p).end) = TRUE
    BY <2>11, Zenon
  <2>13. k # "TCP" /\ FrameAt(w, p).begin = q
    BY <1>2, <2>8
  <2>14. StreamStep(k, w, p) = [class |-> d.class, func |-> d.func, values |-> d.values, end |-> d.end,
                                framed |-> k = "TCP" \/ d.end = FrameAt(w, p).end]
    BY <2>10, <2>13, Zenon DEF StreamStep
  <2> QED BY <2>11, <2>12, <2>14, Zenon DEF Understood
<1> QED BY <1>1, <1>2

LEMMA ParcelsType ==
  ASSUME NEW s \in Seq(Message), NEW k
  PROVE  /\ \A i \in 1..Len(s) : Parcels(k, s)[i] = Parcel(k, s[i]) /\ Parcels(k, s)[i] \in Seq(Byte)
         /\ \A n \in 0..Len(s) : Cat(Parcels(k, s), n) \in Seq(Byte)
<1>1. ASSUME NEW i \in 1..Len(s)
      PROVE  Parcels(k, s)[i] = Parcel(k, s[i]) /\ Parcels(k, s)[i] \in Seq(Byte)
  <2>1. s[i] \in Message
    OBVIOUS
  <2>2. Parcels(k, s)[i] = Parcel(k, s[i])
    BY DEF Parcels
  <2> QED BY <2>1, <2>2, ParcelType
<1>2. Len(s) \in Nat
  OBVIOUS
<1> QED BY <1>1, <1>2, CatType

\* The messages of a stream are decoded one after the other.
LEMMA StreamHeld ==
  ASSUME NEW s \in Seq(Message), NEW k \in {"TCP", "WEBSOCK"},
         k = "WEBSOCK" => \A i \in 1..Len(s) : Fits(Len(Packet(s[i]))),
         NEW w \in Seq(Byte), Holds(w, 0, Cat(Parcels(k, s), Len(s)))
  PROVE  /\ \E at : IsStream(at, k, w, Len(s))
         /\ \A at : IsStream(at, k, w, Len(s)) =>
              /\ \A i \in 1..Len(s) : at[i] = Understood(s[i], Len(Cat(Parcels(k, s), i)))
              /\ at[Len(s)].end = Len(Cat(Parcels(k, s), Len(s)))
<1> DEFINE f == Parcels(k, s)
           e(i) == Len(Cat(f, i))
<1>0. PICK N \in Nat : N = Len(s)
  OBVIOUS
<1>1. /\ \A i \in 1..N : f[i] = Parcel(k, s[i]) /\ f[i] \in Seq(Byte) /\ s[i] \in Message
      /\ \A i \in 0..N : Cat(f, i) \in Seq(Byte)
  BY <1>0, ParcelsType
<1> HIDE DEF f
<1>2. e(0) = 0 /\ \A i \in 0..N : e(i) \in Nat
  BY <1>1, CatSteps, LenProperties
<1>3. \A i \in 1..N : e(i) = e(i - 1) + Len(f[i])
  BY <1>1, CatType
<1>4. \A i \in 1..N : Holds(w, 0 + Len(Cat(f, i - 1)), f[i])
  BY <1>0, <1>1, CatHolds DEF f
<1> HIDE DEF e
<1>5. ASSUME NEW i \in 1..N
      PROVE  StreamStep(k, w, e(i - 1)) = Understood(s[i], e(i))
  <2>1. i - 1 \in 0..N
    OBVIOUS
  <2>2. PICK p \in Nat : p = e(i - 1)
    BY <1>2, <2>1
  <2>3. Holds(w, p, f[i])
    BY <1>4, <2>2 DEF e
  <2>4. PICK m \in Message : m = s[i]
    BY <1>1
  <2>5. k = "WEBSOCK" => Fits(Len(Packet(m)))
    BY <1>0, <2>4
  <2>6. f[i] = Parcel(k, m) /\ e(i) = p + Len(Parcel(k, m))
    BY <1>1, <1>3, <2>2, <2>4
  <2>7. StreamStep(k, w, p) = Understood(m, p + Len(Parcel(k, m)))
    BY <2>3, <2>5, <2>6, ParcelHeld
  <2> QED BY <2>2, <2>4, <2>6, <2>7
<1> DEFINE g == [i \in 0..N |-> IF i = 0 THEN [end |-> 0] ELSE Understood(s[i], e(i))]
<1>6. \A i \in 0..N : g[i].end = e(i)
  BY <1>2 DEF Understood
<1>7. ASSUME NEW i \in 0..N
      PROVE  g[i] = IF i = 0 THEN [end |-> 0] ELSE StreamStep(k, w, g[i - 1].end)
  <2>1. CASE i = 0
    BY <2>1
  <2>2. CASE i # 0
    <3>1. i \in 1..N /\ i - 1 \in 0..N
      BY <2>2
    <3>2. g[i - 1].end = e(i - 1)
      BY <1>6, <3>1
    <3>3. g[i] = Understood(s[i], e(i))
      BY <2>2
    <3> HIDE DEF g
    <3> QED BY <1>5, <2>2, <3>1, <3>2, <3>3
  <2> QED BY <2>1, <2>2
<1>8. \A i \in 1..N : g[i] = Understood(s[i], e(i))
  OBVIOUS
<1>9. IsStream(g, k, w, N)
  <2>1. g = [i \in 0..N |-> g[i]]
    OBVIOUS
  <2> HIDE DEF g
  <2> QED BY <1>7, <2>1 DEF IsStream
<1> HIDE DEF g
<1>10. ASSUME NEW at, IsStream(at, k, w, N)
       PROVE  (\A i \in 1..N : at[i] = Understood(s[i], e(i))) /\ at[N].end = e(N)
  <2> DEFINE S == {i \in 0..N : at[i] = g[i]}
  <2>1. \A i \in 0..N : at[i] = IF i = 0 THEN [end |-> 0] ELSE StreamStep(k, w, at[i - 1].end)
    BY <1>10 DEF IsStream
  <2>2. 0 \in S
    BY <1>7, <2>1
  <2>3. ASSUME NEW i \in 0..(N - 1), i \in S PROVE i + 1 \in S
    <3>1. i + 1 \in 0..N /\ i + 1 # 0 /\ (i + 1) - 1 = i /\ at[i] = g[i]
      BY <2>3
    <3>2. at[i + 1] = StreamStep(k, w, at[i].end) /\ g[i + 1] = StreamStep(k, w, g[i].end)
      BY <1>7, <2>1, <3>1
    <3> QED BY <3>1, <3>2
  <2> HIDE DEF S
  <2>4. \A i \in 0..N : i \in S
    BY <2>2, <2>3, UpTo
  <2>5. \A i \in 0..N : at[i] = g[i]
    BY <2>4 DEF S
  <2>6. N \in 0..N /\ \A i \in 1..N : i \in 0..N
    OBVIOUS
  <2> QED BY <1>6, <1>8, <2>5, <2>6
<1> QED BY <1>0, <1>9, <1>10 DEF e, f
-----------------------------------------------------------------------------
(***************************************************************************)
(* The invariant implies the properties.                                   *)
(***************************************************************************)
LEMMA InvImpliesOverlap == SSInv => OverlapLeavesNothing
<1> SUFFICES ASSUME SSInv, NEW t \in Thread, alone[t], pc[t] = "write"
             PROVE  LET d == Decoded(send_buffer, 0)
                    IN  /\ d.end = Len(send_buffer)
                        /\ [class |-> d.class, func |-> d.func, values |-> d.values] = Meant(msg[t])
  BY DEF OverlapLeavesNothing
<1>1. PICK m \in Message : m = msg[t]
  BY DEF SSInv, SSType, Active
<1>2. PICK b \in Seq(Byte) : b = send_buffer
  BY DEF SSInv, SSType
<1>3. b = Packet(m)
  BY <1>1, <1>2 DEF SSInv, Building
<1>4. Holds(b, 0, Packet(m))
  BY <1>3, HoldsMore
<1>5. Decoded(b, 0) = [class |-> m.class, func |-> m.func, values |-> Meant(m).values,
                       end |-> 0 + Len(Packet(m))]
  BY <1>4, MessageHeld
<1>6. 0 + Len(Packet(m)) = Len(b)
  BY <1>3
<1>7. Meant(m) = [class |-> m.class, func |-> m.func, values |-> Meant(m).values]
  BY DEF Meant
<1> QED BY <1>1, <1>2, <1>5, <1>6, <1>7

LEMMA InvImpliesPeer == SSInv => PeerUnderstands
<1> SUFFICES ASSUME SSInv, ~overlapped, ~cut
             PROVE  LET n == Len(sent)
                        at == Stream(n)
                    IN  /\ \A i \in 1..n :
                             /\ at[i].framed
                             /\ [class |-> at[i].class, func |-> at[i].func, values |-> at[i].values]
                                  = Meant(sent[i])
                        /\ Busy = {} /\ client = "open" /\ ~connection_closed => Len(wire) = at[n].end
  BY DEF PeerUnderstands
<1>1. PICK k \in {"TCP", "WEBSOCK"} : k = kind
  BY DEF SSInv, SSType
<1>2. PICK s \in Seq(Message) : s = sent
  BY DEF SSInv, SSType
<1>3. k = "WEBSOCK" => \A i \in 1..Len(s) : Fits(Len(Packet(s[i])))
  BY <1>1, <1>2 DEF SSInv, Streaming, StreamsTo, SentFit
<1>4. PICK rest \in Seq(Byte) :
        /\ wire = Cat(Parcels(k, s), Len(s)) \o rest
        /\ (\A t \in Thread : pc[t] # "request") /\ ~connection_closed => rest = << >>
  BY <1>1, <1>2 DEF SSInv, Streaming, StreamsTo, SentFit
<1> DEFINE c == Cat(Parcels(k, s), Len(s))
<1>5. c \in Seq(Byte)
  BY ParcelsType
<1> HIDE DEF c
<1>6. PICK w \in Seq(Byte) : w = wire
  <2>1. c \o rest \in Seq(Byte)
    BY <1>5, ConcatProperties
  <2> QED BY <1>4, <2>1 DEF c
<1>7. w = c \o rest
  BY <1>4, <1>6 DEF c
<1>8. Holds(w, 0, c)
  BY <1>5, <1>7, HoldsMore
<1> DEFINE at == Stream(Len(s))
<1>9. at = CHOOSE z : IsStream(z, k, w, Len(s))
  BY <1>1, <1>6 DEF Stream, IsStream, StreamStep
<1>10. \E z : IsStream(z, k, w, Len(s))
  BY <1>3, <1>8, StreamHeld DEF c
<1>11. IsStream(at, k, w, Len(s))
  <2> HIDE DEF at
  <2> QED BY <1>9, <1>10
<1> HIDE DEF at
<1>12. PICK z : z = at
  OBVIOUS
<1>13. /\ \A i \in 1..Len(s) : z[i] = Understood(s[i], Len(Cat(Parcels(k, s), i)))
       /\ z[Len(s)].end = Len(c)
  <2>1. IsStream(z, k, w, Len(s))
    BY <1>11, <1>12
  <2> QED BY <1>3, <1>8, <2>1, StreamHeld DEF c
<1>14. ASSUME NEW i \in 1..Len(s)
       PROVE  /\ z[i].framed
              /\ [class |-> z[i].class, func |-> z[i].func, values |-> z[i].values] = Meant(s[i])
  <2>1. z[i] = Understood(s[i], Len(Cat(Parcels(k, s), i)))
    BY <1>13
  <2>2. Meant(s[i]) = [class |-> s[i].class, func |-> s[i].func, values |-> Meant(s[i]).values]
    BY DEF Meant
  <2>3. z[i].class = s[i].class /\ z[i].func = s[i].func /\ z[i].values = Meant(s[i]).values
    BY <2>1 DEF Understood
  <2>4. z[i].framed = TRUE
    BY <2>1 DEF Understood
  <2> QED BY <2>2, <2>3, <2>4, Zenon
<1>15. ASSUME Busy = {}, ~connection_closed PROVE Len(wire) = z[Len(s)].end
  <2>1. \A t \in Thread : pc[t] # "request"
    BY <1>15 DEF Busy
  <2>2. rest = << >>
    BY <1>4, <1>15, <2>1
  <2>3. w = c
    BY <1>5, <1>7, <2>2, ConcatEmptySeq
  <2> QED BY <1>6, <1>13, <2>3
<1>16. z = Stream(Len(s))
  BY <1>12 DEF at
<1> QED BY <1>2, <1>14, <1>15, <1>16, Zenon
-----------------------------------------------------------------------------
(***************************************************************************)
(* The invariant holds at first, and every step keeps it.                  *)
(***************************************************************************)
LEMMA InitHasInv == SSInit => SSInv
<1> SUFFICES ASSUME SSInit PROVE SSInv
  OBVIOUS
<1>1. << >> \in Seq(Byte) /\ << >> \in Seq(Message) /\ Len(<< >>) = 0
  BY EmptySeq
<1>2. SSType
  BY <1>1 DEF SSInit, SSType, Active
<1>3. Apart /\ Building /\ ByKind
  BY DEF SSInit, Apart, Building, ByKind, Active
<1>4. Streaming
  <2>1. PICK f : f = Parcels(kind, sent)
    OBVIOUS
  <2>2. Cat(f, 0) = << >>
    BY CatSteps
  <2>3. << >> \o << >> = << >>
    BY <1>1, ConcatEmptySeq
  <2>4. wire = Cat(Parcels(kind, sent), Len(sent)) \o << >>
    BY <1>1, <2>1, <2>2, <2>3 DEF SSInit
  <2>5. \A t \in Thread : pc[t] # "request"
    BY DEF SSInit
  <2>6. \A i \in 1..Len(sent) : FALSE
    BY <1>1 DEF SSInit
  <2>7. StreamsTo(<< >>) /\ SentFit
    BY <2>4, <2>5, <2>6 DEF StreamsTo, SentFit
  <2> QED BY <1>1, <2>7 DEF Streaming
<1> QED BY <1>2, <1>3, <1>4 DEF SSInv

\* While nothing has overlapped, a thread that sends is alone in it.
LEMMA OthersIdle ==
  ASSUME SSInv, NEW t \in Thread, pc[t] \in Active
  PROVE  /\ \A u \in Thread : u # t => ~(alone[u] /\ pc[u] \in Active)
         /\ ~overlapped => alone[t] /\ \A u \in Thread : u # t => pc[u] = "idle"
         /\ alone[t] => \A u \in Thread : u # t => pc[u] = "idle"
<1>1. "idle" \notin Active
  BY DEF Active
<1>2. \A u, v \in Thread : alone[u] /\ pc[u] \in Active /\ v # u => pc[v] = "idle"
  BY DEF SSInv, Apart
<1>3. ~overlapped => alone[t]
  BY DEF SSInv, Apart
<1> QED BY <1>1, <1>2, <1>3

\* A thread's message.
LEMMA OwnMessage ==
  ASSUME SSInv, NEW t \in Thread, pc[t] \in Active
  PROVE  msg[t] \in Message
  BY DEF SSInv, SSType

LEMMA SameKeeps ==
  ASSUME SSInv, UNCHANGED <<kind, bufVars, connection_closed, threadVars, cut, sent, wire>>
  PROVE  SSInv'
<1>1. /\ kind' = kind /\ send_buffer' = send_buffer /\ scal_data' = scal_data /\ send_buf' = send_buf
      /\ connection_closed' = connection_closed /\ pc' = pc /\ msg' = msg /\ arg' = arg /\ left' = left
      /\ alone' = alone /\ overlapped' = overlapped /\ cut' = cut /\ sent' = sent /\ wire' = wire
  BY DEF bufVars, threadVars
<1>2. SSType'
  BY <1>1 DEF SSInv, SSType
<1>3. Apart' /\ ByKind'
  BY <1>1 DEF SSInv, Apart, ByKind
<1>4. Building'
  BY <1>1 DEF SSInv, Building
<1>5. Streaming'
  <2> SUFFICES ASSUME ~overlapped, ~cut
               PROVE  SentFit' /\ \E rest \in Seq(Byte) : StreamsTo(rest)'
    BY <1>1 DEF Streaming
  <2>1. PICK rest \in Seq(Byte) : StreamsTo(rest)
    BY DEF SSInv, Streaming
  <2>2. SentFit'
    BY <1>1 DEF SSInv, Streaming, SentFit
  <2>3. StreamsTo(rest)'
    BY <1>1, <2>1 DEF StreamsTo, Requesting
  <2> QED BY <2>2, <2>3
<1> QED BY <1>2, <1>3, <1>4, <1>5 DEF SSInv

LEMMA RaceKeeps ==
  ASSUME SSInv, NEW t \in Thread, Race(t)
  PROVE  SSInv'
<1>1. /\ pc[t] = "args" /\ ~alone[t] /\ kind' = kind /\ send_buf' = send_buf
      /\ connection_closed' = connection_closed /\ msg' = msg /\ arg' = arg /\ left' = left
      /\ alone' = alone /\ overlapped' = overlapped /\ cut' = cut /\ sent' = sent
  BY DEF Race
<1>2. Garbage \in Seq(Byte) /\ << >> \in Seq(Byte)
  <2>1. 0 \in Byte
    BY Widths DEF Byte
  <2> QED BY <2>1, EmptySeq DEF Garbage
<1>3. overlapped /\ \A u \in Thread : ~(alone[u] /\ pc[u] \in Active)
  BY <1>1, OthersIdle DEF SSInv, Apart, Active
<1>4. pc \in [Thread -> Active \cup {"idle", "crashed"}]
  BY DEF SSInv, SSType
<1>5. /\ send_buffer' \in Seq(Byte) /\ scal_data' \in Seq(Byte)
      /\ pc' \in [Thread -> Active \cup {"idle", "crashed"}]
      /\ \A u \in Thread : pc'[u] \in Active => pc[u] \in Active
      /\ \A u \in Thread : pc'[u] = "request" => pc[u] = "request"
  <2>1. CASE pc' = [pc EXCEPT ![t] = "write"] /\ send_buffer' = Garbage /\ scal_data' \in {<< >>, Garbage}
    BY <1>1, <1>2, <1>4, <2>1 DEF Active
  <2>2. CASE pc' = [u \in Thread |-> "crashed"] /\ UNCHANGED <<send_buffer, scal_data>>
    BY <2>2 DEF SSInv, SSType, Active
  <2> QED BY <2>1, <2>2 DEF Race
<1>6. SSType'
  BY <1>1, <1>5 DEF SSInv, SSType
<1>7. \A u \in Thread : ~(alone'[u] /\ pc'[u] \in Active)
  BY <1>1, <1>3, <1>5
<1>8. Apart' /\ Building'
  BY <1>1, <1>3, <1>7 DEF Apart, Building, Active
<1>9. ByKind'
  BY <1>1, <1>5 DEF SSInv, ByKind
<1>10. Streaming'
  BY <1>1, <1>3 DEF Streaming
<1> QED BY <1>6, <1>8, <1>9, <1>10 DEF SSInv

LEMMA BuildKeeps ==
  ASSUME SSInv, NEW t \in Thread, NEW m \in Message, build_command(t, m)
  PROVE  SSInv'
<1>1. /\ pc[t] = "idle" /\ kind' = kind /\ send_buf' = send_buf /\ connection_closed' = connection_closed
      /\ left' = left /\ cut' = cut /\ sent' = sent /\ wire' = wire
      /\ send_buffer' = Header(m)
      /\ scal_data' = IF m.args = << >> THEN scal_data ELSE << >>
      /\ pc' = [pc EXCEPT ![t] = IF m.args = << >> THEN "write" ELSE "args"]
      /\ msg' = [msg EXCEPT ![t] = m] /\ arg' = [arg EXCEPT ![t] = 1]
      /\ alone' = [u \in Thread |-> IF u = t THEN Busy = {} ELSE alone[u] /\ u \notin Busy]
      /\ overlapped' = (overlapped \/ Busy # {})
  BY DEF build_command, Build
<1>2. Header(m) \in Seq(Byte) /\ << >> \in Seq(Byte)
  BY HeaderHeld, EmptySeq
<1>3. /\ pc \in [Thread -> Active \cup {"idle", "crashed"}] /\ msg = [u \in Thread |-> msg[u]]
      /\ arg \in [Thread -> Nat] /\ alone \in [Thread -> BOOLEAN]
      /\ \A u \in Thread : pc[u] \in Active => msg[u] \in Message
  BY DEF SSInv, SSType
<1>4. /\ pc'[t] = (IF m.args = << >> THEN "write" ELSE "args") /\ msg'[t] = m /\ arg'[t] = 1
      /\ \A u \in Thread : u # t => pc'[u] = pc[u] /\ msg'[u] = msg[u]
  BY <1>1, <1>3
<1>5. SSType'
  <2>1. pc' \in [Thread -> Active \cup {"idle", "crashed"}]
    BY <1>1, <1>3 DEF Active
  <2>2. msg' = [u \in Thread |-> msg'[u]] /\ \A u \in Thread : pc'[u] \in Active => msg'[u] \in Message
    BY <1>1, <1>3, <1>4
  <2>3. arg' \in [Thread -> Nat]
    BY <1>1, <1>3
  <2>4. alone' \in [Thread -> BOOLEAN]
    BY <1>1, <1>3
  <2>5. send_buffer' \in Seq(Byte) /\ scal_data' \in Seq(Byte)
    BY <1>1, <1>2 DEF SSInv, SSType
  <2>6. overlapped' \in BOOLEAN
    BY <1>1
  <2> QED BY <1>1, <2>1, <2>2, <2>3, <2>4, <2>5, <2>6 DEF SSInv, SSType
<1>6. ASSUME NEW u \in Thread, alone'[u], pc'[u] \in Active PROVE u = t /\ Busy = {}
  <2>1. CASE u # t
    <3>1. u \notin Busy /\ pc[u] \in Active
      BY <1>1, <1>4, <1>6, <2>1
    <3> QED BY <3>1 DEF Busy, Active
  <2>2. CASE u = t
    BY <1>1, <1>6, <2>2
  <2> QED BY <2>1, <2>2
<1>7. Apart'
  <2>1. ASSUME NEW u \in Thread, NEW v \in Thread, alone'[u], pc'[u] \in Active, v # u
        PROVE  pc'[v] = "idle"
    <3>1. u = t /\ Busy = {}
      BY <1>6, <2>1
    <3> QED BY <1>4, <2>1, <3>1 DEF Busy
  <2>2. ASSUME ~overlapped', NEW u \in Thread PROVE alone'[u] /\ pc'[u] # "crashed"
    <3>1. ~overlapped /\ Busy = {}
      BY <1>1, <2>2
    <3>2. alone[u] /\ pc[u] # "crashed"
      BY <3>1 DEF SSInv, Apart
    <3>3. alone'[u]
      BY <1>1, <3>1, <3>2
    <3> QED BY <1>4, <3>2, <3>3
  <2> QED BY <2>1, <2>2 DEF Apart
<1>8. Building'
  <2>1. ASSUME pc'[t] = "args"
        PROVE  /\ arg'[t] \in 1..(Len(msg'[t].args) + 1)
               /\ send_buffer' \o scal_data' = Header(msg'[t]) \o Body(msg'[t], arg'[t] - 1)
    <3>1. scal_data' = << >> /\ Len(m.args) \in Nat
      BY <1>1, <1>4, <2>1, ArgumentsAre
    <3>2. Body(m, 1 - 1) = << >>
      BY BodyType
    <3> QED BY <1>1, <1>4, <3>1, <3>2
  <2>2. ASSUME pc'[t] = "write" PROVE send_buffer' = Packet(msg'[t])
    <3>1. Len(m.args) = 0
      BY <1>4, <2>2, ArgumentsAre
    <3>2. Packet(m) = Header(m) \o << >>
      BY <3>1, BodyType DEF Packet
    <3>3. Packet(m) = Header(m)
      BY <1>2, <3>2, ConcatEmptySeq
    <3> QED BY <1>1, <1>4, <3>3
  <2> QED BY <1>6, <2>1, <2>2 DEF Building, Active
<1>9. ByKind'
  BY <1>1, <1>4 DEF SSInv, ByKind
<1>10. Streaming'
  <2> SUFFICES ASSUME ~overlapped', ~cut'
               PROVE  SentFit' /\ \E rest \in Seq(Byte) : StreamsTo(rest)'
    BY DEF Streaming
  <2>1. ~overlapped /\ ~cut /\ Busy = {}
    BY <1>1
  <2>2. \A u \in Thread : pc[u] # "request" /\ pc'[u] # "request"
    BY <1>4, <2>1 DEF Busy
  <2>3. PICK rest \in Seq(Byte) : StreamsTo(rest)
    BY <2>1 DEF SSInv, Streaming
  <2>4. SentFit'
    BY <1>1, <2>1 DEF SSInv, Streaming, SentFit
  <2>5. StreamsTo(rest)'
    BY <1>1, <2>2, <2>3 DEF StreamsTo
  <2> QED BY <2>4, <2>5
<1> QED BY <1>5, <1>7, <1>8, <1>9, <1>10 DEF SSInv

LEMMA BytesAssociate ==
  ASSUME NEW x \in Seq(Byte), NEW y \in Seq(Byte), NEW z \in Seq(Byte)
  PROVE  (x \o y) \o z = x \o (y \o z)
  BY ConcatAssociative

\* One more argument: a scalar in the pack, or its bytes after the pack.
LEMMA BuildMore ==
  ASSUME NEW m \in Message, NEW k \in 1..Len(m.args),
         NEW sb \in Seq(Byte), NEW sd \in Seq(Byte), sb \o sd = Header(m) \o Body(m, k - 1)
  PROVE  LET w == Wire(m.args[k])
         IN  /\ sd \o w \in Seq(Byte) /\ (sb \o sd) \o w \in Seq(Byte)
             /\ sb \o (sd \o w) = Header(m) \o Body(m, k)
             /\ ((sb \o sd) \o w) \o << >> = Header(m) \o Body(m, k)
<1> DEFINE w == Wire(m.args[k])
           h == Header(m)
           b == Body(m, k - 1)
<1>1. Len(m.args) \in Nat
  BY ArgumentsAre
<1>2. k - 1 \in 0..Len(m.args)
  BY <1>1
<1>3. w \in Seq(Byte) /\ b \in Seq(Byte) /\ Body(m, k) = b \o w
  BY <1>2, BodyType
<1>4. h \in Seq(Byte)
  BY HeaderHeld
<1>5. sb \o sd = h \o b
  OBVIOUS
<1> HIDE DEF w, h, b
<1>6. sd \o w \in Seq(Byte) /\ sb \o sd \in Seq(Byte)
  BY <1>3, ConcatProperties
<1>7. (sb \o sd) \o w \in Seq(Byte)
  BY <1>3, <1>6, ConcatProperties
<1>8. sb \o (sd \o w) = (sb \o sd) \o w
  BY <1>3, BytesAssociate, Zenon
<1>9. (h \o b) \o w = h \o (b \o w)
  BY <1>3, <1>4, BytesAssociate, Zenon
<1>10. ((sb \o sd) \o w) \o << >> = (sb \o sd) \o w
  BY <1>7, ConcatEmptySeq
<1>11. (sb \o sd) \o w = h \o Body(m, k)
  BY <1>3, <1>5, <1>9
<1> QED BY <1>6, <1>7, <1>8, <1>10, <1>11 DEF w, h

LEMMA SerializerKeeps ==
  ASSUME SSInv, NEW t \in Thread, command_serializer(t)
  PROVE  SSInv'
<1>1. /\ pc[t] = "args" /\ alone[t] /\ arg[t] <= Len(msg[t].args)
      /\ kind' = kind /\ send_buf' = send_buf /\ connection_closed' = connection_closed
      /\ pc' = pc /\ msg' = msg /\ left' = left /\ alone' = alone /\ overlapped' = overlapped
      /\ cut' = cut /\ sent' = sent /\ wire' = wire /\ arg' = [arg EXCEPT ![t] = @ + 1]
  BY DEF command_serializer
<1>2. PICK m \in Message : m = msg[t]
  BY <1>1, OwnMessage DEF Active
<1>3. PICK sb \in Seq(Byte), sd \in Seq(Byte) : sb = send_buffer /\ sd = scal_data
  BY DEF SSInv, SSType
<1>4. PICK k \in 1..Len(m.args) : k = arg[t]
  <2>1. arg[t] \in 1..(Len(m.args) + 1) /\ Len(m.args) \in Nat
    BY <1>1, <1>2, ArgumentsAre DEF SSInv, Building
  <2> QED BY <1>1, <1>2, <2>1
<1>5. sb \o sd = Header(m) \o Body(m, k - 1)
  BY <1>1, <1>2, <1>3, <1>4 DEF SSInv, Building
<1> DEFINE a == m.args[k]
           w == Wire(a)
<1>6. /\ sd \o w \in Seq(Byte) /\ (sb \o sd) \o w \in Seq(Byte)
      /\ sb \o (sd \o w) = Header(m) \o Body(m, k)
      /\ ((sb \o sd) \o w) \o << >> = Header(m) \o Body(m, k)
  BY <1>5, BuildMore
<1>7. \/ send_buffer' = sb /\ scal_data' = sd \o w
      \/ send_buffer' = (sb \o sd) \o w /\ scal_data' = << >>
  <2>1. CASE a.family = "scalar"
    <3>1. w = append(a.type, a.values[1])
      BY <2>1 DEF Wire
    <3> QED BY <1>2, <1>3, <1>4, <2>1, <3>1 DEF command_serializer
  <2>2. CASE a.family # "scalar"
    <3>1. w = Contents(a)
      BY <2>2 DEF Wire
    <3>2. Dumped[1] = sb \o sd /\ Dumped[2] = << >>
      BY <1>3 DEF Dumped
    <3> QED BY <1>2, <1>3, <1>4, <2>2, <3>1, <3>2 DEF command_serializer
  <2> QED BY <2>1, <2>2
<1> HIDE DEF w
<1>8. send_buffer' \in Seq(Byte) /\ scal_data' \in Seq(Byte)
      /\ send_buffer' \o scal_data' = Header(m) \o Body(m, k)
  BY <1>3, <1>6, <1>7, EmptySeq
<1>9. arg' \in [Thread -> Nat] /\ arg'[t] = k + 1
  BY <1>1, <1>4 DEF SSInv, SSType
<1>10. SSType'
  BY <1>1, <1>8, <1>9 DEF SSInv, SSType
<1>11. Apart' /\ ByKind'
  BY <1>1 DEF SSInv, Apart, ByKind
<1>12. Building'
  <2>1. \A u \in Thread : u # t => ~(alone'[u] /\ pc'[u] \in Active)
    BY <1>1, OthersIdle DEF Active
  <2>2. Len(m.args) \in Nat /\ (k + 1) - 1 = k
    BY ArgumentsAre
  <2>3. arg'[t] \in 1..(Len(msg'[t].args) + 1)
    BY <1>1, <1>2, <1>4, <1>9, <2>2
  <2>4. send_buffer' \o scal_data' = Header(msg'[t]) \o Body(msg'[t], arg'[t] - 1)
    BY <1>1, <1>2, <1>8, <1>9, <2>2
  <2>5. pc'[t] # "write"
    BY <1>1
  <2> QED BY <2>1, <2>3, <2>4, <2>5 DEF Building, Active
<1>13. Streaming'
  <2> SUFFICES ASSUME ~overlapped, ~cut
               PROVE  SentFit' /\ \E rest \in Seq(Byte) : StreamsTo(rest)'
    BY <1>1 DEF Streaming
  <2>1. PICK rest \in Seq(Byte) : StreamsTo(rest)
    BY DEF SSInv, Streaming
  <2>2. SentFit'
    BY <1>1 DEF SSInv, Streaming, SentFit
  <2>3. StreamsTo(rest)'
    BY <1>1, <2>1 DEF StreamsTo, Requesting
  <2> QED BY <2>2, <2>3
<1> QED BY <1>10, <1>11, <1>12, <1>13 DEF SSInv

LEMMA DumpKeeps ==
  ASSUME SSInv, NEW t \in Thread, final_dump(t)
  PROVE  SSInv'
<1>1. /\ pc[t] = "args" /\ alone[t] /\ arg[t] > Len(msg[t].args)
      /\ kind' = kind /\ send_buf' = send_buf /\ connection_closed' = connection_closed
      /\ pc' = [pc EXCEPT ![t] = "write"] /\ msg' = msg /\ arg' = arg /\ left' = left /\ alone' = alone
      /\ overlapped' = overlapped /\ cut' = cut /\ sent' = sent /\ wire' = wire
      /\ send_buffer' = send_buffer \o scal_data /\ scal_data' = << >>
  BY DEF final_dump, Dumped
<1>2. PICK m \in Message : m = msg[t]
  BY <1>1, OwnMessage DEF Active
<1>3. arg[t] - 1 = Len(m.args)
  <2>1. arg[t] \in 1..(Len(m.args) + 1) /\ Len(m.args) \in Nat
    BY <1>1, <1>2, ArgumentsAre DEF SSInv, Building
  <2> QED BY <1>1, <1>2, <2>1
<1>4. send_buffer' = Packet(m)
  BY <1>1, <1>2, <1>3 DEF SSInv, Building, Packet
<1>5. pc \in [Thread -> Active \cup {"idle", "crashed"}]
  BY DEF SSInv, SSType
<1>6. pc'[t] = "write" /\ \A u \in Thread : u # t => pc'[u] = pc[u]
  BY <1>1, <1>5
<1>7. \A u \in Thread : (pc'[u] \in Active <=> pc[u] \in Active) /\ (pc'[u] = "request" <=> pc[u] = "request")
                        /\ (pc'[u] = "crashed" => pc[u] = "crashed") /\ (pc[u] = "idle" => pc'[u] = "idle")
  BY <1>1, <1>6 DEF Active
<1>8. SSType'
  <2>1. pc' \in [Thread -> Active \cup {"idle", "crashed"}]
    BY <1>1, <1>5 DEF Active
  <2>2. send_buffer' \in Seq(Byte) /\ scal_data' \in Seq(Byte)
    BY <1>1, <1>4, PacketType, EmptySeq
  <2> QED BY <1>1, <1>7, <2>1, <2>2 DEF SSInv, SSType
<1>9. Apart' /\ ByKind'
  BY <1>1, <1>7 DEF SSInv, Apart, ByKind
<1>10. Building'
  <2>1. \A u \in Thread : u # t => ~(alone'[u] /\ pc'[u] \in Active)
    BY <1>1, <1>7, OthersIdle DEF Active
  <2> QED BY <1>1, <1>2, <1>4, <1>6, <2>1 DEF Building, Active
<1>11. Streaming'
  <2> SUFFICES ASSUME ~overlapped, ~cut
               PROVE  SentFit' /\ \E rest \in Seq(Byte) : StreamsTo(rest)'
    BY <1>1 DEF Streaming
  <2>1. PICK rest \in Seq(Byte) : StreamsTo(rest)
    BY DEF SSInv, Streaming
  <2>2. SentFit'
    BY <1>1 DEF SSInv, Streaming, SentFit
  <2>3. StreamsTo(rest)'
    BY <1>1, <1>7, <2>1 DEF StreamsTo, Requesting
  <2> QED BY <2>2, <2>3
<1> QED BY <1>8, <1>9, <1>10, <1>11 DEF SSInv

\* What the returns of send have in common.
Returned(t) ==
  /\ pc' = [pc EXCEPT ![t] = "idle"]
  /\ msg' = [msg EXCEPT ![t] = NoMessage] /\ arg' = [arg EXCEPT ![t] = 0]
  /\ left' = [left EXCEPT ![t] = 0]
  /\ kind' = kind /\ alone' = alone /\ overlapped' = overlapped
  /\ send_buffer' = send_buffer /\ scal_data' = scal_data /\ send_buf' = send_buf
  /\ sent' \in {sent, Append(sent, msg[t])}
  /\ cut' \in BOOLEAN /\ connection_closed' \in BOOLEAN
  /\ connection_closed' => kind = "WEBSOCK"

\* A return keeps all but Streaming, and leaves no other thread in a frame
\* unless sends have overlapped.
LEMMA ReturnKeeps ==
  ASSUME SSInv, NEW t \in Thread, pc[t] \in Active, Returned(t)
  PROVE  /\ SSType' /\ Apart' /\ Building' /\ ByKind'
         /\ ~overlapped => \A u \in Thread : pc'[u] # "request" /\ (u # t => pc[u] # "request")
<1>1. /\ pc \in [Thread -> Active \cup {"idle", "crashed"}] /\ msg = [u \in Thread |-> msg[u]]
      /\ arg \in [Thread -> Nat] /\ left \in [Thread -> Nat]
      /\ \A u \in Thread : pc[u] \in Active => msg[u] \in Message
  BY DEF SSInv, SSType
<1>2. /\ pc'[t] = "idle" /\ \A u \in Thread : u # t => pc'[u] = pc[u] /\ msg'[u] = msg[u]
  BY <1>1 DEF Returned
<1>3. SSType'
  <2>1. pc' \in [Thread -> Active \cup {"idle", "crashed"}]
    BY <1>1 DEF Returned
  <2>2. msg' = [u \in Thread |-> msg'[u]] /\ \A u \in Thread : pc'[u] \in Active => msg'[u] \in Message
    BY <1>1, <1>2 DEF Returned, Active
  <2>3. arg' \in [Thread -> Nat] /\ left' \in [Thread -> Nat]
    BY <1>1 DEF Returned
  <2>4. sent' \in Seq(Message)
    <3>1. PICK m \in Message : m = msg[t]
      BY <1>1
    <3>2. PICK s \in Seq(Message) : s = sent
      BY DEF SSInv, SSType
    <3>3. Append(s, m) \in Seq(Message)
      OBVIOUS
    <3> QED BY <3>1, <3>2, <3>3 DEF Returned
  <2> QED BY <2>1, <2>2, <2>3, <2>4 DEF SSInv, SSType, Returned
<1>4. \A u \in Thread : ~(alone'[u] /\ pc'[u] \in Active)
  <2>1. \A u \in Thread : u # t => ~(alone[u] /\ pc[u] \in Active)
    BY OthersIdle
  <2> QED BY <1>2, <2>1 DEF Returned, Active
<1>5. Apart' /\ Building'
  <2>1. ~overlapped => \A u \in Thread : alone[u] /\ pc'[u] # "crashed"
    BY <1>2 DEF SSInv, Apart
  <2>2. Apart'
    BY <1>4, <2>1 DEF Apart, Returned
  <2>3. Building'
    BY <1>4 DEF Building, Active
  <2> QED BY <2>2, <2>3
<1>6. ByKind'
  BY <1>2 DEF SSInv, ByKind, Returned
<1>7. ASSUME ~overlapped, NEW u \in Thread
      PROVE  pc'[u] # "request" /\ (u # t => pc[u] # "request")
  BY <1>2, <1>7, OthersIdle
<1> QED BY <1>3, <1>5, <1>6, <1>7

\* A return that writes and records nothing.
LEMMA VainReturnKeeps ==
  ASSUME SSInv, NEW t \in Thread, pc[t] \in Active, Returned(t),
         sent' = sent, wire' = wire, cut' = cut,
         connection_closed' \/ (~connection_closed /\ pc[t] # "request")
  PROVE  SSInv'
<1>1. /\ SSType' /\ Apart' /\ Building' /\ ByKind'
      /\ ~overlapped => \A u \in Thread : pc'[u] # "request" /\ (u # t => pc[u] # "request")
  BY ReturnKeeps
<1>2. Streaming'
  <2> SUFFICES ASSUME ~overlapped, ~cut
               PROVE  SentFit' /\ \E rest \in Seq(Byte) : StreamsTo(rest)'
    BY DEF Streaming, Returned
  <2>1. PICK rest \in Seq(Byte) : StreamsTo(rest)
    BY DEF SSInv, Streaming
  <2>2. SentFit'
    BY DEF SSInv, Streaming, SentFit, Returned
  <2>3. kind' = kind
    BY DEF Returned
  <2>4. ~connection_closed' => rest = << >>
    BY <1>1, <2>1 DEF StreamsTo
  <2>5. StreamsTo(rest)'
    BY <1>1, <2>1, <2>3, <2>4 DEF StreamsTo
  <2> QED BY <2>2, <2>5
<1> QED BY <1>1, <1>2 DEF SSInv

\* One more message at the end of the stream.
LEMMA OneMoreSent ==
  ASSUME NEW s \in Seq(Message), NEW m \in Message, NEW k
  PROVE  Cat(Parcels(k, Append(s, m)), Len(Append(s, m))) = Cat(Parcels(k, s), Len(s)) \o Parcel(k, m)
<1> DEFINE r == Append(s, m)
           n == Len(s)
<1>1. /\ n \in Nat /\ r \in Seq(Message) /\ Len(r) = n + 1 /\ r[n + 1] = m
      /\ \A i \in 1..n : r[i] = s[i]
  OBVIOUS
<1> HIDE DEF r
<1>2. /\ \A i \in 1..Len(r) : Parcels(k, r)[i] = Parcel(k, r[i])
      /\ \A i \in 1..n : Parcels(k, s)[i] = Parcel(k, s[i])
  BY <1>1, ParcelsType
<1>3. \A i \in 1..n : Parcels(k, r)[i] = Parcels(k, s)[i]
  <2> TAKE i \in 1..n
  <2>1. i \in 1..Len(r) /\ r[i] = s[i]
    BY <1>1
  <2> QED BY <1>2, <2>1
<1>4. Cat(Parcels(k, r), n) = Cat(Parcels(k, s), n)
  BY <1>1, <1>3, CatEqual
<1>5. Cat(Parcels(k, r), n + 1) = Cat(Parcels(k, r), n) \o Parcels(k, r)[n + 1]
  BY <1>1, CatSteps
<1>6. Parcels(k, r)[n + 1] = Parcel(k, m)
  <2>1. n + 1 \in 1..Len(r)
    BY <1>1
  <2> QED BY <1>1, <1>2, <2>1
<1> QED BY <1>1, <1>4, <1>5, <1>6 DEF r

\* A return after the last byte of a message: the stream holds it, and nothing
\* of another one.
LEMMA SentReturnKeeps ==
  ASSUME SSInv, NEW t \in Thread, pc[t] \in Active, Returned(t), ~overlapped, ~cut,
         ~connection_closed, connection_closed' = connection_closed, cut' = cut,
         sent' = Append(sent, msg[t]),
         kind = "WEBSOCK" => Fits(Len(Packet(msg[t]))),
         wire' = Cat(Parcels(kind, sent), Len(sent)) \o Parcel(kind, msg[t])
  PROVE  SSInv'
<1>1. /\ SSType' /\ Apart' /\ Building' /\ ByKind'
      /\ \A u \in Thread : pc'[u] # "request"
  BY ReturnKeeps
<1>2. PICK m \in Message : m = msg[t]
  BY OwnMessage
<1>3. PICK s \in Seq(Message), k \in {"TCP", "WEBSOCK"} : s = sent /\ k = kind
  BY DEF SSInv, SSType
<1>4. Cat(Parcels(k, Append(s, m)), Len(Append(s, m))) = Cat(Parcels(k, s), Len(s)) \o Parcel(k, m)
  BY OneMoreSent
<1>5. kind' = k /\ sent' = Append(s, m) /\ ~connection_closed' /\ ~cut'
  BY <1>2, <1>3 DEF Returned
<1> DEFINE c == Cat(Parcels(k, Append(s, m)), Len(Append(s, m)))
<1>6. c \in Seq(Byte) /\ wire' = c
  <2>1. Cat(Parcels(k, s), Len(s)) \in Seq(Byte) /\ Parcel(k, m) \in Seq(Byte)
    BY ParcelsType, ParcelType
  <2>2. Cat(Parcels(k, s), Len(s)) \o Parcel(k, m) \in Seq(Byte)
    BY <2>1, ConcatProperties
  <2> QED BY <1>2, <1>3, <1>4, <2>2
<1>7. wire' = Cat(Parcels(kind', sent'), Len(sent')) \o << >>
  <2>1. Cat(Parcels(kind', sent'), Len(sent')) = c
    BY <1>5
  <2> HIDE DEF c
  <2>2. c \o << >> = c
    BY <1>6, ConcatEmptySeq
  <2> QED BY <1>6, <2>1, <2>2
<1>8. StreamsTo(<< >>)'
  BY <1>1, <1>7 DEF StreamsTo
<1>9. SentFit'
  <2> SUFFICES ASSUME k = "WEBSOCK", NEW i \in 1..Len(Append(s, m))
               PROVE  Fits(Len(Packet(Append(s, m)[i])))
    BY <1>5 DEF SentFit
  <2>1. CASE i <= Len(s)
    <3>1. i \in 1..Len(s) /\ Append(s, m)[i] = s[i]
      BY <2>1
    <3>2. \A j \in 1..Len(s) : Fits(Len(Packet(s[j])))
      BY <1>3 DEF SSInv, Streaming, SentFit
    <3> QED BY <3>1, <3>2
  <2>2. CASE ~(i <= Len(s))
    <3>1. Append(s, m)[i] = m
      BY <2>2
    <3> QED BY <1>2, <1>3, <3>1
  <2> QED BY <2>1, <2>2
<1>10. Streaming'
  BY <1>8, <1>9, EmptySeq DEF Streaming
<1> QED BY <1>1, <1>10 DEF SSInv

LEMMA WriteTcpKeeps ==
  ASSUME SSInv, NEW t \in Thread, NEW n \in Nat, write_tcp(t, n)
  PROVE  SSInv'
<1>1. /\ pc[t] = "write" /\ kind = "TCP" /\ n \in 0..Len(send_buffer)
      /\ connection_closed' = connection_closed
      /\ cut' = (cut \/ n \in 1..(Len(send_buffer) - 1))
      /\ sent' = IF n = Len(send_buffer) /\ ~overlapped /\ ~cut THEN Append(sent, msg[t]) ELSE sent
      /\ wire' = IF overlapped \/ cut THEN wire ELSE wire \o SubSeq(send_buffer, 1, n)
  <2>1. n \in {0} \cup IF client = "open" THEN Pieces(Len(send_buffer), Len(send_buffer)) ELSE {}
    BY DEF write_tcp
  <2>2. Len(send_buffer) \in Nat
    BY DEF SSInv, SSType
  <2>3. n \in 0..Len(send_buffer)
    BY <2>1, <2>2 DEF Pieces
  <2> QED BY <2>3 DEF write_tcp, Returns, Gets
<1>2. connection_closed \in BOOLEAN /\ cut \in BOOLEAN /\ ~connection_closed /\ pc[t] \in Active
  BY <1>1 DEF SSInv, SSType, ByKind, Active
<1>3. Returned(t)
  <2>1. cut' \in BOOLEAN
    BY <1>1
  <2> QED BY <1>1, <1>2, <2>1 DEF write_tcp, Returns, Returned, bufVars
<1>4. CASE overlapped \/ cut
  <2>1. /\ SSType' /\ Apart' /\ Building' /\ ByKind'
    BY <1>2, <1>3, ReturnKeeps
  <2>2. Streaming'
    BY <1>1, <1>3, <1>4 DEF Streaming, Returned
  <2> QED BY <2>1, <2>2 DEF SSInv
<1>5. CASE ~overlapped /\ ~cut
  <2>1. PICK m \in Message : m = msg[t]
    BY <1>2, OwnMessage
  <2>2. /\ alone[t] /\ \A u \in Thread : pc[u] # "request"
    BY <1>1, <1>2, <1>5, OthersIdle
  <2>3. send_buffer = Packet(m) /\ Packet(m) \in Seq(Byte) /\ Len(Packet(m)) >= 8
    BY <1>1, <2>1, <2>2, PacketType DEF SSInv, Building
  <2>4. PICK c \in Seq(Byte) : c = Cat(Parcels(kind, sent), Len(sent)) /\ wire = c
    <3>1. PICK rest \in Seq(Byte) : StreamsTo(rest)
      BY <1>5 DEF SSInv, Streaming
    <3>2. wire = Cat(Parcels(kind, sent), Len(sent)) \o << >>
      BY <1>2, <2>2, <3>1 DEF StreamsTo
    <3>3. PICK s \in Seq(Message), k \in {"TCP", "WEBSOCK"} : s = sent /\ k = kind
      BY DEF SSInv, SSType
    <3>4. PICK c \in Seq(Byte) : c = Cat(Parcels(k, s), Len(s))
      BY ParcelsType
    <3>5. c \o << >> = c
      BY ConcatEmptySeq
    <3> QED BY <3>2, <3>3, <3>4, <3>5
  <2>5. CASE n = Len(Packet(m))
    <3>1. SubSeq(Packet(m), 1, n) = Packet(m)
      BY <2>3, <2>5, SubSeqFull
    <3>2. wire' = Cat(Parcels(kind, sent), Len(sent)) \o Parcel(kind, msg[t])
      BY <1>1, <1>5, <2>1, <2>3, <2>4, <3>1 DEF Parcel
    <3>3. Len(send_buffer) \in Nat /\ n = Len(send_buffer)
      BY <2>3, <2>5
    <3>4. n \notin 1..(Len(send_buffer) - 1)
      BY <3>3
    <3>5. cut' = cut /\ sent' = Append(sent, msg[t])
      BY <1>1, <1>2, <1>5, <3>3, <3>4
    <3>6. kind = "WEBSOCK" => Fits(Len(Packet(msg[t])))
      BY <1>1
    <3> QED BY <1>1, <1>2, <1>3, <1>5, <3>2, <3>5, <3>6, SentReturnKeeps
  <2>6. CASE n = 0
    <3>1. SubSeq(Packet(m), 1, n) = << >>
      BY <2>6, SubSeqEmpty
    <3>2. c \o << >> = c
      BY ConcatEmptySeq
    <3>3. wire' = wire
      BY <1>1, <1>5, <2>3, <2>4, <3>1, <3>2
    <3>4. Len(send_buffer) \in Nat /\ n # Len(send_buffer)
      BY <2>3, <2>6
    <3>5. n \notin 1..(Len(send_buffer) - 1)
      BY <2>6, <3>4
    <3>6. cut' = cut /\ sent' = sent
      BY <1>1, <1>2, <3>4, <3>5
    <3> QED BY <1>1, <1>2, <1>3, <1>5, <3>3, <3>6, VainReturnKeeps
  <2>7. CASE n \in 1..(Len(Packet(m)) - 1)
    <3>1. /\ SSType' /\ Apart' /\ Building' /\ ByKind'
      BY <1>2, <1>3, ReturnKeeps
    <3>2. cut'
      BY <1>1, <2>3, <2>7
    <3> QED BY <3>1, <3>2 DEF SSInv, Streaming
  <2> QED BY <1>1, <2>3, <2>5, <2>6, <2>7
<1> QED BY <1>4, <1>5

LEMMA FrameKeeps ==
  ASSUME SSInv, NEW t \in Thread, send_frame(t)
  PROVE  SSInv'
<1>1. /\ pc[t] = "write" /\ kind = "WEBSOCK" /\ ~connection_closed /\ Fits(Len(send_buffer))
      /\ send_buf' = set_send_header(Len(send_buffer)) \o send_buffer
      /\ left' = [left EXCEPT ![t] = Len(send_buf')]
      /\ pc' = [pc EXCEPT ![t] = "request"]
      /\ kind' = kind /\ send_buffer' = send_buffer /\ scal_data' = scal_data
      /\ connection_closed' = connection_closed /\ msg' = msg /\ arg' = arg /\ alone' = alone
      /\ overlapped' = overlapped /\ cut' = cut /\ sent' = sent /\ wire' = wire
  BY DEF send_frame
<1>2. PICK b \in Seq(Byte) : b = send_buffer
  BY DEF SSInv, SSType
<1>3. PICK f \in Seq(Byte) : f = set_send_header(Len(b)) \o b
  <2>1. set_send_header(Len(b)) \in Seq(Byte)
    BY FrameHeader
  <2> QED BY <2>1, ConcatProperties
<1>4. send_buf' = f /\ left' = [left EXCEPT ![t] = Len(f)]
  BY <1>1, <1>2, <1>3
<1>5. pc \in [Thread -> Active \cup {"idle", "crashed"}] /\ left \in [Thread -> Nat]
  BY DEF SSInv, SSType
<1>6. pc'[t] = "request" /\ left'[t] = Len(f) /\ \A u \in Thread : u # t => pc'[u] = pc[u]
  BY <1>1, <1>4, <1>5
<1>7. \A u \in Thread : (pc'[u] \in Active <=> pc[u] \in Active)
                        /\ (pc'[u] = "crashed" => pc[u] = "crashed") /\ (pc[u] = "idle" => pc'[u] = "idle")
  BY <1>1, <1>6 DEF Active
<1>8. SSType'
  <2>1. pc' \in [Thread -> Active \cup {"idle", "crashed"}]
    BY <1>1, <1>5 DEF Active
  <2>2. left' \in [Thread -> Nat]
    BY <1>4, <1>5
  <2> QED BY <1>1, <1>4, <1>7, <2>1, <2>2 DEF SSInv, SSType
<1>9. Apart' /\ ByKind'
  BY <1>1, <1>7 DEF SSInv, Apart, ByKind
<1>10. Building'
  <2>1. \A u \in Thread : u # t => ~(alone'[u] /\ pc'[u] \in Active)
    BY <1>1, <1>7, OthersIdle DEF Active
  <2> QED BY <1>6, <2>1 DEF Building, Active
<1>11. Streaming'
  <2> SUFFICES ASSUME ~overlapped, ~cut
               PROVE  SentFit' /\ \E rest \in Seq(Byte) : StreamsTo(rest)'
    BY <1>1 DEF Streaming
  <2>1. PICK m \in Message : m = msg[t]
    BY <1>1, OwnMessage DEF Active
  <2>2. alone[t] /\ \A u \in Thread : u # t => pc[u] = "idle"
    BY <1>1, OthersIdle DEF Active
  <2>3. b = Packet(m)
    BY <1>1, <1>2, <2>1, <2>2 DEF SSInv, Building
  <2>4. f = Frame(m) /\ Len(f) > 0
    BY <1>3, <2>3, ParcelType DEF Frame
  <2>5. PICK rest \in Seq(Byte) : StreamsTo(rest)
    BY DEF SSInv, Streaming
  <2>6. rest = << >>
    BY <1>1, <2>2, <2>5 DEF StreamsTo
  <2>7. SentFit'
    BY <1>1 DEF SSInv, Streaming, SentFit
  <2>8. Requesting(t, rest)'
    <3>1. Len(f) - Len(f) = 0 /\ Len(f) \in 1..Len(f)
      BY <2>4
    <3>2. SubSeq(f, 1, 0) = << >>
      BY SubSeqEmpty
    <3>3. Fits(Len(Packet(m)))
      BY <1>1, <1>2, <2>3
    <3> QED BY <1>1, <1>4, <1>6, <2>1, <2>4, <2>6, <3>1, <3>2, <3>3 DEF Requesting
  <2>9. \A u \in Thread : pc'[u] = "request" => u = t
    BY <1>6, <2>2
  <2>10. StreamsTo(rest)'
    BY <1>1, <2>5, <2>6, <2>8, <2>9 DEF StreamsTo
  <2> QED BY <2>7, <2>10
<1> QED BY <1>8, <1>9, <1>10, <1>11 DEF SSInv

\* What was written of f and the next n bytes of the l left.
LEMMA NextPiece ==
  ASSUME NEW f \in Seq(Byte), NEW l \in 1..Len(f), NEW n \in 1..l
  PROVE  LET a == SubSeq(f, 1, Len(f) - l)
             b == SubSeq(f, Len(f) - l + 1, Len(f) - l + n)
         IN  /\ a \in Seq(Byte) /\ b \in Seq(Byte) /\ a \o b \in Seq(Byte)
             /\ a \o b = SubSeq(f, 1, Len(f) - (l - n))
             /\ n = l => a \o b = f
<1> DEFINE k == Len(f) - l
           a == SubSeq(f, 1, k)
           b == SubSeq(f, k + 1, k + n)
<1>1. k \in 0..Len(f) /\ k + n \in k..Len(f) /\ Len(f) \in Nat /\ k + n = Len(f) - (l - n)
      /\ 1 \in 1..(Len(f) + 1) /\ k \in (1 - 1)..Len(f)
  OBVIOUS
<1> HIDE DEF k
<1>2. a \o b = SubSeq(f, 1, k + n)
  BY <1>1, ConcatAdjacentSubSeq
<1>3. ASSUME NEW i \in 1..(Len(f) + 1), NEW j \in 0..Len(f) PROVE SubSeq(f, i, j) \in Seq(Byte)
  <2>1. i \in Int /\ j \in Int /\ \A x \in i..j : f[x] \in Byte
    BY <1>1
  <2> QED BY <2>1, SubSeqProperties
<1>4. a \in Seq(Byte) /\ b \in Seq(Byte) /\ SubSeq(f, 1, k + n) \in Seq(Byte)
  <2>1. k + 1 \in 1..(Len(f) + 1) /\ k + n \in 0..Len(f)
    BY <1>1
  <2> QED BY <1>1, <1>3, <2>1
<1>5. n = l => SubSeq(f, 1, k + n) = f
  <2>1. n = l => k + n = Len(f)
    BY DEF k
  <2> QED BY <2>1, SubSeqFull
<1> QED BY <1>1, <1>2, <1>4, <1>5 DEF k

LEMMA RequestKeeps ==
  ASSUME SSInv, NEW t \in Thread, NEW n \in Nat, send_request(t, n)
  PROVE  SSInv'
<1>1. /\ pc[t] = "request" /\ n \in 1..left[t]
      /\ send_buffer' = send_buffer /\ scal_data' = scal_data /\ send_buf' = send_buf
      /\ connection_closed' = connection_closed /\ cut' = cut
      /\ wire' = IF overlapped \/ cut THEN wire ELSE wire \o Unwritten(t, n)
  BY DEF send_request, Pieces, Gets, bufVars
<1>2. /\ pc[t] \in Active /\ kind = "WEBSOCK" /\ left \in [Thread -> Nat]
      /\ cut \in BOOLEAN /\ connection_closed \in BOOLEAN
  BY <1>1 DEF SSInv, SSType, ByKind, Active
<1>3. ASSUME ~overlapped, ~cut
      PROVE  \E m \in Message, c \in Seq(Byte), f \in Seq(Byte), l \in Nat :
               /\ l \in 1..Len(f) /\ m = msg[t] /\ c = Cat(Parcels(kind, sent), Len(sent)) /\ l = left[t]
               /\ f = send_buf /\ f = Frame(m) /\ Fits(Len(Packet(m))) /\ ~connection_closed
               /\ n \in 1..l
               /\ wire' = c \o SubSeq(f, 1, Len(f) - (l - n))
               /\ n = l => wire' = c \o f
  <2>1. PICK rest \in Seq(Byte) : StreamsTo(rest)
    BY <1>3 DEF SSInv, Streaming
  <2>2. Requesting(t, rest)
    BY <1>1, <2>1 DEF StreamsTo
  <2>3. PICK m \in Message : m = msg[t]
    BY <1>2, OwnMessage
  <2>4. PICK f \in Seq(Byte) : f = send_buf
    BY DEF SSInv, SSType
  <2>5. PICK l \in 1..Len(f) : l = left[t]
    BY <2>2, <2>4 DEF Requesting
  <2>6. PICK s \in Seq(Message), k \in {"TCP", "WEBSOCK"} : s = sent /\ k = kind
    BY DEF SSInv, SSType
  <2>7. PICK c \in Seq(Byte) : c = Cat(Parcels(k, s), Len(s))
    BY ParcelsType
  <2> DEFINE a == SubSeq(f, 1, Len(f) - l)
             b == SubSeq(f, Len(f) - l + 1, Len(f) - l + n)
  <2>8. n \in 1..l
    BY <1>1, <2>5
  <2>9. /\ a \in Seq(Byte) /\ b \in Seq(Byte) /\ a \o b = SubSeq(f, 1, Len(f) - (l - n))
        /\ n = l => a \o b = f
    BY <2>8, NextPiece
  <2>10. wire = c \o a
    BY <2>1, <2>2, <2>4, <2>5, <2>6, <2>7 DEF StreamsTo, Requesting
  <2>11. wire' = (c \o a) \o b
    BY <1>1, <1>3, <2>4, <2>5, <2>10 DEF Unwritten
  <2> HIDE DEF a, b
  <2>12. wire' = c \o (a \o b)
    BY <2>9, <2>11, BytesAssociate, Zenon
  <2>13. f = Frame(m) /\ Fits(Len(Packet(m))) /\ ~connection_closed
    BY <2>2, <2>3, <2>4 DEF Requesting
  <2>14. (wire' = c \o SubSeq(f, 1, Len(f) - (l - n))) /\ (n = l => wire' = c \o f)
    BY <2>9, <2>12, Zenon
  <2>15. l \in Nat /\ l \in 1..Len(f)
    OBVIOUS
  <2>16. c = Cat(Parcels(kind, sent), Len(sent))
    BY <2>6, <2>7
  <2>17. /\ l \in 1..Len(f) /\ m = msg[t] /\ c = Cat(Parcels(kind, sent), Len(sent)) /\ l = left[t]
         /\ f = send_buf /\ f = Frame(m) /\ Fits(Len(Packet(m))) /\ ~connection_closed
         /\ n \in 1..l
         /\ wire' = c \o SubSeq(f, 1, Len(f) - (l - n))
         /\ n = l => wire' = c \o f
    BY <2>3, <2>4, <2>5, <2>8, <2>13, <2>14, <2>15, <2>16, Zenon
  <2> QED BY <2>15, <2>17, Zenon
<1>4. CASE n = left[t]
  <2>1. Returned(t) /\ sent' = IF ~overlapped /\ ~cut THEN Append(sent, msg[t]) ELSE sent
    BY <1>1, <1>2, <1>4 DEF send_request, Returns, Returned, bufVars
  <2>2. CASE overlapped \/ cut
    <3>1. SSType' /\ Apart' /\ Building' /\ ByKind'
      BY <1>2, <2>1, ReturnKeeps
    <3>2. Streaming'
      BY <1>1, <2>1, <2>2 DEF Streaming, Returned
    <3> QED BY <3>1, <3>2 DEF SSInv
  <2>3. CASE ~overlapped /\ ~cut
    <3>1. PICK m \in Message, c \in Seq(Byte), f \in Seq(Byte), l \in Nat :
               /\ l \in 1..Len(f) /\ m = msg[t] /\ c = Cat(Parcels(kind, sent), Len(sent)) /\ l = left[t]
               /\ f = Frame(m) /\ Fits(Len(Packet(m))) /\ ~connection_closed
               /\ n = l => wire' = c \o f
      BY <1>3, <2>3
    <3>2. wire' = Cat(Parcels(kind, sent), Len(sent)) \o Parcel(kind, msg[t])
      BY <1>2, <1>4, <3>1 DEF Parcel
    <3>3. sent' = Append(sent, msg[t])
      BY <2>1, <2>3
    <3>4. ~connection_closed /\ Fits(Len(Packet(msg[t])))
      BY <3>1
    <3> QED BY <1>1, <1>2, <2>1, <2>3, <3>2, <3>3, <3>4, SentReturnKeeps
  <2> QED BY <2>2, <2>3
<1>5. CASE n # left[t]
  <2>1. /\ left' = [left EXCEPT ![t] = @ - n]
        /\ kind' = kind /\ pc' = pc /\ msg' = msg /\ arg' = arg /\ alone' = alone
        /\ overlapped' = overlapped /\ sent' = sent
    BY <1>5 DEF send_request
  <2>2. left' \in [Thread -> Nat] /\ left'[t] = left[t] - n
    <3>1. left[t] - n \in Nat
      BY <1>1, <1>2
    <3> QED BY <1>2, <2>1, <3>1
  <2>3. SSType'
    BY <1>1, <2>1, <2>2 DEF SSInv, SSType
  <2>4. Apart' /\ ByKind'
    BY <1>1, <2>1 DEF SSInv, Apart, ByKind
  <2>5. Building'
    BY <1>1, <2>1 DEF SSInv, Building
  <2>6. Streaming'
    <3> SUFFICES ASSUME ~overlapped, ~cut
                 PROVE  SentFit' /\ \E rest \in Seq(Byte) : StreamsTo(rest)'
      BY <1>1, <2>1 DEF Streaming
    <3>1. PICK m \in Message, c \in Seq(Byte), f \in Seq(Byte), l \in Nat :
               /\ l \in 1..Len(f) /\ m = msg[t] /\ c = Cat(Parcels(kind, sent), Len(sent)) /\ l = left[t]
               /\ f = send_buf /\ f = Frame(m) /\ Fits(Len(Packet(m))) /\ ~connection_closed
               /\ n \in 1..l
               /\ wire' = c \o SubSeq(f, 1, Len(f) - (l - n))
      BY <1>3
    <3>2. PICK rest \in Seq(Byte) : rest = SubSeq(f, 1, Len(f) - (l - n))
      <4>1. LET a == SubSeq(f, 1, Len(f) - l)
                b == SubSeq(f, Len(f) - l + 1, Len(f) - l + n)
            IN  a \o b \in Seq(Byte) /\ a \o b = SubSeq(f, 1, Len(f) - (l - n))
        <5>1. l \in 1..Len(f) /\ n \in 1..l
          BY <3>1
        <5> QED BY <5>1, NextPiece
      <4> QED BY <4>1
    <3>3. l - n \in 1..Len(f) /\ left'[t] = l - n
      <4>1. l \in 1..Len(f) /\ n \in 1..l /\ left[t] = l /\ n # l
        BY <1>5, <3>1
      <4>2. l - n \in 1..Len(f)
        BY <4>1
      <4> QED BY <2>2, <4>1, <4>2
    <3>4. Requesting(t, rest)'
      BY <1>1, <2>1, <3>1, <3>2, <3>3 DEF Requesting
    <3>5. \A u \in Thread : pc'[u] = "request" => u = t
      BY <1>2, <2>1, OthersIdle
    <3>6. wire' = Cat(Parcels(kind', sent'), Len(sent')) \o rest
      BY <2>1, <3>1, <3>2
    <3>7. ~(\A u \in Thread : pc'[u] # "request")
      BY <1>1, <2>1
    <3>8. StreamsTo(rest)'
      BY <3>4, <3>5, <3>6, <3>7 DEF StreamsTo
    <3>9. SentFit'
      BY <2>1 DEF SSInv, Streaming, SentFit
    <3> QED BY <3>8, <3>9
  <2> QED BY <2>3, <2>4, <2>5, <2>6 DEF SSInv
<1> QED BY <1>4, <1>5

LEMMA VainKeeps ==
  ASSUME SSInv, NEW t \in Thread, send_closed(t) \/ send_too_large(t) \/ send_request_fails(t)
  PROVE  SSInv'
<1>0. connection_closed \in BOOLEAN /\ cut \in BOOLEAN
  BY DEF SSInv, SSType
<1>1. CASE send_closed(t)
  <2>1. /\ pc[t] = "write" /\ kind = "WEBSOCK" /\ connection_closed' = connection_closed /\ connection_closed
        /\ cut' = cut /\ wire' = wire /\ sent' = sent
    BY <1>1 DEF send_closed, Returns
  <2>2. Returned(t)
    BY <1>0, <1>1, <2>1 DEF send_closed, Returns, Returned, bufVars
  <2> QED BY <2>1, <2>2, VainReturnKeeps DEF Active
<1>2. CASE send_too_large(t)
  <2>1. /\ pc[t] = "write" /\ kind = "WEBSOCK" /\ connection_closed' = connection_closed /\ ~connection_closed
        /\ cut' = cut /\ wire' = wire /\ sent' = sent
    BY <1>2 DEF send_too_large, Returns
  <2>2. Returned(t)
    BY <1>0, <1>2, <2>1 DEF send_too_large, Returns, Returned, bufVars
  <2> QED BY <2>1, <2>2, VainReturnKeeps DEF Active
<1>3. CASE send_request_fails(t)
  <2>1. /\ pc[t] = "request" /\ connection_closed' = TRUE /\ cut' = cut /\ wire' = wire /\ sent' = sent
    BY <1>3 DEF send_request_fails, Returns
  <2>2. kind = "WEBSOCK"
    BY <2>1 DEF SSInv, ByKind
  <2>3. Returned(t)
    BY <1>0, <1>3, <2>1, <2>2 DEF send_request_fails, Returns, Returned, bufVars
  <2> QED BY <2>1, <2>3, VainReturnKeeps DEF Active
<1> QED BY <1>1, <1>2, <1>3

LEMMA NextKeepsInv == SSInv /\ [SSNext]_ssVars => SSInv'
<1> SUFFICES ASSUME SSInv, [SSNext]_ssVars PROVE SSInv'
  OBVIOUS
<1>1. CASE ClientLeaves
  BY <1>1, SameKeeps DEF ClientLeaves
<1>2. ASSUME NEW t \in Thread, SendStep(t) PROVE SSInv'
  <2>1. CASE command_serializer(t)
    BY <2>1, SerializerKeeps
  <2>2. CASE final_dump(t)
    BY <2>2, DumpKeeps
  <2>3. CASE \E n \in 0..Len(send_buffer) : write_tcp(t, n)
    <3>1. PICK n \in 0..Len(send_buffer) : write_tcp(t, n)
      BY <2>3
    <3>2. n \in Nat
      BY DEF SSInv, SSType
    <3> QED BY <3>1, <3>2, WriteTcpKeeps
  <2>4. CASE send_closed(t) \/ send_too_large(t) \/ send_request_fails(t)
    BY <2>4, VainKeeps
  <2>5. CASE send_frame(t)
    BY <2>5, FrameKeeps
  <2>6. CASE \E n \in 1..left[t] : send_request(t, n)
    <3>1. PICK n \in 1..left[t] : send_request(t, n)
      BY <2>6
    <3>2. n \in Nat
      BY DEF SSInv, SSType
    <3> QED BY <3>1, <3>2, RequestKeeps
  <2> QED BY <1>2, <2>1, <2>2, <2>3, <2>4, <2>5, <2>6 DEF SendStep
<1>3. ASSUME NEW t \in Thread, Race(t) PROVE SSInv'
  BY <1>3, RaceKeeps
<1>4. ASSUME NEW t \in Thread, NEW m \in Message, build_command(t, m) PROVE SSInv'
  BY <1>4, BuildKeeps
<1>5. CASE UNCHANGED ssVars
  BY <1>5, SameKeeps DEF ssVars
<1>6. CASE Ended
  BY <1>5, <1>6 DEF Ended
<1> QED BY <1>1, <1>2, <1>3, <1>4, <1>5, <1>6 DEF SSNext

\* The inductive invariant of the sending side holds at all times.
THEOREM SSInvariance == SSSpec => []SSInv
  BY InitHasInv, NextKeepsInv, PTL DEF SSSpec

(***************************************************************************)
(* A send that no other overlaps puts exactly its message in send_buffer,  *)
(* whatever earlier sends that overlapped have left in the buffers         *)
(* (serializer_deserializer.hpp, build_command), for any messages and any  *)
(* number of threads.                                                      *)
(***************************************************************************)
THEOREM SSOverlapLeavesNothing == SSSpec => []OverlapLeavesNothing
  BY SSInvariance, InvImpliesOverlap, PTL

(***************************************************************************)
(* As long as no two sends overlap and no write of a TCP session is cut    *)
(* short, the client decodes the stream to the messages sent, in frames    *)
(* that end where they do (kserver_session.hpp, Session::send and          *)
(* websocket.cpp, send_request), for any messages and splits into writes.  *)
(***************************************************************************)
THEOREM SSPeerUnderstands == SSSpec => []PeerUnderstands
  BY SSInvariance, InvImpliesPeer, PTL
=============================================================================
