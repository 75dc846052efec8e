--------------------------- MODULE TcpSessionProofs ---------------------------
(***************************************************************************)
(* Proofs about TcpSession, for every set of commands, every script and    *)
(* every split of the stream into reads.  The argument: as long as no      *)
(* signal has made an operation fail in the middle of its arguments, the   *)
(* bytes taken from the socket are those of the commands executed and of   *)
(* the part read of the next one, or the stream is at its end and nothing  *)
(* more can be read.                                                       *)
(***************************************************************************)
EXTENDS TcpSession, SequenceTheorems, WellFoundedInduction, TLAPS

\* A nonempty set of naturals has a least element: how the lemmas below do
\* without an induction rule.
LEMMA LeastNat ==
  ASSUME NEW S \in SUBSET Nat, S # {}
  PROVE  \E m \in S : \A n \in S : m <= n
<1> DEFINE R == {ss \in Nat \X Nat : ss[1] < ss[2]}
<1>1. IsWellFoundedOn(R, Nat)
  BY NatLessThanWellFounded, Zenon DEF OpToRel
<1>2. PICK m \in S : \A n \in S : ~(<<n, m>> \in R)
  <2> HIDE DEF R
  <2> QED BY <1>1, WFMin, Zenon
<1>3. \A n \in S : ~(n < m)
  BY <1>2
<1> QED BY <1>3

\* s holds the sums of the first elements of f, up to n of them.
IsSums(s, f, n) == s = [i \in 0..n |-> IF i = 0 THEN 0 ELSE s[i - 1] + f[i]]

\* The recursive definition in SumUpTo defines a function.
LEMMA SumsExist ==
  ASSUME NEW f, NEW N \in Nat
  PROVE  \E s : IsSums(s, f, N)
<1> DEFINE T == {n \in Nat : ~\E s : IsSums(s, f, n)}
<1> SUFFICES ASSUME T # {} PROVE FALSE
  OBVIOUS
<1>1. PICK m \in T : \A n \in T : m <= n
  <2> HIDE DEF T
  <2>1. T \in SUBSET Nat
    BY DEF T
  <2> QED BY <2>1, LeastNat
<1>2. CASE m = 0
  <2> DEFINE g == [i \in 0..0 |-> 0]
  <2>1. IsSums(g, f, 0)
    BY DEF IsSums
  <2> QED BY <1>1, <1>2, <2>1
<1>3. CASE m # 0
  <2>1. m - 1 \in Nat /\ m \in Nat
    BY <1>1, <1>3
  <2>2. m - 1 \notin T
    BY <1>1, <2>1
  <2>3. PICK s : IsSums(s, f, m - 1)
    BY <2>1, <2>2
  <2> DEFINE g == [i \in 0..m |-> IF i = m THEN s[m - 1] + f[m] ELSE s[i]]
  <2>4. \A i \in 0..(m - 1) : s[i] = IF i = 0 THEN 0 ELSE s[i - 1] + f[i]
    BY <2>3 DEF IsSums
  <2>5. \A i \in 0..m : g[i] = IF i = 0 THEN 0 ELSE g[i - 1] + f[i]
    BY <2>1, <2>4, <1>3
  <2>6. IsSums(g, f, m)
    BY <2>5 DEF IsSums
  <2> QED BY <1>1, <2>6
<1> QED BY <1>2, <1>3

\* Two such functions agree where both are defined.
LEMMA SumsAgree ==
  ASSUME NEW f, NEW M \in Nat, NEW N \in Nat, M <= N,
         NEW s, IsSums(s, f, M), NEW g, IsSums(g, f, N)
  PROVE  \A i \in 0..M : s[i] = g[i]
<1> DEFINE T == {i \in 0..M : s[i] # g[i]}
<1> SUFFICES ASSUME T # {} PROVE FALSE
  OBVIOUS
<1>1. PICK m \in T : \A n \in T : m <= n
  <2>1. T \in SUBSET Nat
    OBVIOUS
  <2> HIDE DEF T
  <2> QED BY <2>1, LeastNat
<1>2. /\ \A i \in 0..M : s[i] = IF i = 0 THEN 0 ELSE s[i - 1] + f[i]
      /\ \A i \in 0..N : g[i] = IF i = 0 THEN 0 ELSE g[i - 1] + f[i]
  BY DEF IsSums
<1>3. m \in 0..M /\ m \in 0..N /\ s[m] # g[m]
  BY <1>1
<1>4. m # 0
  BY <1>2, <1>3
<1>5. m - 1 \in 0..M /\ m - 1 \notin T
  BY <1>1, <1>3, <1>4
<1>6. s[m - 1] = g[m - 1]
  BY <1>5
<1> QED BY <1>2, <1>3, <1>4, <1>6

\* What SumUpTo computes.
LEMMA SumSteps ==
  ASSUME NEW f
  PROVE  /\ SumUpTo(f, 0) = 0
         /\ \A n \in Nat : SumUpTo(f, n + 1) = SumUpTo(f, n) + f[n + 1]
<1>0. \A n : SumUpTo(f, n) = (CHOOSE s : IsSums(s, f, n))[n]
  BY DEF SumUpTo, IsSums
<1>1. \A n \in Nat : IsSums(CHOOSE s : IsSums(s, f, n), f, n)
  BY SumsExist
<1>2. SumUpTo(f, 0) = 0
  <2> DEFINE s == CHOOSE s : IsSums(s, f, 0)
  <2>1. IsSums(s, f, 0) /\ SumUpTo(f, 0) = s[0]
    BY <1>0, <1>1
  <2> HIDE DEF s
  <2> QED BY <2>1 DEF IsSums
<1>3. ASSUME NEW n \in Nat
      PROVE  SumUpTo(f, n + 1) = SumUpTo(f, n) + f[n + 1]
  <2> DEFINE s == CHOOSE s : IsSums(s, f, n)
             g == CHOOSE g : IsSums(g, f, n + 1)
  <2>1. IsSums(s, f, n) /\ IsSums(g, f, n + 1)
    BY <1>1
  <2>2. SumUpTo(f, n) = s[n] /\ SumUpTo(f, n + 1) = g[n + 1]
    BY <1>0
  <2> HIDE DEF s, g
  <2>3. s[n] = g[n]
    BY <2>1, SumsAgree
  <2>4. g[n + 1] = g[n] + f[n + 1]
    BY <2>1 DEF IsSums
  <2> QED BY <2>2, <2>3, <2>4
<1> QED BY <1>2, <1>3

\* Sums of naturals are naturals and grow with every positive element.
LEMMA SumsIncrease ==
  ASSUME NEW N \in Nat, NEW f, \A i \in 1..N : f[i] \in Nat
  PROVE  /\ \A n \in 0..N : SumUpTo(f, n) \in Nat
         /\ \A n \in 1..N : SumUpTo(f, n) = SumUpTo(f, n - 1) + f[n]
         /\ (\A i \in 1..N : f[i] > 0) =>
              \A m, n \in 0..N : m < n => SumUpTo(f, m) < SumUpTo(f, n)
<1>1. \A n \in 1..N : SumUpTo(f, n) = SumUpTo(f, n - 1) + f[n]
  <2> TAKE n \in 1..N
  <2>1. n - 1 \in Nat /\ (n - 1) + 1 = n
    OBVIOUS
  <2> QED BY <2>1, SumSteps
<1>2. \A n \in 0..N : SumUpTo(f, n) \in Nat
  <2> DEFINE T == {n \in 0..N : SumUpTo(f, n) \notin Nat}
  <2> SUFFICES ASSUME T # {} PROVE FALSE
    OBVIOUS
  <2>1. PICK m \in T : \A n \in T : m <= n
    <3>1. T \in SUBSET Nat
      OBVIOUS
    <3> HIDE DEF T
    <3> QED BY <3>1, LeastNat
  <2>2. m # 0
    BY <2>1, SumSteps
  <2>3. m \in 1..N /\ m - 1 \in 0..N /\ m - 1 \notin T
    BY <2>1, <2>2
  <2> QED BY <1>1, <2>1, <2>3
<1>3. ASSUME \A i \in 1..N : f[i] > 0, NEW k \in 0..N
      PROVE  \A n \in 0..N : k < n => SumUpTo(f, k) < SumUpTo(f, n)
  <2> DEFINE T == {n \in 0..N : k < n /\ ~(SumUpTo(f, k) < SumUpTo(f, n))}
  <2> SUFFICES ASSUME T # {} PROVE FALSE
    OBVIOUS
  <2>1. PICK m \in T : \A n \in T : m <= n
    <3>1. T \in SUBSET Nat
      OBVIOUS
    <3> HIDE DEF T
    <3> QED BY <3>1, LeastNat
  <2>2. m \in 1..N /\ m - 1 \in 0..N /\ m - 1 \notin T /\ k < m
    BY <2>1
  <2>3. /\ SumUpTo(f, m) = SumUpTo(f, m - 1) + f[m]
        /\ f[m] \in Nat /\ f[m] > 0
        /\ SumUpTo(f, m - 1) \in Nat /\ SumUpTo(f, m) \in Nat /\ SumUpTo(f, k) \in Nat
    BY <1>1, <1>2, <1>3, <2>2
  <2>4. k = m - 1 \/ SumUpTo(f, k) < SumUpTo(f, m - 1)
    BY <2>2
  <2> QED BY <2>1, <2>3, <2>4
<1> QED BY <1>1, <1>2, <1>3
-----------------------------------------------------------------------------
LEMMA SeqElements ==
  ASSUME NEW S, NEW s \in Seq(S)
  PROVE  \A i \in 1..Len(s) : s[i] \in S
OBVIOUS

\* The bytes of a command: its header, then its packs one after the other.
LEMMA CommandSizes ==
  ASSUME NEW c \in Command
  PROVE  /\ Len(Packs[c]) \in Nat
         /\ \A i \in 1..Len(Packs[c]) :
              /\ Packs[c][i] \in [family : {"scalar", "vector", "string"}, size : Nat]
              /\ PacksUpTo(c, i) = PacksUpTo(c, i - 1) + PackSize(Packs[c][i])
         /\ \A i \in 0..Len(Packs[c]) : PacksUpTo(c, i) \in Nat
         /\ PacksUpTo(c, 0) = 0
         /\ CommandSize(c) = HEADER_SIZE + PacksUpTo(c, Len(Packs[c]))
         /\ CommandSize(c) \in Nat \ {0}
<1> DEFINE f == [i \in DOMAIN Packs[c] |-> PackSize(Packs[c][i])]
           N == Len(Packs[c])
<1>1. Packs[c] \in Seq([family : {"scalar", "vector", "string"}, size : Nat])
  BY PacksAssumption
<1>2. N \in Nat /\ DOMAIN Packs[c] = 1..N
  BY <1>1
<1>3. \A i \in 1..N : Packs[c][i] \in [family : {"scalar", "vector", "string"}, size : Nat]
  BY <1>1, SeqElements
<1>4. \A i \in 1..N : f[i] = PackSize(Packs[c][i]) /\ f[i] \in Nat
  BY <1>2, <1>3, SizesAssumption DEF PackSize
<1>5. \A i : PacksUpTo(c, i) = SumUpTo(f, i)
  BY DEF PacksUpTo
<1> HIDE DEF f
<1>6. /\ \A i \in 0..N : SumUpTo(f, i) \in Nat
      /\ \A i \in 1..N : SumUpTo(f, i) = SumUpTo(f, i - 1) + f[i]
  BY <1>2, <1>4, SumsIncrease
<1>7. PacksUpTo(c, 0) = 0
  BY <1>5, SumSteps
<1>8. CommandSize(c) = HEADER_SIZE + PacksUpTo(c, N) /\ PacksUpTo(c, N) \in Nat
  BY <1>2, <1>5, <1>6 DEF CommandSize
<1>9. CommandSize(c) \in Nat \ {0}
  BY <1>8, SizesAssumption
<1> QED BY <1>2, <1>3, <1>4, <1>5, <1>6, <1>7, <1>8, <1>9

\* StreamUpTo, with the commands as a parameter.
Boundary(scr, n) == SumUpTo([i \in DOMAIN scr |-> CommandSize(scr[i])], n)

\* The boundaries between the commands of a stream are strictly increasing.
LEMMA BoundariesIncrease ==
  ASSUME NEW scr \in Seq(Command)
  PROVE  /\ Len(scr) \in Nat
         /\ \A n \in 0..Len(scr) : Boundary(scr, n) \in Nat
         /\ \A n \in 1..Len(scr) : Boundary(scr, n) = Boundary(scr, n - 1) + CommandSize(scr[n])
         /\ \A m, n \in 0..Len(scr) : m < n => Boundary(scr, m) < Boundary(scr, n)
         /\ Boundary(scr, 0) = 0
<1> DEFINE f == [i \in DOMAIN scr |-> CommandSize(scr[i])]
           N == Len(scr)
<1>1. N \in Nat /\ DOMAIN scr = 1..N /\ \A i \in 1..N : scr[i] \in Command
  OBVIOUS
<1>2. \A i \in 1..N : f[i] = CommandSize(scr[i]) /\ f[i] \in Nat /\ f[i] > 0
  BY <1>1, CommandSizes
<1>3. \A n : Boundary(scr, n) = SumUpTo(f, n)
  BY DEF Boundary
<1> HIDE DEF f
<1>4. /\ \A n \in 0..N : SumUpTo(f, n) \in Nat
      /\ \A n \in 1..N : SumUpTo(f, n) = SumUpTo(f, n - 1) + f[n]
  BY <1>1, <1>2, SumsIncrease
<1>5. \A m, n \in 0..N : m < n => SumUpTo(f, m) < SumUpTo(f, n)
  BY <1>1, <1>2, SumsIncrease
<1>6. Boundary(scr, 0) = 0
  BY <1>3, SumSteps
<1> HIDE DEF N
<1>7. /\ \A n \in 0..N : Boundary(scr, n) \in Nat
      /\ \A n \in 1..N : Boundary(scr, n) = Boundary(scr, n - 1) + CommandSize(scr[n])
      /\ \A m, n \in 0..N : m < n => Boundary(scr, m) < Boundary(scr, n)
  BY <1>2, <1>3, <1>4, <1>5
<1> QED BY <1>1, <1>6, <1>7 DEF N
-----------------------------------------------------------------------------
(***************************************************************************)
(* The inductive invariant.                                                *)
(***************************************************************************)
\* A signal has cut the arguments of a command short: what is left of them is
\* read as a header, and nothing is claimed of the stream any more.
Lost == cut # 0

\* The client has gone and nothing it sent is left: no read succeeds again.
AtEnd == client = "closed" /\ pos = arrived

TSTypes ==
  /\ script \in Seq(Command)
  /\ arrived \in Nat /\ pos \in Nat /\ need \in Nat
  /\ cut \in Nat /\ (Lost => interrupted)
  /\ pc \in {"header", "args", "length", "call", "returned", "crashed"}
  /\ whole \in BOOLEAN
  /\ executed \in Seq([cmd : Command, whole : BOOLEAN])
  /\ pc \in {"args", "length", "call"} => cmd \in Command
  /\ pc \in {"args", "length"} => pack \in 1..Len(Packs[cmd])
  /\ pc = "length" => Packs[cmd][pack].family # "scalar"
  /\ pc = "call" => need = 0

\* The server takes no byte that has not arrived, and no byte arrives that is
\* not of the script.
BytesBounded == pos <= arrived /\ arrived <= Boundary(script, Len(script))

\* The operations called so far were called with all their arguments.
Wholly == \A i \in 1..Len(executed) : executed[i].whole

\* Bytes of the packs of c that have been taken once the read under way at
\* its pack i is complete.
Expected(at, c, i) ==
  IF at = "args" THEN PacksUpTo(c, i)
  ELSE IF at = "length" THEN PacksUpTo(c, i - 1) + LENGTH_SIZE
  ELSE PacksUpTo(c, Len(Packs[c]))

\* A header is read right behind the commands executed.
HeaderInStep ==
  pc = "header" =>
    \/ AtEnd /\ need = HEADER_SIZE
    \/ Wholly /\ pos + need = Boundary(script, Len(executed)) + HEADER_SIZE

\* The command whose arguments are received is the next of the script, and
\* the read under way is for the bytes its pack has in the stream; or the
\* stream has ended in it.
CommandInStep ==
  pc \in {"args", "length", "call"} =>
    /\ Wholly
    /\ Len(executed) < Len(script) /\ cmd = script[Len(executed) + 1]
    /\ \/ /\ whole
          /\ pos + need = Boundary(script, Len(executed)) + HEADER_SIZE
                            + Expected(pc, cmd, pack)
       \/ ~whole /\ AtEnd /\ (pc = "length" => need = LENGTH_SIZE)

\* The commands executed are those of the script; only the last of them can
\* have been cut short.
Prefix ==
  /\ Len(executed) <= Len(script)
  /\ \A i \in 1..Len(executed) :
       /\ executed[i].cmd = script[i]
       /\ ~executed[i].whole => i = Len(executed) /\ client # "open"

\* The commands executed before the one that was cut short.
Kept ==
  /\ cut <= Len(executed) + 1
  /\ \A i \in 1..Len(executed) :
       i < cut => i <= Len(script) /\ executed[i].cmd = script[i] /\ executed[i].whole

InStep ==
  WellFormed => IF Lost THEN Kept ELSE HeaderInStep /\ CommandInStep /\ Prefix

TSInv == TSTypes /\ BytesBounded /\ InStep /\ CrashForCause
-----------------------------------------------------------------------------
LEMMA StreamBoundary == StreamSize = Boundary(script, Len(script))
                        /\ \A n : StreamUpTo(n) = Boundary(script, n)
BY DEF StreamSize, StreamUpTo, Boundary

\* The read that Receive begins at pack i is for the bytes the stream holds
\* behind the packs before i.
LEMMA ReceiveExpects ==
  ASSUME NEW c \in Command, NEW i \in 1..(Len(Packs[c]) + 1), Receive(c, i)
  PROVE  /\ pc' \in {"args", "length", "call"} /\ need' \in Nat
         /\ pc' \in {"args", "length"} => pack' \in 1..Len(Packs[c])
         /\ pc' = "length" => Packs[c][pack'].family # "scalar" /\ need' = LENGTH_SIZE
         /\ pc' = "call" => need' = 0
         /\ PacksUpTo(c, i - 1) + need' = Expected(pc', c, pack')
<1>1. Len(Packs[c]) \in Nat
  BY CommandSizes
<1>2. CASE i > Len(Packs[c])
  <2>1. i - 1 = Len(Packs[c]) /\ pc' = "call" /\ need' = 0 /\ pack' = i
    BY <1>1, <1>2 DEF Receive
  <2>2. PacksUpTo(c, i - 1) \in Nat
    BY <1>1, <2>1, CommandSizes
  <2> QED BY <2>1, <2>2 DEF Expected
<1>3. CASE ~(i > Len(Packs[c]))
  <2>1. i \in 1..Len(Packs[c]) /\ pack' = i
    BY <1>1, <1>3 DEF Receive
  <2>2. /\ Packs[c][i] \in [family : {"scalar", "vector", "string"}, size : Nat]
        /\ PacksUpTo(c, i) = PacksUpTo(c, i - 1) + PackSize(Packs[c][i])
        /\ PacksUpTo(c, i - 1) \in Nat
    BY <1>1, <2>1, CommandSizes
  <2>3. CASE Packs[c][i].family = "scalar"
    <3>1. pc' = "args" /\ need' = Packs[c][i].size /\ need' \in Nat
      BY <1>3, <2>2, <2>3 DEF Receive
    <3>2. PackSize(Packs[c][i]) = need'
      BY <2>3, <3>1 DEF PackSize
    <3> QED BY <2>1, <2>2, <3>1, <3>2 DEF Expected
  <2>4. CASE Packs[c][i].family # "scalar"
    <3>1. pc' = "length" /\ need' = LENGTH_SIZE
      BY <1>3, <2>4 DEF Receive
    <3> QED BY <2>1, <2>2, <2>4, <3>1, SizesAssumption DEF Expected
  <2> QED BY <2>3, <2>4
<1> QED BY <1>2, <1>3

\* In step, a complete header is that of the first command not yet executed,
\* and is decoded as such.
LEMMA DecodedInStep ==
  ASSUME TSTypes, BytesBounded, InStep, WellFormed, ~Lost, pc = "header", need = 0
  PROVE  /\ Wholly /\ Len(executed) < Len(script)
         /\ pos = Boundary(script, Len(executed)) + HEADER_SIZE
         /\ StreamUpTo(Len(executed)) = Start
         /\ Decoded = {script[Len(executed) + 1]}
<1> DEFINE k == Len(executed)
           N == Len(script)
<1>1. k \in Nat /\ N \in Nat /\ k <= N /\ DOMAIN script = 1..N
  BY DEF TSTypes, InStep, Prefix
<1>2. Wholly /\ pos + need = Boundary(script, k) + HEADER_SIZE
  BY SizesAssumption DEF InStep, HeaderInStep
<1>3. /\ \A n \in 0..N : Boundary(script, n) \in Nat
      /\ \A m, n \in 0..N : m < n => Boundary(script, m) < Boundary(script, n)
  BY BoundariesIncrease DEF TSTypes
<1>4. pos \in Nat /\ pos <= Boundary(script, N) /\ HEADER_SIZE \in Nat \ {0}
  <2>1. pos \in Nat /\ arrived \in Nat /\ Boundary(script, N) \in Nat
    BY <1>1, <1>3 DEF TSTypes
  <2> QED BY <2>1, SizesAssumption DEF BytesBounded
<1> HIDE DEF k, N
<1>5. pos = Boundary(script, k) + HEADER_SIZE /\ k < N
  BY <1>1, <1>2, <1>3, <1>4
<1>6. Start = Boundary(script, k)
  BY <1>1, <1>3, <1>5, SizesAssumption DEF Start
<1>7. StreamUpTo(k) = Start
  BY <1>6, StreamBoundary
<1>8. ASSUME NEW j \in DOMAIN script
      PROVE  StreamUpTo(j - 1) = Start <=> j = k + 1
  <2>1. j - 1 \in 0..N /\ k \in 0..N
    BY <1>1, <1>5
  <2>2. StreamUpTo(j - 1) = Start => ~(j - 1 < k) /\ ~(k < j - 1)
    BY <1>3, <1>6, <2>1, StreamBoundary
  <2>3. j = k + 1 => StreamUpTo(j - 1) = Start
    BY <1>1, <1>7
  <2> QED BY <1>1, <2>1, <2>2, <2>3
<1>9. k + 1 \in DOMAIN script
  BY <1>1, <1>5
<1>10. {j \in DOMAIN script : StreamUpTo(j - 1) = Start} = {k + 1}
  BY <1>8, <1>9
<1>11. Decoded = {script[k + 1]}
  <2>1. Decoded = {script[i] : i \in {j \in DOMAIN script : StreamUpTo(j - 1) = Start}}
    BY <1>8, <1>9 DEF Decoded
  <2> QED BY <1>10, <2>1
<1> QED BY <1>2, <1>5, <1>7, <1>11 DEF k, N

\* In step, the length just read is one the client wrote.
LEMMA LengthsInStep ==
  ASSUME TSTypes, InStep, WellFormed, ~Lost, pc = "length", need = 0
  PROVE  LengthInStep /\ whole
<1> DEFINE k == Len(executed)
<1>1. whole /\ k < Len(script) /\ cmd = script[k + 1]
      /\ pos + need = Boundary(script, k) + HEADER_SIZE + Expected(pc, cmd, pack)
  BY SizesAssumption DEF InStep, CommandInStep
<1>2. k \in Nat /\ Len(script) \in Nat /\ DOMAIN script = 1..Len(script) /\ pos \in Nat
  BY DEF TSTypes
<1>3. k + 1 \in DOMAIN script /\ (k + 1) - 1 = k /\ pos + need = pos
  BY <1>1, <1>2
<1>4. /\ Boundary(script, k) \in Nat
      /\ PacksUpTo(cmd, pack - 1) \in Nat
  <2>1. cmd \in Command /\ pack \in 1..Len(Packs[cmd]) /\ script \in Seq(Command)
    BY DEF TSTypes
  <2>2. Len(Packs[cmd]) \in Nat /\ \A i \in 0..Len(Packs[cmd]) : PacksUpTo(cmd, i) \in Nat
    BY <2>1, CommandSizes
  <2>3. k \in 0..Len(script)
    BY <1>1, <1>2
  <2> QED BY <2>1, <2>2, <2>3, BoundariesIncrease
<1>5. pos = StreamUpTo((k + 1) - 1) + HEADER_SIZE + PacksUpTo(cmd, pack - 1) + LENGTH_SIZE
  BY <1>1, <1>3, <1>4, SizesAssumption, StreamBoundary DEF Expected
<1> QED BY <1>1, <1>3, <1>5 DEF LengthInStep
-----------------------------------------------------------------------------
\* The pack behind the one being received.
LEMMA NextPack ==
  ASSUME TSTypes, pc \in {"args", "length"}
  PROVE  /\ cmd \in Command /\ pack \in Nat /\ Len(Packs[cmd]) \in Nat
         /\ pack \in 1..Len(Packs[cmd])
         /\ pack + 1 \in 1..(Len(Packs[cmd]) + 1) /\ (pack + 1) - 1 = pack
         /\ PacksUpTo(cmd, pack) \in Nat /\ PacksUpTo(cmd, pack - 1) \in Nat
         /\ Packs[cmd][pack] \in [family : {"scalar", "vector", "string"}, size : Nat]
         /\ PacksUpTo(cmd, pack) = PacksUpTo(cmd, pack - 1) + PackSize(Packs[cmd][pack])
<1>1. cmd \in Command /\ pack \in 1..Len(Packs[cmd])
  BY DEF TSTypes
<1>2. /\ Len(Packs[cmd]) \in Nat
      /\ \A i \in 1..Len(Packs[cmd]) :
           /\ Packs[cmd][i] \in [family : {"scalar", "vector", "string"}, size : Nat]
           /\ PacksUpTo(cmd, i) = PacksUpTo(cmd, i - 1) + PackSize(Packs[cmd][i])
      /\ \A i \in 0..Len(Packs[cmd]) : PacksUpTo(cmd, i) \in Nat
  BY <1>1, CommandSizes
<1>3. pack \in Nat /\ pack \in 0..Len(Packs[cmd]) /\ pack - 1 \in 0..Len(Packs[cmd])
  BY <1>1, <1>2
<1> QED BY <1>1, <1>2, <1>3

\* Every step keeps the types and the bounds on the bytes.
LEMMA NextKeepsTypes ==
  ASSUME TSTypes, BytesBounded, [TSNext]_tsVars
  PROVE  TSTypes' /\ BytesBounded'
<1> USE SizesAssumption
<1>0. StreamSize \in Nat /\ StreamSize = Boundary(script, Len(script))
  BY BoundariesIncrease, StreamBoundary DEF TSTypes
<1>1. ASSUME NEW n \in 1..(StreamSize - arrived), Arrive(n)
      PROVE  TSTypes' /\ BytesBounded'
  BY <1>0, <1>1 DEF Arrive, TSTypes, BytesBounded, Lost
<1>2. ASSUME NEW how \in {"closed", "reset"}, Close(how)
      PROVE  TSTypes' /\ BytesBounded'
  BY <1>2 DEF Close, TSTypes, BytesBounded, Lost
<1>3. CASE close_listeners
  BY <1>3 DEF close_listeners, TSTypes, BytesBounded, Lost
<1>4. CASE RunSeesExit
  BY <1>4 DEF RunSeesExit, Returns, TSTypes, BytesBounded, Lost, netVars
<1>5. ASSUME NEW n \in 1..need, ReadSome(n)
      PROVE  TSTypes' /\ BytesBounded'
  BY <1>5 DEF ReadSome, Read, Receiving, TSTypes, BytesBounded, Lost, netVars
<1>6. CASE HeaderEof \/ HeaderDropped
  BY <1>6 DEF HeaderEof, HeaderDropped, Returns, TSTypes, BytesBounded, Lost, netVars
<1>7. CASE HeaderNoDevice \/ LengthTooLong
  BY <1>7 DEF HeaderNoDevice, LengthTooLong, Crashes, TSTypes, BytesBounded, Lost, netVars
<1>8. ASSUME NEW c \in Command, HeaderRead(c)
      PROVE  TSTypes' /\ BytesBounded'
  <2>1. /\ cmd' = c /\ whole' = TRUE /\ script' = script /\ arrived' = arrived
        /\ pos' = pos /\ executed' = executed /\ UNCHANGED <<cut, interrupted>>
    BY <1>8 DEF HeaderRead, netVars
  <2>2. CASE c \in Unknown
    BY <1>8, <2>1, <2>2 DEF HeaderRead, TSTypes, BytesBounded, Lost
  <2>3. CASE c \notin Unknown
    <3>1. Receive(c, 1) /\ 1 \in 1..(Len(Packs[c]) + 1)
      BY <1>8, <2>3, CommandSizes DEF HeaderRead
    <3> QED BY <2>1, <3>1, ReceiveExpects DEF TSTypes, BytesBounded, Lost
  <2> QED BY <2>2, <2>3
<1>9. ASSUME pc \in {"args", "length"}, Receive(cmd, pack + 1), whole' \in BOOLEAN,
             UNCHANGED <<script, pos, cmd, executed>>, arrived' \in {arrived, pos},
             cut' \in Nat, Lost' => interrupted'
      PROVE  TSTypes' /\ BytesBounded'
  <2>1. cmd \in Command /\ pack + 1 \in 1..(Len(Packs[cmd]) + 1)
    BY <1>9, NextPack
  <2>2. arrived' \in Nat /\ BytesBounded'
    BY <1>0, <1>9 DEF TSTypes, BytesBounded
  <2> QED BY <1>9, <2>1, <2>2, ReceiveExpects DEF TSTypes
<1>10. CASE PackRead \/ PackEof
  BY <1>9, <1>10 DEF PackRead, PackEof, TSTypes, Lost, netVars
<1>11. CASE LengthRead
  <2>1. need' \in Nat
    <3>1. pc = "length" /\ (need' = Packs[cmd][pack].size \/ need' \in Nat)
      BY <1>11 DEF LengthRead
    <3> QED BY <1>0, <3>1, NextPack
  <2> QED BY <1>11, <2>1 DEF LengthRead, TSTypes, BytesBounded, Lost, netVars
<1>12. CASE LengthEof
  <2>1. CASE Crashes
    BY <1>12, <2>1 DEF LengthEof, Crashes, TSTypes, BytesBounded, Lost, netVars
  <2> QED BY <1>9, <1>12, <2>1 DEF LengthEof, TSTypes, Lost, netVars
<1>13. CASE Call
  <2>2. executed' \in Seq([cmd : Command, whole : BOOLEAN])
    <3>1. cmd \in Command /\ whole \in BOOLEAN
      BY <1>13 DEF Call, TSTypes
    <3>2. [cmd |-> cmd, whole |-> whole] \in [cmd : Command, whole : BOOLEAN]
      BY <3>1
    <3> DEFINE e == [cmd |-> cmd, whole |-> whole]
               S == [cmd : Command, whole : BOOLEAN]
    <3>3. executed \in Seq(S) /\ executed' = Append(executed, e) /\ e \in S
      BY <1>13, <3>2 DEF Call, TSTypes
    <3> HIDE DEF e, S
    <3>4. executed' \in Seq(S)
      BY <3>3
    <3> QED BY <3>4 DEF S
  <2> QED BY <1>13, <2>2 DEF Call, TSTypes, BytesBounded, Lost, netVars
<1>14. CASE (ReadsError \/ ReadsInterrupted) /\ ReadFails
  <2>1. /\ script' = script /\ arrived' \in {arrived, pos}
        /\ cut' \in Nat /\ (Lost' => interrupted')
    BY <1>14 DEF ReadsError, ReadsInterrupted, TSTypes, Lost
  <2>2. CASE pc = "length" /\ Receive(cmd, pack + 1)
    <3>1. pc = "length" /\ LengthError
      BY <1>14, <2>2 DEF ReadFails, HeaderError, PackError
    <3>2. CASE Receive(cmd, pack + 1) /\ whole' = FALSE /\ UNCHANGED <<pos, cmd, executed>>
      BY <1>9, <2>1, <2>2, <3>2
    <3>3. CASE Fails \/ Crashes
      BY <2>2, <3>3 DEF Receive, Fails, Crashes
    <3> QED BY <3>1, <3>2, <3>3 DEF LengthError
  <2>3. CASE ~(pc = "length" /\ Receive(cmd, pack + 1))
    <3>1. \/ pc' \in {"returned", "crashed"} /\ UNCHANGED <<pos, need, cmd, pack, whole, executed>>
          \/ Fails
      BY <1>14, <2>3 DEF ReadFails, HeaderError, PackError, LengthError, Returns, Crashes
    <3>2. pos' = pos /\ need' \in Nat /\ whole' = whole /\ executed' = executed
          /\ pc' \in {"returned", "crashed", "header"}
      BY <3>1 DEF Fails, TSTypes
    <3>3. BytesBounded'
      BY <1>0, <2>1, <3>2 DEF TSTypes, BytesBounded
    <3> QED BY <2>1, <3>2, <3>3 DEF TSTypes
  <2> QED BY <2>2, <2>3
<1>15. CASE UNCHANGED tsVars
  BY <1>15 DEF tsVars, netVars, TSTypes, BytesBounded, Lost
<1> QED
  BY <1>1, <1>2, <1>3, <1>4, <1>5, <1>6, <1>7, <1>8, <1>10, <1>11, <1>12, <1>13, <1>14, <1>15
     DEF TSNext, SessionThread, Ended
-----------------------------------------------------------------------------
\* The script never changes, and what is lost stays lost.
LEMMA LostForGood ==
  ASSUME TSTypes, [TSNext]_tsVars
  PROVE  /\ script' = script
         /\ cut' # cut => ~Lost /\ ReadsInterrupted /\ ReadFails
<1> QED
  BY DEF TSNext, SessionThread, Arrive, Close, close_listeners, ReadSome, Read, ReadsError,
         ReadsInterrupted, HeaderEof, HeaderDropped, HeaderNoDevice, HeaderRead,
         PackRead, PackEof, LengthRead, LengthTooLong, LengthEof, Call, RunSeesExit, Ended,
         tsVars, netVars, TSTypes

\* A pack follows one that was received whole, or one the end of the stream
\* cut short.
LEMMA ReceiveInStep ==
  ASSUME TSTypes, InStep, WellFormed, ~Lost, pc \in {"args", "length"},
         Receive(cmd, pack + 1), UNCHANGED <<script, pos, cmd, executed>>,
         \/ pc = "args" /\ need = 0 /\ whole' = whole /\ UNCHANGED <<client, arrived>>
         \/ AtEnd' /\ whole' = FALSE
  PROVE  HeaderInStep' /\ CommandInStep' /\ Prefix'
<1> DEFINE k == Len(executed)
<1>1. /\ script' = script /\ executed' = executed /\ pos' = pos /\ cmd' = cmd
      /\ client' = "open" => client = "open"
  BY DEF AtEnd
<1>2. /\ Wholly /\ k < Len(script) /\ cmd = script[k + 1]
      /\ \/ whole /\ pos + need = Boundary(script, k) + HEADER_SIZE + Expected(pc, cmd, pack)
         \/ ~whole /\ AtEnd
      /\ Prefix
  BY DEF InStep, CommandInStep
<1>3. /\ cmd \in Command /\ pack + 1 \in 1..(Len(Packs[cmd]) + 1)
      /\ (pack + 1) - 1 = pack /\ PacksUpTo(cmd, pack) \in Nat
  BY NextPack
<1>4. /\ pc' \in {"args", "length", "call"} /\ need' \in Nat
      /\ pc' = "length" => need' = LENGTH_SIZE
      /\ PacksUpTo(cmd, pack) + need' = Expected(pc', cmd, pack')
  BY <1>3, ReceiveExpects
<1>5. Wholly' /\ Prefix'
  BY <1>1, <1>2 DEF Wholly, Prefix
<1>6. Boundary(script, k) \in Nat /\ pos \in Nat /\ whole \in BOOLEAN
  BY <1>2, BoundariesIncrease DEF TSTypes
<1>7. ASSUME pc = "args", need = 0, whole' = whole, whole
      PROVE  pos + need' = Boundary(script, k) + HEADER_SIZE + Expected(pc', cmd, pack')
  <2>1. pos = Boundary(script, k) + HEADER_SIZE + PacksUpTo(cmd, pack)
    BY <1>2, <1>3, <1>6, <1>7 DEF Expected
  <2>2. pos + need' = (Boundary(script, k) + HEADER_SIZE) + (PacksUpTo(cmd, pack) + need')
    <3>1. /\ Boundary(script, k) \in Nat /\ HEADER_SIZE \in Nat
          /\ PacksUpTo(cmd, pack) \in Nat /\ need' \in Nat
      BY <1>3, <1>4, <1>6, SizesAssumption
    <3> QED BY <2>1, <3>1
  <2> QED BY <1>4, <2>2
<1>8. AtEnd => AtEnd'
  BY <1>1 DEF AtEnd
<1>9. \/ whole' /\ pos + need' = Boundary(script, k) + HEADER_SIZE + Expected(pc', cmd, pack')
      \/ ~whole' /\ AtEnd'
  BY <1>2, <1>6, <1>7, <1>8
<1> QED BY <1>1, <1>2, <1>4, <1>5, <1>9 DEF HeaderInStep, CommandInStep

\* Until a signal cuts a command short, every step keeps the server in step
\* with its client.
LEMMA StepInStep ==
  ASSUME TSInv, [TSNext]_tsVars, WellFormed, ~Lost'
  PROVE  HeaderInStep' /\ CommandInStep' /\ Prefix'
<1>1. script' = script /\ ~Lost /\ TSTypes
  BY LostForGood DEF TSInv, Lost
<1>2. /\ TSTypes /\ BytesBounded /\ InStep /\ ~Lost
      /\ HeaderInStep /\ CommandInStep /\ Prefix
  BY <1>1 DEF TSInv, InStep
<1>3. pos \in Nat /\ need \in Nat /\ arrived \in Nat /\ pos <= arrived
      /\ HEADER_SIZE \in Nat \ {0} /\ LENGTH_SIZE \in Nat \ {0}
      /\ Len(executed) \in Nat /\ Len(script) \in Nat /\ whole \in BOOLEAN
      /\ pc \in {"header", "args", "length", "call", "returned", "crashed"}
  BY <1>2, SizesAssumption DEF TSTypes, BytesBounded
<1>4. ASSUME NEW n, Arrive(n)
      PROVE  HeaderInStep' /\ CommandInStep' /\ Prefix'
  BY <1>2, <1>4 DEF Arrive, HeaderInStep, CommandInStep, Prefix, Wholly, AtEnd
<1>5. ASSUME NEW how \in {"closed", "reset"}, Close(how)
      PROVE  HeaderInStep' /\ CommandInStep' /\ Prefix'
  BY <1>2, <1>5 DEF Close, HeaderInStep, CommandInStep, Prefix, Wholly, AtEnd
<1>6. CASE close_listeners
  BY <1>2, <1>6 DEF close_listeners, HeaderInStep, CommandInStep, Prefix, Wholly, AtEnd
<1>7. CASE RunSeesExit \/ HeaderEof \/ HeaderDropped \/ HeaderNoDevice \/ LengthTooLong
  <2>1. /\ pc' \in {"returned", "crashed"}
        /\ UNCHANGED <<script, client, executed>>
    BY <1>7 DEF RunSeesExit, HeaderEof, HeaderDropped, HeaderNoDevice, LengthTooLong, Returns,
                Crashes, netVars
  <2> QED BY <1>2, <2>1 DEF HeaderInStep, CommandInStep, Prefix
<1>8. ASSUME NEW n \in 1..need, ReadSome(n)
      PROVE  HeaderInStep' /\ CommandInStep' /\ Prefix'
  <2>1. /\ pc \in {"header", "args", "length"} /\ pos + n <= arrived
        /\ pos' = pos + n /\ need' = need - n
        /\ UNCHANGED <<script, client, arrived, pc, cmd, pack, whole, executed>>
    BY <1>8 DEF ReadSome, Read, Receiving, netVars
  <2>2. ~AtEnd /\ pos' + need' = pos + need
    BY <1>3, <2>1 DEF AtEnd
  <2> QED BY <1>2, <2>1, <2>2 DEF HeaderInStep, CommandInStep, Prefix, Wholly
<1>9. ASSUME NEW c \in Command, HeaderRead(c)
      PROVE  HeaderInStep' /\ CommandInStep' /\ Prefix'
  <2> DEFINE k == Len(executed)
  <2>1. /\ pc = "header" /\ need = 0 /\ c \in Decoded /\ cmd' = c /\ whole' = TRUE
        /\ UNCHANGED <<script, client, arrived, pos, executed>>
    BY <1>9 DEF HeaderRead, netVars
  <2>2. /\ Wholly /\ k < Len(script) /\ pos = Boundary(script, k) + HEADER_SIZE
        /\ c = script[k + 1]
    BY <1>2, <2>1, DecodedInStep
  <2>3. k + 1 \in DOMAIN script
    BY <1>2, <1>3, <2>2 DEF TSTypes
  <2>4. c \notin Unknown
    BY <2>2, <2>3 DEF WellFormed
  <2>5. Receive(c, 1) /\ 1 \in 1..(Len(Packs[c]) + 1)
    BY <1>9, <2>4, CommandSizes DEF HeaderRead
  <2>6. /\ pc' \in {"args", "length", "call"} /\ need' \in Nat
        /\ PacksUpTo(c, 1 - 1) + need' = Expected(pc', c, pack')
    BY <2>5, ReceiveExpects
  <2>7. PacksUpTo(c, 1 - 1) = 0
    BY CommandSizes
  <2>8. pos + need' = Boundary(script, k) + HEADER_SIZE + Expected(pc', c, pack')
    BY <2>2, <2>6, <2>7
  <2>9. Wholly' /\ Prefix'
    BY <1>2, <2>1, <2>2 DEF Wholly, Prefix
  <2> QED BY <2>1, <2>2, <2>6, <2>8, <2>9 DEF HeaderInStep, CommandInStep
<1>10. CASE PackRead
  BY <1>2, <1>10, ReceiveInStep DEF PackRead, netVars
<1>11. CASE PackEof
  BY <1>2, <1>11, ReceiveInStep DEF PackEof, ReadsEof, AtEnd, netVars
<1>12. CASE LengthRead
  <2> DEFINE k == Len(executed)
  <2>1. /\ pc = "length" /\ need = 0 /\ pc' = "args"
        /\ UNCHANGED <<script, client, arrived, pos, cmd, pack, whole, executed>>
    BY <1>12 DEF LengthRead, netVars
  <2>2. LengthInStep /\ whole
    BY <1>2, <2>1, LengthsInStep
  <2>3. need' = Packs[cmd][pack].size
    BY <1>12, <2>2 DEF LengthRead
  <2>4. /\ PacksUpTo(cmd, pack) = PacksUpTo(cmd, pack - 1) + PackSize(Packs[cmd][pack])
        /\ PacksUpTo(cmd, pack - 1) \in Nat
        /\ Packs[cmd][pack] \in [family : {"scalar", "vector", "string"}, size : Nat]
    BY <1>2, <2>1, NextPack
  <2>5. PackSize(Packs[cmd][pack]) = LENGTH_SIZE + need' /\ need' \in Nat
    BY <1>2, <2>1, <2>3, <2>4 DEF PackSize, TSTypes
  <2>6. /\ Wholly /\ k < Len(script) /\ cmd = script[k + 1]
        /\ pos + need = Boundary(script, k) + HEADER_SIZE + Expected(pc, cmd, pack)
    BY <1>2, <2>1, <2>2 DEF CommandInStep
  <2>7. Boundary(script, k) \in Nat
    BY <1>2, <1>3, <2>6, BoundariesIncrease DEF TSTypes
  <2>8. pos + need' = Boundary(script, k) + HEADER_SIZE + Expected(pc', cmd, pack)
    <3>1. /\ Expected(pc, cmd, pack) = PacksUpTo(cmd, pack - 1) + LENGTH_SIZE
          /\ Expected(pc', cmd, pack) = PacksUpTo(cmd, pack)
      BY <2>1 DEF Expected
    <3>2. pos = Boundary(script, k) + HEADER_SIZE + (PacksUpTo(cmd, pack - 1) + LENGTH_SIZE)
      BY <1>3, <2>1, <2>6, <3>1
    <3>3. Expected(pc', cmd, pack) = PacksUpTo(cmd, pack - 1) + (LENGTH_SIZE + need')
      BY <2>4, <2>5, <3>1
    <3>4. PacksUpTo(cmd, pack - 1) \in Nat /\ HEADER_SIZE \in Nat /\ LENGTH_SIZE \in Nat
          /\ need' \in Nat
      BY <1>3, <2>4, <2>5
    <3>5. /\ pos + need' = (Boundary(script, k) + HEADER_SIZE
                             + (PacksUpTo(cmd, pack - 1) + LENGTH_SIZE)) + need'
          /\ Boundary(script, k) + HEADER_SIZE + Expected(pc', cmd, pack)
             = Boundary(script, k) + HEADER_SIZE + (PacksUpTo(cmd, pack - 1) + (LENGTH_SIZE + need'))
      BY <3>2, <3>3, Zenon
    <3> HIDE DEF Expected
    <3> QED BY <2>7, <3>4, <3>5
  <2>9. Wholly' /\ Prefix'
    BY <1>2, <2>1, <2>6 DEF Wholly, Prefix
  <2> QED BY <2>1, <2>2, <2>6, <2>8, <2>9 DEF HeaderInStep, CommandInStep
<1>13. CASE LengthEof
  <2>1. CASE Crashes
    BY <1>2, <1>13, <2>1 DEF LengthEof, Crashes, HeaderInStep, CommandInStep, Prefix, netVars
  <2>2. CASE ~Crashes
    BY <1>2, <1>13, <2>2, ReceiveInStep DEF LengthEof, ReadsEof, AtEnd, netVars
  <2> QED BY <2>1, <2>2
<1>14. CASE Call
  <2> DEFINE k == Len(executed)
             e == [cmd |-> cmd, whole |-> whole]
  <2>1. /\ pc = "call" /\ pc' = "header" /\ need' = HEADER_SIZE
        /\ executed' = Append(executed, e)
        /\ UNCHANGED <<script, client, arrived, pos>>
    BY <1>14 DEF Call, netVars
  <2>2. /\ Wholly /\ k < Len(script) /\ cmd = script[k + 1]
        /\ \/ whole /\ pos + need = Boundary(script, k) + HEADER_SIZE + Expected(pc, cmd, pack)
           \/ ~whole /\ AtEnd
    BY <1>2, <2>1 DEF CommandInStep
  <2>3. need = 0 /\ cmd \in Command /\ executed \in Seq([cmd : Command, whole : BOOLEAN])
    BY <1>2, <2>1 DEF TSTypes
  <2>4. e.cmd = cmd /\ e.whole = whole
    OBVIOUS
  <2> HIDE DEF e
  <2>5. /\ Len(executed') = k + 1 /\ executed'[k + 1] = e
        /\ \A i \in 1..k : executed'[i] = executed[i]
    BY <2>1, <2>3
  <2>6. Prefix'
    <3>1. Len(executed') <= Len(script')
      BY <1>3, <2>1, <2>2, <2>5
    <3>2. ASSUME NEW i \in 1..Len(executed')
          PROVE  /\ executed'[i].cmd = script'[i]
                 /\ ~executed'[i].whole => i = Len(executed') /\ client' # "open"
      <4>1. CASE i = k + 1
        BY <2>1, <2>2, <2>4, <2>5, <4>1 DEF AtEnd
      <4>2. CASE i # k + 1
        <5>1. i \in 1..k
          BY <1>3, <2>5, <4>2
        <5> QED BY <1>2, <2>1, <2>2, <2>5, <5>1 DEF Prefix, Wholly
      <4> QED BY <4>1, <4>2
    <3> QED BY <3>1, <3>2 DEF Prefix
  <2>7. CASE whole
    <3>1. Wholly'
      <4> SUFFICES ASSUME NEW i \in 1..Len(executed') PROVE executed'[i].whole
        BY DEF Wholly
      <4>1. i = k + 1 \/ i \in 1..k
        BY <1>3, <2>5
      <4> QED BY <2>2, <2>4, <2>5, <2>7, <4>1 DEF Wholly
    <3>2. k + 1 \in 1..Len(script) /\ (k + 1) - 1 = k /\ k \in 0..Len(script)
      BY <1>3, <2>2
    <3>3. /\ Boundary(script, k + 1) = Boundary(script, k) + CommandSize(cmd)
          /\ Boundary(script, k) \in Nat
      <4>1. /\ \A n \in 0..Len(script) : Boundary(script, n) \in Nat
            /\ \A n \in 1..Len(script) :
                 Boundary(script, n) = Boundary(script, n - 1) + CommandSize(script[n])
        BY <1>2, BoundariesIncrease DEF TSTypes
      <4> QED BY <2>2, <3>2, <4>1
    <3>4. /\ CommandSize(cmd) = HEADER_SIZE + Expected(pc, cmd, pack)
          /\ Expected(pc, cmd, pack) \in Nat
      BY <2>1, <2>3, CommandSizes DEF Expected
    <3>5. pos = Boundary(script, k + 1)
      BY <1>3, <2>2, <2>3, <2>7, <3>3, <3>4
    <3>6. pos' + need' = Boundary(script', Len(executed')) + HEADER_SIZE
      BY <2>1, <2>5, <3>5
    <3> QED BY <2>1, <2>6, <3>1, <3>6 DEF HeaderInStep, CommandInStep
  <2>8. CASE ~whole
    BY <2>1, <2>2, <2>6, <2>8 DEF HeaderInStep, CommandInStep, AtEnd
  <2> QED BY <2>7, <2>8
<1>15. CASE ReadsError /\ ReadFails
  <2>1. /\ client = "reset" /\ client' = "closed" /\ arrived' = pos
        /\ UNCHANGED script
    BY <1>15 DEF ReadsError
  <2>2. CASE pc = "length" /\ Receive(cmd, pack + 1) /\ whole' = FALSE
             /\ UNCHANGED <<pos, cmd, executed>>
    BY <1>2, <2>1, <2>2, ReceiveInStep DEF AtEnd
  <2>3. CASE /\ UNCHANGED <<pos, executed>>
             /\ \/ pc' \in {"returned", "crashed"}
                \/ pc' = "header" /\ need' = HEADER_SIZE
    BY <1>2, <2>1, <2>3 DEF HeaderInStep, CommandInStep, Prefix, AtEnd
  <2> QED BY <1>15, <2>2, <2>3
          DEF ReadFails, HeaderError, PackError, LengthError, Returns, Crashes, Fails
<1>16. CASE ReadsInterrupted /\ ReadFails
  <2>1. pc = "header"
    BY <1>2, <1>3, <1>16 DEF ReadsInterrupted, Lost
  <2>2. /\ pc' = "returned" /\ UNCHANGED <<script, client, executed>>
    BY <1>16, <2>1 DEF ReadsInterrupted, ReadFails, HeaderError, PackError, LengthError, Returns
  <2> QED BY <1>2, <2>2 DEF HeaderInStep, CommandInStep, Prefix
<1>17. CASE UNCHANGED tsVars
  BY <1>2, <1>17 DEF tsVars, netVars, HeaderInStep, CommandInStep, Prefix, Wholly, AtEnd
<1> QED
  BY <1>4, <1>5, <1>6, <1>7, <1>8, <1>9, <1>10, <1>11, <1>12, <1>13, <1>14, <1>15, <1>16, <1>17
     DEF TSNext, SessionThread, Ended

\* What was executed before the loss stays as it is.
LEMMA LostKeeps ==
  ASSUME TSTypes, [TSNext]_tsVars, Lost, Kept
  PROVE  Kept'
<1>1. script' = script /\ cut' = cut /\ cut \in Nat /\ Len(executed) \in Nat
  BY LostForGood DEF TSTypes
<1>2. CASE executed' = executed
  BY <1>1, <1>2 DEF Kept
<1>3. CASE Call
  <2> DEFINE e == [cmd |-> cmd, whole |-> whole]
  <2>1. executed' = Append(executed, e)
    BY <1>3 DEF Call
  <2> HIDE DEF e
  <2>2. /\ Len(executed') = Len(executed) + 1
        /\ \A i \in 1..Len(executed) : executed'[i] = executed[i]
    BY <2>1 DEF TSTypes
  <2>3. \A i \in 1..Len(executed') : i < cut => i \in 1..Len(executed)
    BY <1>1, <2>2 DEF Kept
  <2> QED BY <1>1, <2>2, <2>3 DEF Kept
<1>4. executed' = executed \/ Call
  BY DEF TSNext, SessionThread, Arrive, Close, close_listeners, ReadSome, Read, ReadFails,
         HeaderError, PackError, LengthError, Fails, Crashes, Returns,
         HeaderEof, HeaderDropped, HeaderNoDevice, HeaderRead,
         PackRead, PackEof, LengthRead, LengthTooLong, LengthEof, RunSeesExit, Ended, tsVars
<1> QED BY <1>2, <1>3, <1>4

\* A signal cuts a command short: the commands before it are those of the script.
LEMMA CutKeeps ==
  ASSUME TSInv, [TSNext]_tsVars, WellFormed, ~Lost, Lost'
  PROVE  Kept'
<1>1. ReadsInterrupted /\ ReadFails /\ script' = script /\ TSTypes
  BY LostForGood DEF TSInv, Lost
<1>2. /\ pc \in {"args", "length"} /\ cut' = Len(executed) + 1
      /\ executed' = executed
  BY <1>1 DEF ReadsInterrupted, ReadFails, Receiving, Lost, HeaderError, PackError, LengthError,
              Fails, Crashes, Returns
<1>3. Wholly /\ Prefix /\ Len(executed) \in Nat /\ Len(script) \in Nat
  BY <1>1, <1>2 DEF TSInv, InStep, CommandInStep, TSTypes
<1> QED BY <1>1, <1>2, <1>3 DEF Kept, Wholly, Prefix

LEMMA NextKeepsInStep ==
  ASSUME TSInv, [TSNext]_tsVars
  PROVE  InStep'
<1> SUFFICES ASSUME WellFormed'
             PROVE  IF Lost' THEN Kept' ELSE HeaderInStep' /\ CommandInStep' /\ Prefix'
  BY DEF InStep
<1>1. WellFormed /\ TSTypes
  BY LostForGood DEF TSInv, WellFormed
<1>2. Lost => Kept
  BY <1>1 DEF TSInv, InStep
<1> QED BY <1>1, <1>2, StepInStep, LostKeeps, CutKeeps
-----------------------------------------------------------------------------
\* In step, and without a signal, a step of an open connection crashes only at
\* a length that is too long.
LEMMA NextKeepsCrash ==
  ASSUME TSInv, [TSNext]_tsVars
  PROVE  CrashForCause'
<1>1. script' = script /\ TSTypes
  BY LostForGood DEF TSInv
<1> SUFFICES ASSUME WellFormed, client' = "open", cut' = 0, pc' = "crashed"
             PROVE  Oversized'
  BY <1>1 DEF CrashForCause, WellFormed
<1>2. client = "open" /\ ~Lost
  <2>1. client = "open"
    BY DEF TSNext, SessionThread, Arrive, Close, close_listeners, ReadSome, Read, ReadsError,
           ReadsInterrupted, HeaderEof, HeaderDropped, HeaderNoDevice, HeaderRead,
           PackRead, PackEof, LengthRead, LengthTooLong, LengthEof, Call, RunSeesExit, Ended,
           tsVars, netVars
  <2> QED BY <1>1, <2>1, LostForGood DEF Lost
<1>3. BytesBounded /\ InStep /\ CrashForCause
  BY DEF TSInv
<1>4. CASE pc = "crashed"
  <2>1. Oversized
    BY <1>2, <1>3, <1>4 DEF CrashForCause, Lost
  <2>2. UNCHANGED <<cmd, pack>>
    BY <1>4 DEF TSNext, SessionThread, Arrive, Close, close_listeners, ReadSome, Read, ReadsError,
                ReadsInterrupted, Receiving, ReadsEof, HeaderEof, HeaderDropped, HeaderNoDevice,
                HeaderRead, PackRead, PackEof, LengthRead, LengthTooLong, LengthEof, Call,
                RunSeesExit, Ended, tsVars
  <2> QED BY <2>1, <2>2 DEF Oversized
<1>5. ASSUME pc # "crashed" PROVE HeaderNoDevice \/ LengthTooLong
  <2>1. ASSUME NEW c \in Command, HeaderRead(c) PROVE FALSE
    <3>1. CASE c \in Unknown
      BY <2>1, <3>1 DEF HeaderRead
    <3>2. CASE c \notin Unknown
      BY <2>1, <3>2 DEF HeaderRead, Receive
    <3> QED BY <3>1, <3>2
  <2>2. ~PackRead /\ ~PackEof
    BY DEF PackRead, PackEof, Receive
  <2>3. ~LengthEof
    BY <1>2 DEF LengthEof, ReadsEof
  <2>4. ~ReadsError
    BY DEF ReadsError
  <2>5. ~(ReadsInterrupted /\ ReadFails)
    <3> SUFFICES ASSUME ReadsInterrupted, ReadFails PROVE FALSE
      OBVIOUS
    <3>1. Len(executed) \in Nat
      BY <1>1 DEF TSTypes
    <3>2. pc = "header"
      BY <3>1 DEF ReadsInterrupted
    <3> QED BY <3>2 DEF ReadFails, HeaderError, PackError, LengthError, Returns
  <2> QED BY <1>5, <2>1, <2>2, <2>3, <2>4, <2>5
          DEF TSNext, SessionThread, Arrive, Close, close_listeners, ReadSome, Read, HeaderEof,
              HeaderDropped, LengthRead, Call, RunSeesExit, Returns, Ended, tsVars
<1>6. ASSUME HeaderNoDevice PROVE FALSE
  <2>1. pc = "header" /\ need = 0
    BY <1>6 DEF HeaderNoDevice
  <2>2. /\ Len(executed) < Len(script) /\ StreamUpTo(Len(executed)) = Start
        /\ Decoded = {script[Len(executed) + 1]}
    BY <1>1, <1>2, <1>3, <2>1, DecodedInStep
  <2>3. Len(executed) + 1 \in DOMAIN script /\ (Len(executed) + 1) - 1 = Len(executed)
    BY <1>1, <2>2 DEF TSTypes
  <2>4. Decoded \cap NoDevice = {}
    BY <2>2, <2>3, CommandAssumption DEF WellFormed
  <2> QED BY <1>6, <2>2, <2>3, <2>4 DEF HeaderNoDevice
<1>7. CASE LengthTooLong
  <2>1. pc = "length" /\ need = 0 /\ UNCHANGED <<cmd, pack>>
    BY <1>7 DEF LengthTooLong, Crashes
  <2>2. Packs[cmd][pack].size > MaxAlloc
    BY <1>1, <1>2, <1>3, <1>7, <2>1, LengthsInStep DEF LengthTooLong
  <2>3. pack \in DOMAIN Packs[cmd] /\ Packs[cmd][pack].family # "scalar"
    <3>1. cmd \in Command /\ pack \in 1..Len(Packs[cmd]) /\ Packs[cmd][pack].family # "scalar"
      BY <1>1, <2>1 DEF TSTypes
    <3>2. DOMAIN Packs[cmd] = 1..Len(Packs[cmd])
      BY <3>1, PacksAssumption
    <3> QED BY <3>1, <3>2
  <2> QED BY <2>1, <2>2, <2>3 DEF Oversized
<1> QED BY <1>4, <1>5, <1>6, <1>7

LEMMA InitInv == TSInit => TSInv
<1> SUFFICES ASSUME TSInit PROVE TSInv
  OBVIOUS
<1>1. TSTypes
  BY SizesAssumption, ScriptsAssumption DEF TSInit, TSTypes, Lost
<1>2. Len(script) \in Nat /\ Boundary(script, Len(script)) \in Nat /\ Boundary(script, 0) = 0
  BY <1>1, BoundariesIncrease DEF TSTypes
<1>3. BytesBounded
  BY <1>2 DEF TSInit, BytesBounded
<1>4. Len(executed) = 0
  BY DEF TSInit
<1>5. HeaderInStep /\ CommandInStep /\ Prefix
  BY <1>2, <1>4, SizesAssumption DEF TSInit, HeaderInStep, CommandInStep, Prefix, Wholly
<1> QED BY <1>1, <1>3, <1>5 DEF TSInv, InStep, CrashForCause, TSInit, Lost
-----------------------------------------------------------------------------
\* Session<TCP>: unless a signal has made an operation fail, run reads every
\* header, and deserialize and recv every argument, at the place the client
\* wrote it, or reads nothing any more.
THEOREM TSInvariance == TSSpec => []TSInv
<1>1. TSInv /\ [TSNext]_tsVars => TSInv'
  BY NextKeepsTypes, NextKeepsInStep, NextKeepsCrash DEF TSInv
<1> QED BY <1>1, InitInv, PTL DEF TSSpec

\* run and Session::rcv_n_bytes: whatever the commands, their sizes and the
\* cuts of the stream into reads, the operations called are the client's
\* commands in order, none twice and none left out.
THEOREM TSExecutedAsSent == TSSpec => []ExecutedAsSent
<1>1. TSInv => ExecutedAsSent
  <2> SUFFICES ASSUME TSInv, WellFormed, NEW i \in DOMAIN executed, ~(cut # 0 /\ cut <= i)
               PROVE  /\ i <= Len(script) /\ executed[i].cmd = script[i]
                      /\ ~executed[i].whole => i = Len(executed) /\ client # "open"
    BY DEF ExecutedAsSent
  <2>1. /\ Len(executed) \in Nat /\ Len(script) \in Nat /\ i \in 1..Len(executed)
        /\ cut \in Nat
    BY DEF TSInv, TSTypes
  <2>2. CASE Lost
    BY <2>1, <2>2 DEF TSInv, InStep, Kept, Lost
  <2>3. CASE ~Lost
    BY <2>1, <2>3 DEF TSInv, InStep, Prefix
  <2> QED BY <2>2, <2>3
<1> QED BY <1>1, TSInvariance, PTL

\* read_command, get_pack_length and recv: a client that stays connected and
\* sends known operations never makes the server index its tables of devices
\* out of bounds, nor resize to a length it has not sent, unless a signal comes;
\* what ends the process is a length of its own that the memory does not hold.
THEOREM TSCrashForCause == TSSpec => []CrashForCause
BY TSInvariance, PTL DEF TSInv
===============================================================================
