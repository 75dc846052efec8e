--------------------------- MODULE WebSocketProofs ---------------------------
(***************************************************************************)
(* Proofs about the reading side of WebSocket, for every sequence of       *)
(* frames, every split of the stream into reads and all the sizes that     *)
(* SizesAssumption allows.  The argument: at every moment the bytes taken  *)
(* from the socket are those of the HTTP request, of the frames executed   *)
(* and of the part of the next frame that is in read_str, so the header    *)
(* decoded next is the header of the next frame.                           *)
(***************************************************************************)
EXTENDS WebSocket, SequenceTheorems, WellFoundedInduction, TLAPS

\* A nonempty set of naturals has a least element: how the lemmas below do
\* without an induction rule.
LEMMA LeastNat ==
  ASSUME NEW S \in SUBSET Nat, S # {}
  PROVE  \E m \in S : \A n \in S : m <= n
<1> DEFINE R == {ss \in Nat \X Nat : ss[1] < ss[2]}
<1>1. IsWellFoundedOn(R, Nat)
  BY NatLessThanWellFounded, Zenon DEF OpToRel
<1>2. PICK m \in S : \A n \in S : ~(<<n, m>> \in R)
  <2> HIDE DEF R
  <2> QED BY <1>1, WFMin, Zenon
<1>3. \A n \in S : ~(n < m)
  BY <1>2
<1> QED BY <1>3

\* f holds the bytes of the stream of frames scr up to the end of each of the
\* first n frames.
IsSums(f, scr, n) ==
  f = [i \in 0..n |-> IF i = 0 THEN HttpSize ELSE f[i - 1] + FrameSize(scr[i])]

\* StreamUpTo, with the frames as a parameter.
Boundary(scr, n) == (CHOOSE f : IsSums(f, scr, n))[n]

LEMMA BoundaryDef == \A n : StreamUpTo(n) = Boundary(script, n)
BY DEF StreamUpTo, Boundary, IsSums

\* The recursive definition defines a function.
LEMMA SumsExist ==
  ASSUME NEW scr, NEW N \in Nat
  PROVE  \E f : IsSums(f, scr, N)
<1> DEFINE T == {n \in Nat : ~\E f : IsSums(f, scr, n)}
<1> SUFFICES ASSUME T # {} PROVE FALSE
  OBVIOUS
<1>1. PICK m \in T : \A n \in T : m <= n
  <2> HIDE DEF T
  <2>1. T \in SUBSET Nat
    BY DEF T
  <2> QED BY <2>1, LeastNat
<1>2. CASE m = 0
  <2> DEFINE g == [i \in 0..0 |-> HttpSize]
  <2>1. IsSums(g, scr, 0)
    BY DEF IsSums
  <2> QED BY <1>1, <1>2, <2>1
<1>3. CASE m # 0
  <2>1. m - 1 \in Nat /\ m \in Nat
    BY <1>1, <1>3
  <2>2. m - 1 \notin T
    BY <1>1, <2>1
  <2>3. PICK f : IsSums(f, scr, m - 1)
    BY <2>1, <2>2
  <2> DEFINE g == [i \in 0..m |-> IF i = m THEN f[m - 1] + FrameSize(scr[m]) ELSE f[i]]
  <2>4. \A i \in 0..(m - 1) : f[i] = IF i = 0 THEN HttpSize ELSE f[i - 1] + FrameSize(scr[i])
    BY <2>3 DEF IsSums
  <2>5. \A i \in 0..m : g[i] = IF i = 0 THEN HttpSize ELSE g[i - 1] + FrameSize(scr[i])
    BY <2>1, <2>4, <1>3
  <2>6. IsSums(g, scr, m)
    BY <2>5 DEF IsSums
  <2> QED BY <1>1, <2>6
<1> QED BY <1>2, <1>3

\* Two such functions agree where both are defined.
LEMMA SumsAgree ==
  ASSUME NEW scr, NEW M \in Nat, NEW N \in Nat, M <= N,
         NEW f, IsSums(f, scr, M), NEW g, IsSums(g, scr, N)
  PROVE  \A i \in 0..M : f[i] = g[i]
<1> DEFINE T == {i \in 0..M : f[i] # g[i]}
<1> SUFFICES ASSUME T # {} PROVE FALSE
  OBVIOUS
<1>1. PICK m \in T : \A n \in T : m <= n
  <2>1. T \in SUBSET Nat
    OBVIOUS
  <2> HIDE DEF T
  <2> QED BY <2>1, LeastNat
<1>2. /\ \A i \in 0..M : f[i] = IF i = 0 THEN HttpSize ELSE f[i - 1] + FrameSize(scr[i])
      /\ \A i \in 0..N : g[i] = IF i = 0 THEN HttpSize ELSE g[i - 1] + FrameSize(scr[i])
  BY DEF IsSums
<1>3. m \in 0..M /\ m \in 0..N /\ f[m] # g[m]
  BY <1>1
<1>4. m # 0
  BY <1>2, <1>3
<1>5. m - 1 \in 0..M /\ m - 1 \notin T
  BY <1>1, <1>3, <1>4
<1>6. f[m - 1] = g[m - 1]
  BY <1>5
<1> QED BY <1>2, <1>3, <1>4, <1>6

\* What the recursive definition computes.
LEMMA BoundarySteps ==
  ASSUME NEW scr
  PROVE  /\ Boundary(scr, 0) = HttpSize
         /\ \A n \in Nat : Boundary(scr, n + 1) = Boundary(scr, n) + FrameSize(scr[n + 1])
<1>1. \A n \in Nat : IsSums(CHOOSE f : IsSums(f, scr, n), scr, n)
  BY SumsExist
<1>2. Boundary(scr, 0) = HttpSize
  <2> DEFINE f == CHOOSE f : IsSums(f, scr, 0)
  <2>1. IsSums(f, scr, 0)
    BY <1>1
  <2> HIDE DEF f
  <2>2. f[0] = HttpSize
    BY <2>1 DEF IsSums
  <2> QED BY <2>2 DEF f, Boundary
<1>3. ASSUME NEW n \in Nat
      PROVE  Boundary(scr, n + 1) = Boundary(scr, n) + FrameSize(scr[n + 1])
  <2> DEFINE f == CHOOSE f : IsSums(f, scr, n)
             g == CHOOSE g : IsSums(g, scr, n + 1)
  <2>1. IsSums(f, scr, n) /\ IsSums(g, scr, n + 1)
    BY <1>1
  <2>2. f[n] = Boundary(scr, n) /\ g[n + 1] = Boundary(scr, n + 1)
    BY DEF Boundary
  <2> HIDE DEF f, g
  <2>3. f[n] = g[n]
    BY <2>1, SumsAgree
  <2>4. g[n + 1] = g[n] + FrameSize(scr[n + 1])
    BY <2>1 DEF IsSums
  <2> QED BY <2>2, <2>3, <2>4
<1> QED BY <1>2, <1>3

\* The boundaries are strictly increasing: a frame has at least a header.
LEMMA BoundariesIncrease ==
  ASSUME NEW scr \in Seq(Frame)
  PROVE  /\ \A n \in 0..Len(scr) : Boundary(scr, n) \in Nat
         /\ \A m, n \in 0..Len(scr) : m < n => Boundary(scr, m) < Boundary(scr, n)
<1>1. \A n \in 1..Len(scr) : FrameSize(scr[n]) \in Nat \ {0}
  <2> TAKE n \in 1..Len(scr)
  <2>1. scr[n] \in Frame
    OBVIOUS
  <2> QED BY <2>1, SizesAssumption DEF Frame, FrameSize
<1>2. \A n \in 1..Len(scr) : Boundary(scr, n) = Boundary(scr, n - 1) + FrameSize(scr[n])
  <2> TAKE n \in 1..Len(scr)
  <2>1. n - 1 \in Nat /\ (n - 1) + 1 = n
    OBVIOUS
  <2> QED BY <2>1, BoundarySteps
<1>3. \A n \in 0..Len(scr) : Boundary(scr, n) \in Nat
  <2> DEFINE T == {n \in 0..Len(scr) : Boundary(scr, n) \notin Nat}
  <2> SUFFICES ASSUME T # {} PROVE FALSE
    OBVIOUS
  <2>1. PICK m \in T : \A n \in T : m <= n
    <3>1. T \in SUBSET Nat
      OBVIOUS
    <3> HIDE DEF T
    <3> QED BY <3>1, LeastNat
  <2>2. m # 0
    BY <2>1, BoundarySteps, SizesAssumption
  <2>3. m \in 1..Len(scr) /\ m - 1 \in 0..Len(scr) /\ m - 1 \notin T
    BY <2>1, <2>2
  <2> QED BY <1>1, <1>2, <2>1, <2>3
<1>4. ASSUME NEW k \in 0..Len(scr)
      PROVE  \A n \in 0..Len(scr) : k < n => Boundary(scr, k) < Boundary(scr, n)
  <2> DEFINE T == {n \in 0..Len(scr) : k < n /\ ~(Boundary(scr, k) < Boundary(scr, n))}
  <2> SUFFICES ASSUME T # {} PROVE FALSE
    OBVIOUS
  <2>1. PICK m \in T : \A n \in T : m <= n
    <3>1. T \in SUBSET Nat
      OBVIOUS
    <3> HIDE DEF T
    <3> QED BY <3>1, LeastNat
  <2>2. m \in 1..Len(scr) /\ m - 1 \in 0..Len(scr) /\ m - 1 \notin T /\ k < m
    BY <2>1
  <2>3. /\ Boundary(scr, m) = Boundary(scr, m - 1) + FrameSize(scr[m])
        /\ FrameSize(scr[m]) \in Nat \ {0}
        /\ Boundary(scr, m - 1) \in Nat /\ Boundary(scr, m) \in Nat /\ Boundary(scr, k) \in Nat
    BY <1>1, <1>2, <1>3, <2>2
  <2>4. k = m - 1 \/ Boundary(scr, k) < Boundary(scr, m - 1)
    BY <2>2
  <2> QED BY <2>1, <2>3, <2>4
<1> QED BY <1>3, <1>4
-----------------------------------------------------------------------------
Pc == {"handshake", "head", "ext", "payload", "drain", "stray", "returned", "spins", "crashed"}

WSTypes ==
  /\ script \in Seq(Frame)
  /\ arrived \in Nat /\ pos \in Nat /\ need \in Nat /\ read_str_len \in Nat
  /\ pc \in Pc
  /\ frame \in Frame
  /\ executed \in Seq(Frame)

\* The frame being read: the first one not executed.
Current == Len(executed) + 1

\* Bytes of the stream before the frame being read.
Base == Boundary(script, Len(executed))

\* What has been taken from the socket has arrived, and no more arrives than
\* the client sends; before the handshake nothing is taken.
StreamInOrder ==
  /\ pos <= arrived /\ arrived <= Boundary(script, Len(script))
  /\ pc = "handshake" => pos = 0 /\ arrived <= HttpSize /\ executed = << >>

\* read_str holds the beginning of the current frame, and what is still needed
\* completes the part being read; a payload read in place of a header given up
\* leaves room for that header.
ReadingInStep ==
  /\ pc \in {"head", "ext", "payload"} => pos = Base + read_str_len
  /\ pc = "head" => read_str_len + need = SMALL_HEADER
  /\ pc \in {"ext", "payload"} =>
       /\ Current \in DOMAIN script
       /\ frame = script[Current] /\ frame.opcode \in Data
  /\ pc = "ext" => read_str_len + need = frame.header
  /\ pc = "payload" => ~TooLarge(frame) /\ read_str_len + need = FrameSize(frame)
  /\ pc = "drain" => read_str_len + need <= WEBSOCK_READ_STR_LEN

\* The payloads of the commands executed left room for the largest header.
ExecutedFit == \A i \in DOMAIN executed : ~TooLarge(executed[i])

\* While the session runs, its connection is marked closed only when the client
\* has left or a write has failed; a header is given up for no other reason.
ClosedForCause ==
  /\ connection_closed /\ pc # "returned" => client # "open" \/ write_failed
  /\ pc \in {"drain", "stray"} => connection_closed

\* The inductive invariant.
WSInv ==
  /\ WSTypes
  /\ StreamInOrder
  /\ ReadingInStep
  /\ ClosedForCause
  /\ ExecutedAsSent
  /\ ExecutedFit
  /\ RefusedForCause

\* A session that has read nothing satisfies the invariant.
LEMMA InitWSInv == WSInit => WSInv
<1> SUFFICES ASSUME WSInit PROVE WSInv
  OBVIOUS
<1>1. script \in Seq(Frame)
  BY ScriptsAssumption DEF WSInit
<1>2. WSTypes
  BY <1>1, SizesAssumption DEF WSInit, WSTypes, Pc, Frame, Opcode
<1>3. StreamInOrder
  <2>1. Boundary(script, Len(script)) \in Nat
    BY <1>1, BoundariesIncrease
  <2> QED BY <2>1, SizesAssumption DEF WSInit, StreamInOrder
<1>4. ReadingInStep /\ ClosedForCause /\ RefusedForCause
  BY DEF WSInit, ReadingInStep, Reading, ClosedForCause, RefusedForCause
<1>5. ExecutedAsSent /\ ExecutedFit
  BY <1>1 DEF WSInit, ExecutedAsSent, ExecutedFit
<1> QED BY <1>2, <1>3, <1>4, <1>5 DEF WSInv

\* The stream never ends before the HTTP request or the frames executed do.
LEMMA BaseInStream ==
  ASSUME WSInv
  PROVE  /\ Base \in Nat /\ Boundary(script, Len(script)) \in Nat
         /\ HttpSize <= Boundary(script, Len(script))
         /\ StreamSize = Boundary(script, Len(script))
         /\ Len(script) \in Nat /\ Len(executed) \in 0..Len(script)
<1>1. Len(script) \in Nat /\ Len(executed) \in 0..Len(script) /\ script \in Seq(Frame)
  BY DEF WSInv, WSTypes, ExecutedAsSent
<1>2. /\ \A n \in 0..Len(script) : Boundary(script, n) \in Nat
      /\ \A m, n \in 0..Len(script) : m < n => Boundary(script, m) < Boundary(script, n)
  BY <1>1, BoundariesIncrease
<1>3. Boundary(script, 0) = HttpSize
  BY BoundarySteps
<1>4. HttpSize <= Boundary(script, Len(script))
  BY <1>1, <1>2, <1>3, SizesAssumption
<1> QED BY <1>1, <1>2, <1>4, BoundaryDef DEF Base, StreamSize

\* Steps that leave alone what the session reads and executes.
LEMMA QuietWSInv ==
  ASSUME WSInv,
         UNCHANGED <<script, has_key, pc, pos, need, read_str_len, frame, executed>>,
         arrived' \in Nat, arrived' >= pos, arrived' <= Boundary(script, Len(script)),
         pc = "handshake" => arrived' <= HttpSize,
         client' = "open" => client = "open",
         ~exit_comm' => ~exit_comm,
         interrupted => interrupted', write_failed => write_failed',
         connection_closed => connection_closed',
         connection_closed' => connection_closed \/ client' # "open" \/ write_failed'
  PROVE  WSInv'
<1>1. WSTypes'
  BY DEF WSInv, WSTypes
<1>2. StreamInOrder'
  BY DEF WSInv, WSTypes, StreamInOrder
<1>3. ReadingInStep'
  BY DEF WSInv, ReadingInStep, Reading, Base, Current, TooLarge
<1>4. ClosedForCause'
  BY DEF WSInv, ClosedForCause
<1>5. ExecutedAsSent' /\ ExecutedFit'
  BY DEF WSInv, ExecutedAsSent, ExecutedFit, TooLarge
<1>6. RefusedForCause'
  BY DEF WSInv, RefusedForCause, Servable, TooLarge
<1> QED BY <1>1, <1>2, <1>3, <1>4, <1>5, <1>6 DEF WSInv

\* The client, the main thread, the threads that emit, and a read that fails
\* without ending the session preserve the invariant.
LEMMA NetWSInv ==
  ASSUME WSInv,
         \/ \E n \in 1..(StreamSize - arrived) : Arrive(n)
         \/ \E how \in {"closed", "reset"} : Close(how)
         \/ close_listeners \/ EmitFails \/ ReadError
  PROVE  WSInv'
<1>1. /\ UNCHANGED <<script, has_key, pc, pos, need, read_str_len, frame, executed>>
      /\ client' = "open" => client = "open"
      /\ ~exit_comm' => ~exit_comm
      /\ interrupted => interrupted'
  BY DEF Arrive, Close, close_listeners, EmitFails, ReadError, readVars, netVars, signalVars
<1>2. /\ write_failed => write_failed'
      /\ connection_closed => connection_closed'
      /\ connection_closed' => connection_closed \/ client' # "open" \/ write_failed'
  <2>1. CASE EmitFails
    <3>1. /\ connection_closed' /\ client' = client
          /\ write_failed' = (write_failed \/ client = "open")
      BY <2>1 DEF EmitFails, netVars
    <3> QED BY <3>1, Zenon
  <2>2. CASE UNCHANGED <<connection_closed, write_failed>>
    BY <2>2
  <2> QED BY <2>1, <2>2 DEF Arrive, Close, close_listeners, ReadError, readVars, signalVars
<1>3. /\ arrived' \in Nat /\ arrived' >= pos /\ arrived' <= Boundary(script, Len(script))
      /\ pc = "handshake" => arrived' <= HttpSize
  <2>1. CASE \E n \in 1..(StreamSize - arrived) : Arrive(n)
    <3>1. PICK n \in 1..(StreamSize - arrived) : Arrive(n)
      BY <2>1
    <3>2. /\ arrived' = arrived + n /\ n \in Nat
          /\ arrived + n <= IF pc = "handshake" THEN HttpSize ELSE StreamSize
      BY <3>1, BaseInStream DEF Arrive, WSInv, WSTypes
    <3>3. arrived \in Nat /\ pos \in Nat /\ pos <= arrived /\ HttpSize \in Nat
      BY SizesAssumption DEF WSInv, WSTypes, StreamInOrder
    <3>4. PICK size \in Nat :
            /\ size = Boundary(script, Len(script)) /\ size = StreamSize /\ HttpSize <= size
      BY BaseInStream
    <3>5. arrived' \in Nat /\ arrived' >= pos /\ arrived' <= size
      BY <3>2, <3>3, <3>4
    <3> QED BY <3>2, <3>4, <3>5
  <2>2. CASE ReadError
    BY <2>2, BaseInStream DEF ReadError, Reading, WSInv, WSTypes, StreamInOrder
  <2>3. CASE UNCHANGED arrived
    BY <2>3 DEF WSInv, WSTypes, StreamInOrder
  <2> QED BY <2>1, <2>2, <2>3 DEF Close, close_listeners, EmitFails, netVars
<1> QED BY <1>1, <1>2, <1>3, QuietWSInv
-----------------------------------------------------------------------------
\* The header in the buffer is that of the first frame not executed: the
\* server is in step with its client.
LEMMA DecodedIsCurrent ==
  ASSUME WSInv, pc = "head", need = 0
  PROVE  /\ Current \in DOMAIN script /\ script[Current] \in Frame
         /\ Decoded = {script[Current]}
<1> DEFINE N == Len(script)
           k == Len(executed)
<1>1. N \in Nat /\ k \in 0..N /\ DOMAIN script = 1..N /\ script \in Seq(Frame)
  BY BaseInStream DEF WSInv, WSTypes
<1>2. /\ \A n \in 0..N : Boundary(script, n) \in Nat
      /\ \A m, n \in 0..N : m < n => Boundary(script, m) < Boundary(script, n)
  BY <1>1, BoundariesIncrease
<1>3. /\ pos = Boundary(script, k) + SMALL_HEADER
      /\ pos <= Boundary(script, N)
      /\ pos \in Nat /\ SMALL_HEADER \in Nat \ {0}
  BY BaseInStream, SizesAssumption DEF WSInv, WSTypes, StreamInOrder, ReadingInStep, Reading, Base
<1>4. k # N
  BY <1>1, <1>2, <1>3
<1>5. Current \in 1..N /\ Current - 1 = k
  BY <1>1, <1>4 DEF Current
<1>6. \A i \in 1..N : StreamUpTo(i - 1) = pos - SMALL_HEADER <=> i = Current
  <2> TAKE i \in 1..N
  <2>1. StreamUpTo(i - 1) = Boundary(script, i - 1) /\ i - 1 \in 0..N
    BY <1>1, BoundaryDef
  <2>2. pos - SMALL_HEADER = Boundary(script, k) /\ k \in 0..N
    BY <1>1, <1>2, <1>3
  <2>3. Boundary(script, i - 1) = Boundary(script, k) => i - 1 = k
    <3>1. /\ i - 1 < k => Boundary(script, i - 1) < Boundary(script, k)
          /\ k < i - 1 => Boundary(script, k) < Boundary(script, i - 1)
          /\ Boundary(script, i - 1) \in Nat /\ Boundary(script, k) \in Nat
      BY <1>2, <2>1, <2>2
    <3> QED BY <1>1, <2>1, <3>1
  <2>4. i - 1 = k <=> i = Current
    BY <1>1, <1>5 DEF Current
  <2> QED BY <2>1, <2>2, <2>3, <2>4
<1>7. {i \in DOMAIN script : StreamUpTo(i - 1) = pos - SMALL_HEADER} = {Current}
  BY <1>1, <1>5, <1>6
<1>8. Decoded = {script[Current]}
  BY <1>7 DEF Decoded
<1> QED BY <1>1, <1>5, <1>8

\* Steps that end the session preserve the invariant when they have a cause.
LEMMA EndsWSInv ==
  ASSUME WSInv, pc' \in {"returned", "spins", "crashed", "stray"},
         UNCHANGED <<script, arrived, client, need, read_str_len, executed>>,
         pos' \in Nat, pos' <= arrived, frame' \in Frame,
         connection_closed' /\ pc' # "returned" => client # "open" \/ write_failed',
         pc' = "stray" => connection_closed',
         RefusedForCause'
  PROVE  WSInv'
<1>1. WSTypes'
  BY DEF WSInv, WSTypes, Pc
<1>2. StreamInOrder'
  BY DEF WSInv, StreamInOrder
<1>3. ReadingInStep' /\ ClosedForCause'
  BY DEF ReadingInStep, Reading, ClosedForCause
<1>4. ExecutedAsSent' /\ ExecutedFit'
  BY DEF WSInv, ExecutedAsSent, ExecutedFit, TooLarge
<1> QED BY <1>1, <1>2, <1>3, <1>4 DEF WSInv

\* authenticate preserves the invariant: a session that goes on has read the
\* whole HTTP request and nothing else.
LEMMA HandshakeWSInv ==
  ASSUME WSInv,
         \/ \E n \in 1..arrived : Handshake(n)
         \/ HandshakeFails \/ HandshakeInterrupted
  PROVE  WSInv'
<1>1. CASE \E n \in 1..arrived : Handshake(n)
  <2>1. PICK n \in 1..arrived : Handshake(n)
    BY <1>1
  <2>2. /\ pc = "handshake" /\ pos = 0 /\ executed = << >> /\ arrived \in Nat
        /\ arrived <= HttpSize /\ HttpSize \in Nat \ {0}
        /\ n \in 1..arrived /\ pos' = n
    BY <2>1, SizesAssumption DEF Handshake, WSInv, WSTypes, StreamInOrder
  <2>3. UNCHANGED <<script, has_key, arrived, client, exit_comm, executed>>
    BY <2>1 DEF Handshake, Goto, netVars
  <2>4. CASE pc' = "head"
    <3>1. /\ n = HttpSize /\ need' = SMALL_HEADER /\ read_str_len' = 0
          /\ UNCHANGED <<frame, connection_closed, write_failed>>
      BY <2>1, <2>4 DEF Handshake, Goto, NextFrame, signalVars
    <3>2. Base' = HttpSize
      BY <2>2, <2>3, BoundarySteps DEF Base
    <3>3. WSTypes'
      BY <2>2, <2>3, <2>4, <3>1, SizesAssumption DEF WSInv, WSTypes, Pc
    <3>4. StreamInOrder'
      BY <2>2, <2>3, <2>4 DEF WSInv, StreamInOrder
    <3>5. ReadingInStep'
      BY <2>2, <2>4, <3>1, <3>2, SizesAssumption DEF ReadingInStep, Reading
    <3>6. ClosedForCause' /\ ExecutedAsSent' /\ ExecutedFit' /\ RefusedForCause'
      BY <2>2, <2>3, <2>4, <3>1
         DEF WSInv, ClosedForCause, ExecutedAsSent, ExecutedFit, TooLarge, RefusedForCause
    <3> QED BY <3>3, <3>4, <3>5, <3>6 DEF WSInv
  <2>5. CASE pc' = "returned"
    <3>1. /\ \/ n # HttpSize \/ ~has_key \/ n = KSERVER_READ_STR_LEN \/ client # "open"
             \/ write_failed'
          /\ UNCHANGED <<need, read_str_len, frame>>
      BY <2>1, <2>5 DEF Handshake, Goto, WriteInterrupted
    <3>2. RefusedForCause'
      <4>1. n # HttpSize => n < HttpSize
        BY <2>2
      <4> QED BY <2>2, <2>3, <3>1, <4>1 DEF RefusedForCause
    <3> QED BY <2>2, <2>3, <2>5, <3>1, <3>2, EndsWSInv DEF WSInv, WSTypes, StreamInOrder
  <2> QED BY <2>1, <2>4, <2>5 DEF Handshake, Goto
<1>2. CASE HandshakeFails
  <2>1. /\ pc' = "returned" /\ client # "open"
        /\ UNCHANGED <<script, arrived, client, pos, need, read_str_len, frame, connection_closed,
                       executed>>
    BY <1>2 DEF HandshakeFails, Goto, netVars, readVars
  <2> QED BY <2>1, EndsWSInv DEF WSInv, WSTypes, StreamInOrder, RefusedForCause
<1>3. CASE HandshakeInterrupted
  <2>1. /\ pc' = "returned" /\ pos < HttpSize
        /\ UNCHANGED <<script, arrived, client, pos, need, read_str_len, frame, connection_closed,
                       executed>>
    BY <1>3, SizesAssumption
       DEF HandshakeInterrupted, netVars, readVars, WSInv, StreamInOrder
  <2>2. RefusedForCause'
    BY <2>1 DEF RefusedForCause
  <2> QED BY <2>1, <2>2, EndsWSInv DEF WSInv, WSTypes, StreamInOrder
<1> QED BY <1>1, <1>2, <1>3
-----------------------------------------------------------------------------
\* A read of any size leaves the session in step.
LEMMA ReadSomeWSInv ==
  ASSUME WSInv, NEW n \in 1..need, ReadSome(n)
  PROVE  WSInv'
<1>1. /\ pos' = pos + n /\ need' = need - n /\ read_str_len' = read_str_len + n
      /\ pos + n <= arrived /\ Reading
      /\ UNCHANGED <<script, arrived, client, pc, frame, connection_closed, write_failed, executed>>
  BY DEF ReadSome, netVars, signalVars
<1>2. /\ pos \in Nat /\ need \in Nat /\ read_str_len \in Nat /\ n \in Nat /\ n <= need
  BY DEF WSInv, WSTypes
<1>3. WSTypes'
  BY <1>1, <1>2 DEF WSInv, WSTypes
<1>4. StreamInOrder'
  BY <1>1, <1>2 DEF WSInv, StreamInOrder, Reading
<1>5. ReadingInStep'
  <2>1. Base' = Base /\ Base \in Nat /\ Current' = Current /\ Reading' = Reading
    BY <1>1, BaseInStream DEF Base, Current, Reading
  <2>2. read_str_len' + need' = read_str_len + need
    BY <1>1, <1>2
  <2>3. pc \in {"head", "ext", "payload"} => pos' = Base' + read_str_len'
    BY <1>1, <1>2, <2>1 DEF WSInv, ReadingInStep
  <2> QED BY <1>1, <2>1, <2>2, <2>3 DEF WSInv, ReadingInStep, TooLarge
<1>6. ClosedForCause' /\ ExecutedAsSent' /\ ExecutedFit'
  BY <1>1 DEF WSInv, ClosedForCause, ExecutedAsSent, ExecutedFit, TooLarge
<1>7. RefusedForCause'
  BY <1>1 DEF RefusedForCause, Reading
<1> QED BY <1>3, <1>4, <1>5, <1>6, <1>7 DEF WSInv

\* Sizes of the frame whose header has been read.
LEMMA FrameSizes ==
  ASSUME NEW f \in Frame
  PROVE  /\ f.header \in Nat /\ f.payload \in Nat /\ FrameSize(f) \in Nat
         /\ f.header \in SMALL_HEADER..BIG_HEADER
         /\ FrameSize(f) = f.header + f.payload
         /\ f.header < KSERVER_READ_STR_LEN
BY SizesAssumption DEF Frame, FrameSize

\* Reads that end the session preserve the invariant.
LEMMA ReadEndsWSInv ==
  ASSUME WSInv,
         ReadEof \/ ReadEofUninitialised \/ StrayEnds \/ Overflow \/ ReadInterrupted
  PROVE  WSInv'
<1>1. CASE ReadEof \/ ReadEofUninitialised
  <2>1. /\ pc' \in {"returned", "stray"} /\ client = "closed" /\ connection_closed'
        /\ UNCHANGED <<script, arrived, client, pos, need, read_str_len, frame, executed>>
    BY <1>1 DEF ReadEof, ReadEofUninitialised, Goto, netVars
  <2>2. RefusedForCause'
    BY <2>1 DEF RefusedForCause
  <2> QED BY <2>1, <2>2, EndsWSInv DEF WSInv, WSTypes, StreamInOrder
<1>2. CASE Overflow
  <2>1. /\ pc' = "returned" /\ Reading /\ (need = 0 \/ client = "reset")
        /\ read_str_len = KSERVER_READ_STR_LEN
        /\ UNCHANGED <<script, arrived, client, pos, need, read_str_len, frame, write_failed,
                       executed>>
    BY <1>2 DEF Overflow, Goto, netVars, readVars, signalVars
  <2>2. RefusedForCause'
    <3>1. CASE client = "reset"
      BY <2>1, <3>1 DEF RefusedForCause
    <3>2. CASE pc = "drain"
      BY <2>1, <3>2 DEF RefusedForCause, WSInv, ClosedForCause
    <3>3. CASE client # "reset" /\ pc # "drain"
      <4>1. need = 0 /\ read_str_len \in Nat /\ frame \in Frame
        BY <2>1, <3>3 DEF WSInv, WSTypes
      <4>2. pc # "head"
        BY <2>1, <4>1, SizesAssumption DEF WSInv, ReadingInStep
      <4>3. pc # "ext"
        BY <2>1, <4>1, FrameSizes DEF WSInv, ReadingInStep
      <4>4. /\ pc = "payload" /\ Current \in DOMAIN script
            /\ frame = script[Current] /\ FrameSize(frame) = KSERVER_READ_STR_LEN
        BY <2>1, <3>3, <4>1, <4>2, <4>3, FrameSizes DEF Reading, WSInv, ReadingInStep
      <4>5. ~Servable(script[Current])
        BY <4>4 DEF Servable
      <4> QED BY <2>1, <4>4, <4>5 DEF RefusedForCause, Current, Servable, TooLarge
    <3> QED BY <3>1, <3>2, <3>3
  <2> QED BY <2>1, <2>2, EndsWSInv DEF WSInv, WSTypes, StreamInOrder
<1>3. CASE ReadInterrupted
  <2>1. /\ interrupted' /\ Reading
        /\ UNCHANGED <<script, has_key, arrived, client, exit_comm, pos, need, read_str_len, frame,
                       connection_closed, write_failed, executed>>
        /\ pc' = IF read_str_len = KSERVER_READ_STR_LEN THEN "returned" ELSE pc
    BY <1>3 DEF ReadInterrupted, netVars, readVars
  <2>2. CASE read_str_len = KSERVER_READ_STR_LEN
    <3>1. RefusedForCause'
      BY <2>1, <2>2 DEF RefusedForCause
    <3> QED BY <2>1, <2>2, <3>1, EndsWSInv DEF WSInv, WSTypes, StreamInOrder
  <2>3. CASE read_str_len # KSERVER_READ_STR_LEN
    BY <2>1, <2>3, QuietWSInv DEF WSInv, WSTypes, StreamInOrder, Reading
  <2> QED BY <2>2, <2>3
<1>4. CASE StrayEnds
  <2>1. /\ pc' \in {"returned", "spins", "crashed"} /\ pc = "stray"
        /\ UNCHANGED <<script, arrived, client, pos, need, read_str_len, frame, connection_closed,
                       write_failed, executed>>
    BY <1>4 DEF StrayEnds, Goto, netVars, readVars, signalVars
  <2>2. client # "open" \/ write_failed
    BY <2>1 DEF WSInv, ClosedForCause
  <2>3. RefusedForCause'
    BY <2>1, <2>2 DEF RefusedForCause
  <2> QED BY <2>1, <2>2, <2>3, EndsWSInv DEF WSInv, WSTypes, StreamInOrder
<1> QED BY <1>1, <1>2, <1>3, <1>4

\* What follows when the size f of the current frame is known.
LEMMA SizeReadWSInv ==
  ASSUME WSInv, NEW f, SizeRead(f),
         Current \in DOMAIN script, f = script[Current], f \in Frame, f.opcode \in Data,
         pc \in {"head", "ext"}, read_str_len = f.header, frame' = f,
         UNCHANGED <<script, arrived, client, pos, read_str_len, connection_closed, write_failed,
                     executed>>
  PROVE  WSInv'
<1>1. CASE TooLarge(f)
  <2>1. pc' = "returned" /\ need' = need
    BY <1>1 DEF SizeRead
  <2>2. ~Servable(script[Current])
    BY <1>1 DEF Servable
  <2>3. RefusedForCause'
    BY <2>2 DEF RefusedForCause, Current, Servable, TooLarge
  <2> QED BY <2>1, <2>3, EndsWSInv DEF WSInv, WSTypes, StreamInOrder
<1>2. CASE ~TooLarge(f)
  <2>1. pc' = "payload" /\ need' = f.payload /\ f.payload \in Nat
    BY <1>2, FrameSizes DEF SizeRead
  <2>2. WSTypes'
    BY <2>1 DEF WSInv, WSTypes, Pc
  <2>3. StreamInOrder'
    BY <2>1 DEF WSInv, StreamInOrder
  <2>4. ReadingInStep'
    BY <1>2, <2>1, FrameSizes DEF WSInv, ReadingInStep, Reading, Base, Current, TooLarge, FrameSize
  <2>5. ClosedForCause' /\ ExecutedAsSent' /\ ExecutedFit' /\ RefusedForCause'
    BY <2>1 DEF WSInv, ClosedForCause, ExecutedAsSent, ExecutedFit, TooLarge, RefusedForCause
  <2> QED BY <2>2, <2>3, <2>4, <2>5 DEF WSInv
<1> QED BY <1>1, <1>2

\* read_header preserves the invariant.
LEMMA HeaderWSInv ==
  ASSUME WSInv, \/ \E f \in Decoded : HeadRead(f) \/ HeadRefused(f)
                \/ ExtRead \/ RunSeesExit
  PROVE  WSInv'
<1>1. ASSUME NEW f \in Decoded, HeadRead(f) \/ HeadRefused(f)
      PROVE  WSInv'
  <2>1. pc = "head" /\ need = 0 /\ frame' = f
    BY <1>1 DEF HeadRead, HeadRefused, DoneReading
  <2>2. Current \in DOMAIN script /\ f = script[Current] /\ f \in Frame
    BY <1>1, <2>1, DecodedIsCurrent
  <2>3. read_str_len = SMALL_HEADER /\ read_str_len \in Nat
    BY <2>1 DEF WSInv, WSTypes, ReadingInStep
  <2>4. CASE HeadRead(f)
    <3>1. /\ f.opcode \in Data
          /\ UNCHANGED <<script, arrived, client, pos, read_str_len, connection_closed, write_failed,
                         executed>>
      BY <2>4 DEF HeadRead, netVars, signalVars
    <3>2. CASE f.header = SMALL_HEADER
      <4>1. SizeRead(f)
        BY <2>4, <3>2 DEF HeadRead
      <4> QED BY <2>1, <2>2, <2>3, <3>1, <3>2, <4>1, SizeReadWSInv
    <3>3. CASE f.header # SMALL_HEADER
      <4>1. pc' = "ext" /\ need' = f.header - SMALL_HEADER
        BY <2>4, <3>3 DEF HeadRead
      <4>2. need' \in Nat /\ read_str_len' + need' = f.header
        BY <2>2, <2>3, <3>1, <4>1, FrameSizes, SizesAssumption
      <4>3. WSTypes'
        BY <2>1, <2>2, <3>1, <4>1, <4>2 DEF WSInv, WSTypes, Pc
      <4>4. StreamInOrder'
        BY <3>1, <4>1 DEF WSInv, StreamInOrder
      <4>5. ReadingInStep'
        BY <2>1, <2>2, <3>1, <4>1, <4>2 DEF WSInv, ReadingInStep, Reading, Base, Current
      <4>6. ClosedForCause' /\ ExecutedAsSent' /\ ExecutedFit' /\ RefusedForCause'
        BY <2>1, <3>1, <4>1
           DEF WSInv, ClosedForCause, ExecutedAsSent, ExecutedFit, TooLarge, RefusedForCause
      <4> QED BY <4>3, <4>4, <4>5, <4>6 DEF WSInv
    <3> QED BY <3>2, <3>3
  <2>5. CASE HeadRefused(f)
    <3>1. /\ f.opcode \notin Data /\ pc' = "returned"
          /\ UNCHANGED <<script, arrived, client, pos, need, read_str_len, executed>>
      BY <2>5 DEF HeadRefused, Goto, netVars
    <3>2. ~Servable(script[Current])
      BY <2>2, <3>1 DEF Servable
    <3>3. RefusedForCause'
      BY <2>2, <3>1, <3>2 DEF RefusedForCause, Current, Servable, TooLarge
    <3> QED BY <2>1, <2>2, <3>1, <3>3, EndsWSInv DEF WSInv, WSTypes, StreamInOrder
  <2> QED BY <1>1, <2>4, <2>5
<1>2. CASE ExtRead
  <2>1. /\ pc = "ext" /\ need = 0 /\ SizeRead(frame)
        /\ UNCHANGED <<script, arrived, client, pos, read_str_len, frame, connection_closed,
                       write_failed, executed>>
    BY <1>2 DEF ExtRead, DoneReading, netVars, signalVars
  <2>2. /\ Current \in DOMAIN script /\ frame = script[Current] /\ frame \in Frame
        /\ frame.opcode \in Data /\ read_str_len = frame.header
    BY <2>1 DEF WSInv, WSTypes, ReadingInStep
  <2> QED BY <2>1, <2>2, SizeReadWSInv
<1>3. CASE RunSeesExit
  <2>1. /\ pc' = "returned" /\ pc = "head" /\ (exit_comm \/ connection_closed)
        /\ UNCHANGED <<script, arrived, client, exit_comm, pos, need, read_str_len, frame,
                       connection_closed, write_failed, executed>>
    BY <1>3 DEF RunSeesExit, Goto, netVars, readVars, signalVars
  <2>2. RefusedForCause'
    BY <2>1 DEF RefusedForCause, WSInv, ClosedForCause
  <2> QED BY <2>1, <2>2, EndsWSInv DEF WSInv, WSTypes, StreamInOrder
<1> QED BY <1>1, <1>2, <1>3

\* A header of at most h bytes and a payload that left room for them.
LEMMA HeaderFits ==
  \A r, k, h, slack, size \in Nat :
    r <= h /\ h <= slack /\ k <= size - slack => r + k <= size
OBVIOUS

\* A header given up leaves a session that reads what fits, and ends.
LEMMA HeaderClosedWSInv ==
  ASSUME WSInv, HeaderClosed \/ DrainDone
  PROVE  WSInv'
<1>1. UNCHANGED <<script, arrived, client, exit_comm, pos, read_str_len, frame, connection_closed,
                  write_failed, executed>>
  BY DEF HeaderClosed, DrainDone, Goto, netVars, readVars, signalVars
<1>2. connection_closed /\ (client # "open" \/ write_failed)
  BY DEF WSInv, ClosedForCause, HeaderClosed, DrainDone, DoneReading
<1>3. RefusedForCause'
  BY <1>1, <1>2 DEF RefusedForCause
<1>4. CASE pc' \in {"stray", "returned"}
  <2>1. need' = need
    BY <1>4 DEF HeaderClosed, DrainDone, Goto, readVars
  <2> QED BY <1>1, <1>2, <1>3, <1>4, <2>1, EndsWSInv DEF WSInv, WSTypes, StreamInOrder
<1>5. CASE pc' = "drain"
  <2>1. /\ pc \in {"head", "ext"} /\ need = 0 /\ executed # << >>
        /\ need' = executed[Len(executed)].payload
    BY <1>5 DEF HeaderClosed, DrainDone, DoneReading, Goto, PayloadSizeUnset
  <2>2. Len(executed) \in DOMAIN executed /\ executed[Len(executed)] \in Frame
    BY <2>1 DEF WSInv, WSTypes
  <2>3. PICK f \in Frame : f = executed[Len(executed)] /\ ~TooLarge(f)
    BY <2>2 DEF WSInv, ExecutedFit
  <2>4. need' \in Nat /\ need' <= WEBSOCK_READ_STR_LEN - Slack
    BY <2>1, <2>3, FrameSizes, SizesAssumption DEF TooLarge
  <2>5. read_str_len \in Nat /\ read_str_len <= BIG_HEADER
    BY <2>1, FrameSizes, SizesAssumption DEF WSInv, WSTypes, ReadingInStep
  <2>6. WSTypes'
    BY <1>1, <1>5, <2>4 DEF WSInv, WSTypes, Pc
  <2>7. StreamInOrder'
    BY <1>1, <1>5 DEF WSInv, StreamInOrder
  <2>8. read_str_len + need' <= WEBSOCK_READ_STR_LEN
    <3>1. /\ Slack \in Nat /\ BIG_HEADER \in Nat /\ WEBSOCK_READ_STR_LEN \in Nat
          /\ BIG_HEADER <= Slack
      BY SizesAssumption
    <3> QED BY <2>4, <2>5, <3>1, HeaderFits, Zenon
  <2>9. ReadingInStep'
    BY <1>1, <1>5, <2>8 DEF ReadingInStep
  <2>10. ClosedForCause' /\ ExecutedAsSent' /\ ExecutedFit'
    BY <1>1, <1>2 DEF WSInv, ClosedForCause, ExecutedAsSent, ExecutedFit, TooLarge
  <2> QED BY <1>3, <2>6, <2>7, <2>9, <2>10 DEF WSInv
<1> QED BY <1>4, <1>5 DEF HeaderClosed, DrainDone, Goto

\* read_command and the execution of a command preserve the invariant.
LEMMA PayloadWSInv ==
  ASSUME WSInv, PayloadRefused \/ Execute
  PROVE  WSInv'
<1>1. /\ pc = "payload" /\ need = 0
      /\ UNCHANGED <<script, arrived, client, exit_comm, pos, frame>>
  BY DEF PayloadRefused, Execute, DoneReading, Goto, netVars, readVars
<1>2. /\ Current \in DOMAIN script /\ frame = script[Current] /\ frame \in Frame
      /\ frame.opcode \in Data /\ read_str_len = frame.header + frame.payload
      /\ frame.header \in Nat /\ frame.payload \in Nat
  BY <1>1, FrameSizes DEF WSInv, WSTypes, ReadingInStep
<1>3. CASE PayloadRefused
  <2>1. /\ pc' = "returned" /\ (Refused \/ exit_comm)
        /\ UNCHANGED <<need, read_str_len, connection_closed, write_failed, executed>>
    BY <1>3 DEF PayloadRefused, Goto, readVars, signalVars
  <2>2. Refused => frame.payload < HEADER_SIZE \/ client # "open" \/ write_failed
    BY <1>1, <1>2, SizesAssumption DEF Refused, WSInv, ClosedForCause
  <2>3. frame.payload < HEADER_SIZE => ~Servable(script[Current])
    BY <1>2, SizesAssumption DEF Servable
  <2>4. RefusedForCause'
    BY <1>1, <1>2, <2>1, <2>2, <2>3 DEF RefusedForCause, Current, Servable, TooLarge
  <2> QED BY <1>1, <2>1, <2>4, EndsWSInv DEF WSInv, WSTypes, StreamInOrder
<1>4. CASE Execute
  <2>1. /\ executed' = Append(executed, frame) /\ pc' = "head"
        /\ need' = SMALL_HEADER /\ read_str_len' = 0
        /\ frame.payload >= HEADER_SIZE
    BY <1>2, <1>4, SizesAssumption DEF Execute, Refused
  <2>2. /\ executed \in Seq(Frame) /\ Len(executed') = Current
        /\ executed' \in Seq(Frame) /\ executed'[Current] = frame
        /\ \A i \in 1..Len(executed) : executed'[i] = executed[i]
        /\ DOMAIN executed' = 1..Current /\ Len(executed) \in Nat
    BY <1>2, <2>1 DEF WSInv, WSTypes, Current
  <2>3. WSTypes'
    BY <1>1, <2>1, <2>2, SizesAssumption DEF WSInv, WSTypes, Pc
  <2>4. StreamInOrder'
    BY <1>1, <2>1 DEF WSInv, StreamInOrder
  <2>5. ReadingInStep'
    <3>1. Base' = Base + FrameSize(frame)
      BY <1>1, <1>2, <2>2, BoundarySteps DEF Base, Current
    <3>2. pos = Base + FrameSize(frame) /\ FrameSize(frame) \in Nat /\ Base \in Nat
      BY <1>1, <1>2, BaseInStream DEF WSInv, ReadingInStep, Reading, FrameSize
    <3> QED BY <1>1, <2>1, <3>1, <3>2, SizesAssumption DEF ReadingInStep, Reading
  <2>6. ClosedForCause'
    <3>1. CASE UNCHANGED signalVars
      <4>1. connection_closed' => connection_closed \/ client # "open" \/ write_failed'
        BY <1>4 DEF Execute, WriteInterrupted
      <4> QED BY <1>1, <2>1, <3>1, <4>1 DEF WSInv, ClosedForCause, signalVars
    <3>2. CASE WriteInterrupted
      BY <2>1, <3>2 DEF WriteInterrupted, ClosedForCause
    <3> QED BY <1>4, <3>1, <3>2 DEF Execute
  <2>7. ExecutedAsSent'
    <3>1. Current \in 1..Len(script) /\ Len(script) \in Nat
      BY <1>2, BaseInStream DEF WSInv, WSTypes
    <3>2. \A i \in 1..Current : i = Current \/ i \in 1..Len(executed)
      BY <2>2 DEF Current
    <3>3. \A i \in DOMAIN executed' :
            /\ executed'[i] = script[i]
            /\ script[i].opcode \in Data /\ script[i].payload >= HEADER_SIZE
      BY <1>2, <2>1, <2>2, <3>2 DEF WSInv, WSTypes, ExecutedAsSent
    <3> QED BY <1>1, <2>2, <3>1, <3>3 DEF ExecutedAsSent
  <2>8. ExecutedFit'
    <3>1. \A i \in 1..Current : i = Current \/ i \in DOMAIN executed
      BY <2>2 DEF Current
    <3>2. ~TooLarge(frame)
      BY <1>1 DEF WSInv, ReadingInStep
    <3> QED BY <2>2, <3>1, <3>2 DEF WSInv, ExecutedFit, TooLarge
  <2>9. RefusedForCause'
    BY <2>1 DEF RefusedForCause
  <2> QED BY <2>3, <2>4, <2>5, <2>6, <2>7, <2>8, <2>9 DEF WSInv
<1> QED BY <1>3, <1>4

\* Every step preserves the invariant.
LEMMA NextWSInv == WSInv /\ [WSNext]_wsVars => WSInv'
<1> SUFFICES ASSUME WSInv, [WSNext]_wsVars PROVE WSInv'
  OBVIOUS
<1>1. CASE SessionThread
  BY <1>1, HandshakeWSInv, ReadSomeWSInv, ReadEndsWSInv, NetWSInv, HeaderWSInv,
     HeaderClosedWSInv, PayloadWSInv
     DEF SessionThread
<1>2. CASE UNCHANGED wsVars
  BY <1>2, QuietWSInv DEF wsVars, netVars, readVars, signalVars, WSInv, WSTypes, StreamInOrder
<1> QED BY <1>1, <1>2, NetWSInv, HandshakeWSInv, ReadEndsWSInv, HeaderWSInv DEF WSNext, Ended

\* Every state of a WebSocket session satisfies the invariant, whatever frames
\* the client sends and however they are split into reads.
THEOREM WSInvariance == WSSpec => []WSInv
BY InitWSInv, NextWSInv, PTL DEF WSSpec

\* read_n_bytes never stores past the end of read_str: the test of read_header
\* leaves room for the largest header, of this frame or of the next.  A first
\* header given up, after which an uninitialised size is used, is outside it.
THEOREM WSBufferBounded == WSSpec => []BufferBounded
<1>1. WSInv => BufferBounded
  <2> SUFFICES ASSUME WSInv, Reading PROVE read_str_len + need <= WEBSOCK_READ_STR_LEN
    BY DEF BufferBounded
  <2>1. frame \in Frame
    BY DEF WSInv, WSTypes
  <2>2. pc = "head" => read_str_len + need <= WEBSOCK_READ_STR_LEN
    BY SizesAssumption DEF WSInv, ReadingInStep
  <2>3. pc = "ext" => read_str_len + need <= WEBSOCK_READ_STR_LEN
    BY <2>1, FrameSizes, SizesAssumption DEF WSInv, ReadingInStep
  <2>4. pc = "payload" => read_str_len + need <= WEBSOCK_READ_STR_LEN
    BY <2>1, FrameSizes, SizesAssumption DEF WSInv, ReadingInStep, TooLarge
  <2>5. pc = "drain" => read_str_len + need <= WEBSOCK_READ_STR_LEN
    BY DEF WSInv, ReadingInStep
  <2> QED BY <2>2, <2>3, <2>4, <2>5 DEF Reading
<1> QED BY <1>1, WSInvariance, PTL

\* The server never loses step with a WebSocket client: what it executes is
\* what was sent, in order, whole headers only.
THEOREM WSExecutedAsSent == WSSpec => []ExecutedAsSent
<1>1. WSInv => ExecutedAsSent
  BY DEF WSInv
<1> QED BY <1>1, WSInvariance, PTL

\* A session whose client stays is ended only for one of the named causes.
THEOREM WSRefusedForCause == WSSpec => []RefusedForCause
<1>1. WSInv => RefusedForCause
  BY DEF WSInv
<1> QED BY <1>1, WSInvariance, PTL
==============================================================================
