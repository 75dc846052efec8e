----------------------------- MODULE SysLogProofs -----------------------------
(***************************************************************************)
(* Proofs about SysLog, for every set of sessions and threads and every    *)
(* order of the subscribers.  The argument for the depth: as long as only  *)
(* WebSockets are broken, every frame of a thread but the last stands for  *)
(* a failed write to a different broken session, one that is marked closed *)
(* and so is not written to again further up the stack.  A write that only *)
(* a signal has made fail adds no frame, since emit returns at once then.  *)
(***************************************************************************)
EXTENDS SysLog, SequenceTheorems, FiniteSetTheorems, TLAPS

FrameType == [next : Nat \ {0}, at : {"send", "write", "failed"}]

SLTypes ==
  /\ broken \in SUBSET Session
  /\ stack \in [Thread -> Seq(FrameType)]
  /\ s_interrupted \in BOOLEAN

\* The subscriber whose failed write is reported by the frame above f.
Failed(f) == Order[f.next - 1]

\* The frames of t below its innermost one.
Outer(t) == 1..(Len(stack[t]) - 1)

OuterSending == \A t \in Thread : \A i \in Outer(t) : stack[t][i].at = "send"

\* Each outer frame is behind a failed write to a broken WebSocket of its own, and
\* the innermost one writes to none of these again.  A write that fails on a socket
\* that is not broken was interrupted, and then its report is not sent.
Nested(t) ==
  /\ \A i \in Outer(t) : Failed(stack[t][i]) \in broken \cap connection_closed
  /\ \A i, j \in Outer(t) : Failed(stack[t][i]) = Failed(stack[t][j]) => i = j
  /\ stack[t] # << >> /\ Top(t).at # "send" =>
       \A i \in Outer(t) : Failed(stack[t][i]) # Here(t)
  /\ stack[t] # << >> /\ Top(t).at = "failed" => Here(t) \in broken \/ s_interrupted

ReportsNest == broken \subseteq Websock => \A t \in Thread : Nested(t)

SLInv == SLTypes /\ OuterSending /\ ReportsNest
-----------------------------------------------------------------------------
\* The frames of t, and its innermost one moved on.
LEMMA MovedFrames ==
  ASSUME SLTypes, NEW t \in Thread, stack[t] # << >>,
         NEW next \in Nat \ {0}, NEW at \in {"send", "write", "failed"}
  PROVE  LET n == Len(stack[t])
             q == Moved(t, next, at)
         IN  /\ n \in Nat /\ n > 0 /\ Top(t) = stack[t][n] /\ Top(t) \in FrameType
             /\ Top(t).next \in Nat \ {0}
             /\ q \in Seq(FrameType) /\ Len(q) = n
             /\ \A i \in 1..(n - 1) : q[i] = stack[t][i]
             /\ q[n].next = next /\ q[n].at = at
<1> DEFINE n == Len(stack[t])
           f == [next |-> next, at |-> at]
<1>1. stack[t] \in Seq(FrameType) /\ n \in Nat /\ n \in 1..n /\ n > 0
  <2>1. stack[t] \in Seq(FrameType)
    BY DEF SLTypes
  <2> HIDE DEF FrameType
  <2> QED BY <2>1
<1>2. Top(t) = stack[t][n] /\ Top(t) \in FrameType
  <2> HIDE DEF FrameType
  <2> QED BY <1>1 DEF Top
<1>3. Top(t).next \in Nat \ {0} /\ f \in FrameType
  BY <1>2 DEF FrameType
<1>4. Moved(t, next, at) = [stack[t] EXCEPT ![n] = f]
  BY <1>1, <1>2 DEF Moved
<1>5. f.next = next /\ f.at = at
  OBVIOUS
<1> HIDE DEF f
<1>6. /\ Moved(t, next, at) \in Seq(FrameType) /\ Len(Moved(t, next, at)) = n
      /\ \A i \in 1..n : Moved(t, next, at)[i] = IF i = n THEN f ELSE stack[t][i]
  BY <1>1, <1>3, <1>4, ExceptSeq
<1>7. \A i \in 1..(n - 1) : i \in 1..n /\ i # n
  BY <1>1
<1> QED BY <1>1, <1>2, <1>3, <1>5, <1>6, <1>7

LEMMA NewFrame == Frame \in FrameType /\ Frame.at = "send"
BY DEF Frame, FrameType

\* A step that leaves the frames of a thread alone.
LEMMA NestedStays ==
  ASSUME NEW t \in Thread, Nested(t), stack'[t] = stack[t],
         broken \subseteq broken', connection_closed \subseteq connection_closed',
         s_interrupted => s_interrupted'
  PROVE  Nested(t)'
<1>1. Outer(t)' = Outer(t) /\ Top(t)' = Top(t) /\ Here(t)' = Here(t)
  BY DEF Outer, Top, Here
<1> QED BY <1>1 DEF Nested, Failed

\* A step that changes the frames of t only: what is left to show.
LEMMA OneThreadSteps ==
  ASSUME SLInv, NEW t \in Thread, NEW q \in Seq(FrameType), stack' = [stack EXCEPT ![t] = q],
         broken' = broken, connection_closed \subseteq connection_closed',
         s_interrupted' \in BOOLEAN, s_interrupted => s_interrupted',
         \A i \in 1..(Len(q) - 1) : q[i].at = "send",
         stack'[t] = q /\ broken \subseteq Websock => Nested(t)'
  PROVE  SLInv'
<1>1. /\ stack' \in [Thread -> Seq(FrameType)] /\ stack'[t] = q
      /\ \A u \in Thread : u # t => stack'[u] = stack[u]
  <2> HIDE DEF FrameType
  <2> QED BY DEF SLInv, SLTypes
<1>2. SLTypes'
  BY <1>1 DEF SLInv, SLTypes
<1>3. OuterSending'
  <2> SUFFICES ASSUME NEW u \in Thread, NEW i \in Outer(u)'
               PROVE  stack'[u][i].at = "send"
    BY DEF OuterSending
  <2> QED BY <1>1 DEF SLInv, OuterSending, Outer
<1>4. ASSUME broken \subseteq Websock, NEW u \in Thread
      PROVE  Nested(u)'
  <2>1. CASE u = t
    BY <1>1, <1>4, <2>1
  <2>2. CASE u # t
    BY <1>1, <1>4, <2>2, NestedStays DEF SLInv, ReportsNest
  <2> QED BY <2>1, <2>2
<1>5. ReportsNest'
  BY <1>4 DEF ReportsNest
<1> QED BY <1>2, <1>3, <1>5 DEF SLInv

\* The subscriber the loop of t has come to.
LEMMA HereInLoop ==
  ASSUME SLTypes, NEW t \in Thread, NEW at, InLoop(t, at)
  PROVE  /\ stack[t] # << >> /\ Top(t).at = at
         /\ Top(t).next \in 1..Len(Order) /\ Here(t) \in Session
<1>1. stack[t] # << >> /\ Top(t).at = at /\ Top(t).next <= Len(Order)
  BY DEF InLoop
<1>2. Top(t).next \in Nat \ {0}
  BY <1>1, MovedFrames
<1>3. Order \in Seq(Session) /\ Len(Order) \in Nat
  BY OrderAssumption
<1>4. Top(t).next \in 1..Len(Order)
  BY <1>1, <1>2, <1>3
<1> QED BY <1>1, <1>3, <1>4 DEF Here

\* The loop of t goes on, with the next subscriber or in a write to this one.
LEMMA MoveKeeps ==
  ASSUME SLInv, NEW t \in Thread, stack[t] # << >>,
         NEW next \in Nat \ {0}, NEW at \in {"send", "write", "failed"},
         stack' = [stack EXCEPT ![t] = Moved(t, next, at)],
         UNCHANGED <<broken, connection_closed>>,
         s_interrupted' \in BOOLEAN, s_interrupted => s_interrupted',
         at # "send" => next = Top(t).next,
         at = "write" => Here(t) \notin connection_closed,
         at = "failed" => Top(t).at # "send" /\ (Here(t) \in broken \/ s_interrupted')
  PROVE  SLInv'
<1> DEFINE n == Len(stack[t])
<1>0. SLTypes /\ OuterSending /\ ReportsNest
  BY DEF SLInv
<1>1. PICK q \in Seq(FrameType) :
        /\ q = Moved(t, next, at) /\ n \in Nat /\ n > 0 /\ Len(q) = n
        /\ \A i \in 1..(n - 1) : q[i] = stack[t][i]
        /\ q[n].next = next /\ q[n].at = at
  BY <1>0, MovedFrames
<1>2. \A i \in 1..(Len(q) - 1) : q[i].at = "send"
  BY <1>0, <1>1 DEF OuterSending, Outer
<1>3. ASSUME stack'[t] = q, broken \subseteq Websock
      PROVE  Nested(t)'
  <2>1. Outer(t)' = Outer(t) /\ \A i \in Outer(t) : stack'[t][i] = stack[t][i]
    BY <1>1, <1>3 DEF Outer
  <2>2. Top(t)'.at = at /\ (at # "send" => Here(t)' = Here(t))
    BY <1>1, <1>3 DEF Top, Here
  <2>3. /\ \A i \in Outer(t) : Failed(stack[t][i]) \in broken \cap connection_closed
        /\ \A i, j \in Outer(t) : Failed(stack[t][i]) = Failed(stack[t][j]) => i = j
        /\ Top(t).at # "send" => \A i \in Outer(t) : Failed(stack[t][i]) # Here(t)
    BY <1>0, <1>3 DEF ReportsNest, Nested
  <2>4. \A i \in Outer(t)' : Failed(stack[t][i])' = Failed(stack[t][i])
    BY <2>1 DEF Failed
  <2>5. at # "send" => \A i \in Outer(t) : Failed(stack[t][i]) # Here(t)
    BY <2>3
  <2> QED BY <2>1, <2>2, <2>3, <2>4, <2>5 DEF Nested
<1> QED BY <1>1, <1>2, <1>3, OneThreadSteps

\* A failed write is reported: the connection is marked closed, and a nested
\* emit begins unless the server is interrupted.
LEMMA ReportKeeps ==
  ASSUME SLInv, NEW t \in Thread, ReportFailure(t)
  PROVE  SLInv'
<1> DEFINE n == Len(stack[t])
<1>0. SLTypes /\ OuterSending /\ ReportsNest
  BY DEF SLInv
<1>1. PICK h \in Session : h = Here(t)
  BY <1>0, HereInLoop DEF ReportFailure, ReportWith
<1>2. /\ stack[t] # << >> /\ Top(t).at = "failed" /\ Top(t).next \in 1..Len(Order)
      /\ h = Order[Top(t).next]
  BY <1>0, <1>1, HereInLoop DEF ReportFailure, ReportWith, Here
<1>3. /\ connection_closed' = connection_closed \cup ({h} \cap Websock)
      /\ UNCHANGED <<broken, s_interrupted>> /\ s_interrupted' \in BOOLEAN
  BY <1>0, <1>1 DEF ReportFailure, ReportWith, SLTypes
<1>4. PICK q \in Seq(FrameType) :
        /\ q = Moved(t, Top(t).next + 1, "send") /\ n \in Nat /\ n > 0 /\ Len(q) = n
        /\ \A i \in 1..(n - 1) : q[i] = stack[t][i]
        /\ q[n].next = Top(t).next + 1 /\ q[n].at = "send"
  <2>1. Top(t).next + 1 \in Nat \ {0}
    BY <1>2
  <2> QED BY <1>0, <1>2, <2>1, MovedFrames
<1>5. \A i \in 1..n : q[i].at = "send"
  <2>1. \A i \in 1..n : i = n \/ i \in 1..(n - 1)
    BY <1>4
  <2> QED BY <1>0, <1>4, <2>1 DEF OuterSending, Outer
<1>6. broken \subseteq Websock =>
        /\ \A i \in 1..(n - 1) : Failed(stack[t][i]) \in broken \cap connection_closed
        /\ \A i, j \in 1..(n - 1) : Failed(stack[t][i]) = Failed(stack[t][j]) => i = j
        /\ \A i \in 1..(n - 1) : Failed(stack[t][i]) # h
        /\ h \in broken \/ s_interrupted
  BY <1>0, <1>1, <1>2 DEF ReportsNest, Nested, Outer
<1>7. CASE stack' = stack
  <2>1. SLTypes' /\ OuterSending'
    BY <1>0, <1>3, <1>7 DEF SLTypes, OuterSending, Outer
  <2>2. ReportsNest'
    BY <1>0, <1>3, <1>7, NestedStays DEF ReportsNest
  <2> QED BY <2>1, <2>2 DEF SLInv
<1>8. CASE stack' = [stack EXCEPT ![t] = q]
  <2>1. \A i \in 1..(Len(q) - 1) : q[i].at = "send"
    BY <1>4, <1>5
  <2>2. ASSUME stack'[t] = q, broken \subseteq Websock
        PROVE  Nested(t)'
    <3>1. Outer(t)' = 1..(n - 1) /\ \A i \in 1..(n - 1) : stack'[t][i] = stack[t][i]
      BY <1>4, <2>2 DEF Outer
    <3>2. Top(t)'.at = "send"
      BY <1>4, <2>2 DEF Top
    <3> QED BY <1>3, <1>6, <2>2, <3>1, <3>2 DEF Nested, Failed
  <2> QED BY <1>3, <1>8, <2>1, <2>2, OneThreadSteps
<1>9. CASE ~s_interrupted /\ stack' = [stack EXCEPT ![t] = Append(q, Frame)]
  <2>1. PICK p \in Seq(FrameType) :
          /\ p = Append(q, Frame) /\ Len(p) = n + 1
          /\ \A i \in 1..n : p[i] = q[i]
          /\ p[n + 1].at = "send"
    <3>1. PICK f \in FrameType : f = Frame /\ f.at = "send"
      BY NewFrame
    <3>2. /\ Append(q, f) \in Seq(FrameType) /\ Len(Append(q, f)) = n + 1
          /\ \A i \in 1..n : Append(q, f)[i] = q[i]
          /\ Append(q, f)[n + 1] = f
      BY <1>4, <3>1, AppendProperties
    <3> QED BY <3>1, <3>2
  <2>2. (n + 1) - 1 = n /\ \A i \in 1..n : i = n \/ i \in 1..(n - 1)
    BY <1>4
  <2>3. \A i \in 1..(Len(p) - 1) : p[i].at = "send"
    BY <1>5, <2>1, <2>2
  <2>4. /\ \A i \in 1..(n - 1) : p[i] = stack[t][i]
        /\ p[n] = q[n]
    BY <1>4, <2>1
  <2>5. Failed(p[n]) = h
    <3>1. (Top(t).next + 1) - 1 = Top(t).next
      BY <1>2
    <3> QED BY <1>2, <1>4, <2>4, <3>1 DEF Failed
  <2>6. ASSUME stack'[t] = p, broken \subseteq Websock
        PROVE  Nested(t)'
    <3>1. Outer(t)' = 1..n
      BY <2>1, <2>2, <2>6 DEF Outer
    <3>2. Top(t)'.at = "send"
      BY <2>1, <2>6 DEF Top
    <3>3. h \in broken \cap connection_closed'
      BY <1>3, <1>6, <1>9, <2>6
    <3>4. \A i \in 1..n : Failed(p[i]) \in broken \cap connection_closed'
      BY <1>3, <1>6, <2>2, <2>4, <2>5, <2>6, <3>3
    <3>5. \A i, j \in 1..n : Failed(p[i]) = Failed(p[j]) => i = j
      BY <1>6, <2>2, <2>4, <2>5, <2>6
    <3> QED BY <1>3, <2>6, <3>1, <3>2, <3>4, <3>5 DEF Nested, Failed
  <2> QED BY <1>3, <1>9, <2>1, <2>3, <2>6, OneThreadSteps
<1> QED BY <1>4, <1>7, <1>8, <1>9 DEF ReportFailure, ReportWith, Printing

\* emit returns.
LEMMA ReturnKeeps ==
  ASSUME SLInv, NEW t \in Thread, emit_returns(t)
  PROVE  SLInv'
<1> DEFINE n == Len(stack[t])
<1>0. SLTypes /\ OuterSending /\ ReportsNest
  BY DEF SLInv
<1>1. /\ stack[t] # << >> /\ stack' = [stack EXCEPT ![t] = SubSeq(stack[t], 1, n - 1)]
      /\ UNCHANGED <<broken, connection_closed, s_interrupted>> /\ s_interrupted' \in BOOLEAN
  BY <1>0 DEF emit_returns, SLTypes
<1>2. n \in Nat /\ n > 0 /\ stack[t] \in Seq(FrameType)
  BY <1>0, <1>1, MovedFrames DEF SLTypes
<1>3. PICK q \in Seq(FrameType) :
        /\ q = SubSeq(stack[t], 1, n - 1) /\ Len(q) = n - 1
        /\ \A i \in 1..(n - 1) : q[i] = stack[t][i]
  <2>1. \A i \in 1..(n - 1) : stack[t][i] \in FrameType
    <3> HIDE DEF FrameType
    <3> QED BY <1>2
  <2>2. 1 \in Int /\ n - 1 \in Int /\ (IF 1 <= n - 1 THEN (n - 1) - 1 + 1 ELSE 0) = n - 1
    BY <1>2
  <2>3. \A i \in 1..(n - 1) : 1 + i - 1 = i /\ i \in 1..((n - 1) - 1 + 1)
    BY <1>2
  <2> DEFINE q == SubSeq(stack[t], 1, n - 1)
  <2> HIDE DEF FrameType
  <2>4. /\ q \in Seq(FrameType)
        /\ Len(q) = IF 1 <= n - 1 THEN (n - 1) - 1 + 1 ELSE 0
        /\ \A i \in 1..((n - 1) - 1 + 1) : q[i] = stack[t][1 + i - 1]
    BY <2>1, <2>2, SubSeqProperties
  <2>5. Len(q) = n - 1
    BY <2>2, <2>4
  <2>6. \A i \in 1..(n - 1) : q[i] = stack[t][i]
    BY <2>3, <2>4
  <2> QED BY <2>4, <2>5, <2>6
<1>4. \A i \in 1..(n - 1) : q[i].at = "send"
  BY <1>0, <1>3 DEF OuterSending, Outer
<1>5. \A i \in 1..((n - 1) - 1) : i \in 1..(n - 1)
  BY <1>2
<1>6. ASSUME stack'[t] = q, broken \subseteq Websock
      PROVE  Nested(t)'
  <2>1. Outer(t)' = 1..((n - 1) - 1)
    BY <1>3, <1>6 DEF Outer
  <2>2. stack'[t] # << >> => Top(t)'.at = "send"
    <3>1. q # << >> => n - 1 \in 1..(n - 1)
      BY <1>2, <1>3
    <3> QED BY <1>3, <1>4, <1>6, <3>1 DEF Top
  <2>3. /\ \A i \in 1..(n - 1) : Failed(stack[t][i]) \in broken \cap connection_closed
        /\ \A i, j \in 1..(n - 1) : Failed(stack[t][i]) = Failed(stack[t][j]) => i = j
    BY <1>0, <1>6 DEF ReportsNest, Nested, Outer
  <2>4. \A i \in Outer(t)' : i \in 1..(n - 1) /\ stack'[t][i] = stack[t][i]
    BY <1>3, <1>5, <1>6, <2>1
  <2>5. \A i \in Outer(t)' : Failed(stack[t][i])' = Failed(stack[t][i])
    BY <2>4 DEF Failed
  <2>6. /\ \A i \in Outer(t)' : Failed(stack[t][i])' \in broken' \cap connection_closed'
        /\ \A i, j \in Outer(t)' : Failed(stack[t][i])' = Failed(stack[t][j])' => i = j
    <3> HIDE DEF n
    <3> QED BY <1>1, <2>3, <2>4, <2>5
  <2> QED BY <2>2, <2>6 DEF Nested
<1>7. \A i \in 1..(Len(q) - 1) : q[i].at = "send"
  BY <1>3, <1>4, <1>5
<1> QED BY <1>1, <1>3, <1>6, <1>7, OneThreadSteps

\* print enters emit, or returns at once when the server is interrupted.
LEMMA PrintKeeps ==
  ASSUME SLInv, NEW t \in Thread, print(t)
  PROVE  SLInv'
<1>0. SLTypes /\ OuterSending /\ ReportsNest
  BY DEF SLInv
<1>1. UNCHANGED <<broken, connection_closed, s_interrupted>> /\ s_interrupted' \in BOOLEAN
  BY <1>0 DEF print, SLTypes
<1>2. PICK q \in Seq(FrameType) :
        /\ stack' = [stack EXCEPT ![t] = q] /\ Len(q) \in {0, 1}
        /\ Len(q) = 1 => q[1].at = "send"
  <2>1. CASE s_interrupted
    <3>1. stack' = [stack EXCEPT ![t] = << >>]
      BY <2>1 DEF print, Printing
    <3>2. PICK q \in Seq(FrameType) : q = << >> /\ Len(q) = 0
      BY EmptySeq
    <3>3. stack' = [stack EXCEPT ![t] = q]
      BY <3>1, <3>2
    <3>4. Len(q) \in {0, 1} /\ Len(q) # 1
      BY <3>2
    <3> QED BY <3>3, <3>4, Zenon
  <2>2. CASE ~s_interrupted
    <3>1. PICK f \in FrameType : f = Frame /\ f.at = "send"
      BY NewFrame
    <3>2. <<f>> \in Seq(FrameType) /\ Append(<< >>, f) = <<f>> /\ Len(<<f>>) = 1 /\ <<f>>[1] = f
      <4> HIDE DEF FrameType
      <4> QED BY <3>1
    <3>3. stack' = [stack EXCEPT ![t] = <<f>>]
      BY <2>2, <3>1, <3>2 DEF print, Printing
    <3>4. PICK q \in Seq(FrameType) : q = <<f>> /\ Len(q) = 1 /\ q[1] = f
      <4> HIDE DEF FrameType
      <4> QED BY <3>2
    <3>5. stack' = [stack EXCEPT ![t] = q]
      BY <3>3, <3>4
    <3>6. Len(q) \in {0, 1} /\ q[1].at = "send"
      BY <3>1, <3>4
    <3> QED BY <3>5, <3>6, Zenon
  <2> QED BY <2>1, <2>2
<1>3. 1..(Len(q) - 1) = {}
  <2>1. ASSUME NEW n \in {0, 1} PROVE 1..(n - 1) = {}
    OBVIOUS
  <2>2. Len(q) \in {0, 1}
    BY <1>2, Zenon
  <2> QED BY <2>1, <2>2, Zenon
<1>4. ASSUME stack'[t] = q
      PROVE  Nested(t)'
  <2>1. Outer(t)' = {}
    BY <1>3, <1>4 DEF Outer
  <2>2. stack'[t] # << >> => Top(t)'.at = "send"
    <3>1. q # << >> => Len(q) = 1
      BY <1>2
    <3> QED BY <1>2, <1>4, <3>1 DEF Top
  <2> QED BY <2>1, <2>2 DEF Nested
<1> QED BY <1>1, <1>2, <1>3, <1>4, OneThreadSteps

LEMMA NextKeepsInv ==
  ASSUME SLInv, [SLNext]_slVars
  PROVE  SLInv'
<1>0. SLTypes /\ OuterSending /\ ReportsNest
  BY DEF SLInv
<1>1. ASSUME stack' = stack, broken \subseteq broken', broken' \in SUBSET Session,
             connection_closed' = connection_closed, s_interrupted' \in BOOLEAN,
             s_interrupted => s_interrupted'
      PROVE  SLInv'
  <2>1. SLTypes' /\ OuterSending'
    BY <1>0, <1>1 DEF SLTypes, OuterSending, Outer
  <2>2. ReportsNest'
    BY <1>0, <1>1, NestedStays DEF ReportsNest
  <2> QED BY <2>1, <2>2 DEF SLInv
<1>2. CASE UNCHANGED slVars
  BY <1>0, <1>1, <1>2 DEF slVars, SLTypes
<1>3. CASE exit_signal_handler
  <2>1. s_interrupted' \in BOOLEAN /\ s_interrupted' /\ UNCHANGED <<broken, connection_closed>>
    BY <1>3 DEF exit_signal_handler
  <2>2. CASE UNCHANGED stack
    BY <1>0, <1>1, <2>1, <2>2 DEF SLTypes
  <2>3. ASSUME NEW t \in Thread, InLoop(t, "write"),
               stack' = [stack EXCEPT ![t] = Moved(t, Top(t).next, "failed")]
        PROVE  SLInv'
    <3>1. stack[t] # << >> /\ Top(t).at = "write" /\ Top(t).next \in Nat \ {0}
      BY <1>0, <2>3, HereInLoop
    <3> QED BY <2>1, <2>3, <3>1, MoveKeeps
  <2> QED BY <1>3, <2>2, <2>3 DEF exit_signal_handler
<1>4. ASSUME NEW s \in Session, ClientBreaks(s)
      PROVE  SLInv'
  BY <1>0, <1>1, <1>4 DEF ClientBreaks, SLTypes
<1>5. ASSUME NEW s \in Slow, ClientReads(s)
      PROVE  SLInv'
  BY <1>0, <1>1, <1>5 DEF ClientReads, SLTypes
<1>6. ASSUME NEW t \in Thread, SendSkips(t) \/ WriteSucceeds(t)
      PROVE  SLInv'
  <2>1. PICK at \in {"send", "write"} :
          InLoop(t, at) /\ Moves(t, Top(t).next + 1, "send")
    BY <1>6 DEF SendSkips, WriteSucceeds
  <2>2. stack[t] # << >> /\ Top(t).next + 1 \in Nat \ {0}
    BY <1>0, <2>1, HereInLoop
  <2> QED BY <1>0, <2>1, <2>2, MoveKeeps DEF Moves, SLTypes
<1>7. ASSUME NEW t \in Thread, SendWrites(t)
      PROVE  SLInv'
  <2>1. stack[t] # << >> /\ Top(t).next \in Nat \ {0}
    BY <1>0, <1>7, HereInLoop DEF SendWrites
  <2> QED BY <1>0, <1>7, <2>1, MoveKeeps DEF SendWrites, Moves, SLTypes
<1>8. ASSUME NEW t \in Thread, WriteFails(t)
      PROVE  SLInv'
  <2>1. stack[t] # << >> /\ Top(t).at = "write" /\ Top(t).next \in Nat \ {0}
    BY <1>0, <1>8, HereInLoop DEF WriteFails
  <2> QED BY <1>0, <1>8, <2>1, MoveKeeps DEF WriteFails, Moves, SLTypes
<1> QED BY <1>2, <1>3, <1>4, <1>5, <1>6, <1>7, <1>8, ReportKeeps, ReturnKeeps, PrintKeeps
        DEF SLNext, ThreadStep, Ended

LEMMA InitInv == SLInit => SLInv
<1> SUFFICES ASSUME SLInit PROVE SLInv
  OBVIOUS
<1>1. \A t \in Thread : stack[t] = << >> /\ Len(stack[t]) = 0 /\ Outer(t) = {}
  <2>1. stack = [t \in Thread |-> << >>]
    BY DEF SLInit
  <2>2. Len(<< >>) = 0 /\ 1..(0 - 1) = {}
    OBVIOUS
  <2> QED BY <2>1, <2>2 DEF Outer
<1>2. SLTypes
  <2>1. stack \in [Thread -> Seq(FrameType)]
    <3>1. stack = [t \in Thread |-> << >>]
      BY DEF SLInit
    <3> HIDE DEF FrameType
    <3>2. << >> \in Seq(FrameType)
      OBVIOUS
    <3> QED BY <3>1, <3>2
  <2> QED BY <2>1 DEF SLInit, SLTypes
<1> QED BY <1>1, <1>2 DEF SLInv, OuterSending, ReportsNest, Nested
-----------------------------------------------------------------------------
\* SysLog::print and PubSub::emit keep the invariant on the nested frames.
THEOREM SLInvariance == SLSpec => []SLInv
<1>1. SLInv /\ [SLNext]_slVars => SLInv'
  BY NextKeepsInv
<1> QED BY <1>1, InitInv, PTL DEF SLSpec

\* WebSocket::send marks its connection closed before it reports a failed
\* write, so for any number of sessions and threads a thread's reports nest
\* no deeper than there are broken connections, if all of them are WebSockets.
THEOREM SLDepthBounded == SLSpec => []DepthBounded
<1>1. SLInv => DepthBounded
  <2> SUFFICES ASSUME SLInv, NEW t \in Thread, broken \subseteq Websock
               PROVE  Len(stack[t]) <= 1 + Cardinality(broken)
    BY DEF DepthBounded
  <2> DEFINE n == Len(stack[t])
             f == [i \in 1..(n - 1) |-> Failed(stack[t][i])]
  <2>1. n \in Nat
    BY DEF SLInv, SLTypes
  <2>2. IsFiniteSet(broken) /\ Cardinality(broken) \in Nat
    <3>1. IsFiniteSet(broken)
      BY WebsockAssumption, FS_Subset DEF SLInv, SLTypes
    <3> QED BY <3>1, FS_CardinalityType
  <2>3. f \in Injection(1..(n - 1), broken)
    <3>1. /\ \A i \in 1..(n - 1) : Failed(stack[t][i]) \in broken
          /\ \A i, j \in 1..(n - 1) : Failed(stack[t][i]) = Failed(stack[t][j]) => i = j
      BY DEF SLInv, ReportsNest, Nested, Outer
    <3> QED BY <3>1 DEF Injection, IsInjective
  <2> HIDE DEF f, n
  <2>4. Cardinality(1..(n - 1)) <= Cardinality(broken)
    BY <2>2, <2>3, FS_Injection
  <2>5. Cardinality(1..(n - 1)) = IF 1 > n - 1 THEN 0 ELSE (n - 1) - 1 + 1
    BY <2>1, FS_Interval
  <2>6. n <= 1 + Cardinality(broken)
    BY <2>1, <2>2, <2>4, <2>5
  <2> QED BY <2>6 DEF n
<1> QED BY <1>1, SLInvariance, PTL
===============================================================================
