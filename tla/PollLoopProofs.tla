--------------------------- MODULE PollLoopProofs ---------------------------
(***************************************************************************)
(* The invariants of PollLoop hold whatever timeout-ready and poll-down    *)
(* may be and however long ./ready takes.                                  *)
(***************************************************************************)
EXTENDS PollLoop, SequenceTheorems, TLAPS

(***************************************************************************)
(* What s6-supervise writes and the child reads.                           *)
(***************************************************************************)
Bytes == {"u", "U", "d"}

\* At most three different bytes wait in the FIFO.
LEMMA FifoIsShort ==
  ASSUME NEW q \in Seq(Bytes), \A i, j \in DOMAIN q : q[i] = q[j] => i = j
  PROVE  Len(q) <= 3
<1>1. Len(q) \in Nat /\ DOMAIN q = 1..Len(q) /\ \A i \in 1..Len(q) : q[i] \in Bytes
  BY LenProperties, ElementOfSeq
<1>2. SUFFICES ASSUME Len(q) >= 4 PROVE FALSE
  BY <1>1
<1>3. 1 \in DOMAIN q /\ 2 \in DOMAIN q /\ 3 \in DOMAIN q /\ 4 \in DOMAIN q
  BY <1>1, <1>2
<1>4. /\ q[1] # q[2] /\ q[1] # q[3] /\ q[1] # q[4]
      /\ q[2] # q[3] /\ q[2] # q[4] /\ q[3] # q[4]
  BY <1>3
<1> QED
  BY <1>1, <1>3, <1>4 DEF Bytes

\* Reading a byte: what is left is in order, and d is found at the end only.
LEMMA Reads ==
  ASSUME PollTypeOK, WaitForDownSignal
  PROVE  /\ queue' \in Seq(Bytes) /\ down' \in BOOLEAN
         /\ \A i \in DOMAIN queue' :
              i + 1 \in DOMAIN queue /\ queue'[i] = queue[i + 1]
         /\ queue # <<>> => Len(queue') = Len(queue) - 1
         /\ queue = <<>> => queue' = <<>> /\ ~down'
         /\ down' => \E i \in DOMAIN queue : queue[i] = "d"
         /\ ~down' /\ queue # <<>> => queue[1] # "d"
<1>1. queue \in Seq(Bytes) /\ DOMAIN queue = 1..Len(queue) /\ Len(queue) \in Nat
  BY LenProperties DEF PollTypeOK, Bytes
<1>2. CASE queue = <<>>
  <2>1. queue' = queue /\ down' = FALSE
    BY <1>2 DEF WaitForDownSignal
  <2>2. Len(queue) = 0
    BY <1>2, EmptySeq
  <2>3. \A i \in DOMAIN queue : i + 1 \in DOMAIN queue /\ queue[i] = queue[i + 1]
    BY <1>1, <2>2
  <2> QED
    BY <1>1, <1>2, <2>1, <2>3
<1>3. CASE queue # <<>>
  <2>1. queue' = Tail(queue) /\ down' = (Head(queue) = "d") /\ Head(queue) = queue[1]
    BY <1>1, <1>3 DEF WaitForDownSignal
  <2>2. /\ Tail(queue) \in Seq(Bytes) /\ Len(Tail(queue)) = Len(queue) - 1
        /\ \A i \in 1..Len(Tail(queue)) : Tail(queue)[i] = queue[i + 1]
    BY <1>1, <1>3, HeadTailProperties
  <2>3. DOMAIN Tail(queue) = 1..Len(Tail(queue))
    BY <2>2, LenProperties
  <2>4. 1 \in DOMAIN queue
    BY <1>1, <1>3, EmptySeq
  <2>5. down' \in BOOLEAN /\ (down' => queue[1] = "d") /\ (~down' => queue[1] # "d")
    BY <2>1
  <2>6. \A i \in DOMAIN queue' : i + 1 \in DOMAIN queue /\ queue'[i] = queue[i + 1]
    BY <1>1, <2>1, <2>2, <2>3
  <2>7. queue' \in Seq(Bytes) /\ Len(queue') = Len(queue) - 1
    BY <2>1, <2>2
  <2> QED
    BY <1>3, <2>4, <2>5, <2>6, <2>7
<1> QED
  BY <1>2, <1>3

\* The options are numbers.
LEMMA Settings ==
  ASSUME PollLoopAssumption, PollTypeOK
  PROVE  /\ settings.timeout \in Nat
         /\ settings.pollDown \in Nat
         /\ CheckTime \in Nat
BY DEF PollLoopAssumption, PollTypeOK

\* The time that passes, as the clocks count it.
LEMMA SoonerBounds ==
  ASSUME NEW a \in Nat, NEW m \in Nat
  PROVE  Sooner(a, m) \in 0..m /\ (a >= m => Sooner(a, m) = m)
BY DEF Sooner

(***************************************************************************)
(* Types.                                                                  *)
(***************************************************************************)
\* The child's steps and main()'s keep the types.
LEMMA TypeStep ==
  ASSUME PollLoopAssumption, PollTypeOK, [Next]_vars
  PROVE  PollTypeOK'
<1> USE DEF PollTypeOK, world, clocks
<1>0. settings.timeout \in Nat /\ settings.pollDown \in Nat /\ CheckTime \in Nat
  BY Settings
<1>a. Seq(Bytes) = Seq({"u", "U", "d"})
  BY DEF Bytes
<1>1. CASE Main
  BY <1>1 DEF Main, Disabled, MakeFifo, Fork, ExecServer
<1>2. CASE RunGone
  BY <1>2 DEF RunGone
<1>3. ASSUME NEW b \in Bytes, Write(b) PROVE PollTypeOK'
  BY <1>3 DEF Write, Listening, Bytes
<1>4. CASE Quit
  BY <1>4 DEF Quit, Over
<1>5. CASE PollSucceeds
  <2>1. late' \in 0..MaxLate /\ outcome' \in {"none", "disabled", "quit", "restart", "error"}
    BY <1>5 DEF PollSucceeds, CountLate, Over, MaxLate
  <2>2. pc' \in {"between", "over"} /\ silence' = 0
    BY <1>5 DEF PollSucceeds, Over
  <2> QED
    BY <1>0, <1>5, <2>1, <2>2 DEF PollSucceeds
<1>6. CASE PollFails
  BY <1>6 DEF PollFails, CountLate, MaxLate
<1>7. CASE PollWait
  <2>1. queue' \in Seq({"u", "U", "d"}) /\ down' \in BOOLEAN
    BY <1>7, <1>a, Reads DEF PollWait
  <2> QED
    BY <1>7, <2>1 DEF PollWait
<1>8. CASE Between
  <2>1. queue' \in Seq({"u", "U", "d"}) /\ down' \in BOOLEAN
    BY <1>8, <1>a, Reads DEF Between
  <2> QED
    BY <1>0, <1>8, <2>1 DEF Between
<1>9. CASE Beat
  BY <1>9 DEF Beat, CountLate, MaxLate
<1>10. ASSUME NEW t \in 0..CheckTime, CheckSucceeds(t) PROVE PollTypeOK'
  BY <1>0, <1>10 DEF CheckSucceeds
<1>11. ASSUME NEW t \in Nat, Elapse(t), UNCHANGED settings
       PROVE  age' \in 0..settings'.timeout /\ silence' \in 0..settings'.timeout
  <2>1. age + t \in Nat /\ silence + t \in Nat
    BY <1>0
  <2> QED
    BY <1>0, <1>11, <2>1, SoonerBounds DEF Elapse
<1>12. ASSUME NEW t \in 0..CheckTime, CheckFails(t) \/ Restart(t) PROVE PollTypeOK'
  <2>1. age' \in 0..settings'.timeout /\ silence' \in 0..settings'.timeout
    BY <1>0, <1>11, <1>12 DEF CheckFails, Restart
  <2> QED
    BY <1>12, <2>1 DEF CheckFails, Restart, Over
<1>13. ASSUME NEW t \in 0..settings.pollDown, BeatWait(t) PROVE PollTypeOK'
  <2>1. age' \in 0..settings'.timeout /\ silence' \in 0..settings'.timeout
    BY <1>0, <1>11, <1>13 DEF BeatWait
  <2>2. queue' \in Seq({"u", "U", "d"}) /\ down' \in BOOLEAN
    BY <1>13, <1>a, Reads DEF BeatWait
  <2> QED
    BY <1>13, <2>1, <2>2 DEF BeatWait
<1>14. CASE UNCHANGED vars
  BY <1>14 DEF vars
<1> QED
  BY <1>1, <1>2, <1>3, <1>4, <1>5, <1>6, <1>7, <1>8, <1>9, <1>10, <1>12, <1>13, <1>14
     DEF Next, Child, WriteUp, WriteReady, WriteDown, Bytes

\* Every reachable state has the types that PollTypeOK gives its variables.
THEOREM PollTyping == Spec => []PollTypeOK
<1>1. Init => PollTypeOK
  <2> SUFFICES ASSUME Init PROVE PollTypeOK
    OBVIOUS
  <2>1. settings.timeout \in Nat
    BY PollLoopAssumption DEF Init, PollLoopAssumption
  <2>2. queue \in Seq({"u", "U", "d"})
    BY EmptySeq DEF Init
  <2>3. age \in 0..settings.timeout /\ elapsed \in 0..settings.timeout
        /\ silence \in 0..settings.timeout /\ late \in 0..MaxLate
    BY <2>1 DEF Init, MaxLate
  <2> QED
    BY <2>2, <2>3 DEF Init, PollTypeOK
<1>2. PollTypeOK /\ [Next]_vars => PollTypeOK'
  BY TypeStep, PollLoopAssumption
<1> QED
  BY <1>1, <1>2, PTL DEF Spec

(***************************************************************************)
(* The FIFO.                                                               *)
(***************************************************************************)
\* A byte that is read leaves the rest in order.
LEMMA ReadsInOrder ==
  ASSUME PollTypeOK, FifoInv, WaitForDownSignal, UNCHANGED sent
  PROVE  FifoInv'
<1>1. \A i \in DOMAIN queue' : i + 1 \in DOMAIN queue /\ queue'[i] = queue[i + 1]
  BY Reads
<1>2. Len(queue') = 0 \/ Len(queue') = Len(queue) - 1
  BY Reads, EmptySeq DEF Bytes
<1>3. DOMAIN queue' = 1..Len(queue') /\ DOMAIN queue = 1..Len(queue)
      /\ Len(queue) \in Nat /\ Len(queue') \in Nat
  BY Reads, LenProperties DEF PollTypeOK
<1>4. ASSUME NEW i \in DOMAIN queue' PROVE queue'[i] \in sent'
  BY <1>1 DEF FifoInv
<1>5. ASSUME NEW i \in DOMAIN queue', NEW j \in DOMAIN queue', queue'[i] = queue'[j]
      PROVE  i = j
  <2>1. i + 1 = j + 1
    BY <1>1, <1>5 DEF FifoInv
  <2> QED
    BY <1>3, <2>1
<1>6. ASSUME NEW i \in DOMAIN queue', queue'[i] = "d" PROVE i = Len(queue')
  <2>1. i + 1 = Len(queue)
    BY <1>1, <1>6 DEF FifoInv
  <2>2. i \in 1..Len(queue') /\ i \in Nat
    BY <1>3
  <2>3. Len(queue') # 0
    BY <2>2
  <2>4. Len(queue') = Len(queue) - 1
    BY <1>2, <2>3
  <2> QED
    BY <1>3, <2>1, <2>2, <2>4
<1> QED
  BY <1>4, <1>5, <1>6 DEF FifoInv

\* A byte that is written was not before, and stands behind all others, none of
\* which is a d.
LEMMA WritesInOrder ==
  ASSUME PollTypeOK, FifoInv, NEW b \in Bytes, Write(b), "d" \notin sent
  PROVE  FifoInv'
<1>1. CASE ~Listening
  BY <1>1 DEF Write, FifoInv
<1>2. CASE Listening
  <2>1. queue' = Append(queue, b) /\ sent' = sent \cup {b} /\ b \notin sent
    BY <1>2 DEF Write
  <2>2. queue \in Seq(Bytes) /\ DOMAIN queue = 1..Len(queue) /\ Len(queue) \in Nat
    BY LenProperties DEF PollTypeOK, Bytes
  <2>3. /\ queue' \in Seq(Bytes) /\ Len(queue') = Len(queue) + 1
        /\ \A i \in 1..Len(queue) : queue'[i] = queue[i]
        /\ queue'[Len(queue) + 1] = b
    BY <2>1, <2>2, AppendProperties
  <2>4. DOMAIN queue' = 1..(Len(queue) + 1)
    BY <2>3, LenProperties
  <2>5. ASSUME NEW i \in DOMAIN queue'
        PROVE  \/ i \in DOMAIN queue /\ queue'[i] = queue[i]
               \/ i = Len(queue) + 1 /\ queue'[i] = b
    <3>1. i \in 1..(Len(queue) + 1)
      BY <2>4
    <3>2. i \in 1..Len(queue) \/ i = Len(queue) + 1
      BY <2>2, <3>1
    <3> QED
      BY <2>2, <2>3, <3>2
  <2>6. \A i \in DOMAIN queue : queue[i] \in sent /\ queue[i] # b /\ queue[i] # "d"
    BY <2>1 DEF FifoInv
  <2>7. \A i \in DOMAIN queue' : queue'[i] \in sent'
    BY <2>1, <2>5, <2>6
  <2>8. ASSUME NEW i \in DOMAIN queue', NEW j \in DOMAIN queue', queue'[i] = queue'[j]
        PROVE  i = j
    BY <2>5, <2>6, <2>8 DEF FifoInv
  <2>9. \A i \in DOMAIN queue' : queue'[i] = "d" => i = Len(queue')
    BY <2>3, <2>5, <2>6
  <2> QED
    BY <2>7, <2>8, <2>9 DEF FifoInv
<1> QED
  BY <1>1, <1>2

\* Nothing but writing and reading touches it.
LEMMA FifoStep ==
  ASSUME PollTypeOK, FifoInv, EndInv, [Next]_vars
  PROVE  FifoInv'
<1>1. CASE UNCHANGED <<sent, queue>>
  BY <1>1 DEF FifoInv
<1>2. CASE WriteUp \/ WriteReady \/ WriteDown
  <2>1. "d" \notin sent
    BY <1>2 DEF WriteUp, WriteReady, WriteDown, Write, EndInv
  <2> QED
    BY <1>2, <2>1, WritesInOrder DEF WriteUp, WriteReady, WriteDown, Bytes
<1>3. CASE WaitForDownSignal /\ UNCHANGED sent
  BY <1>3, ReadsInOrder
<1>4. Next => \/ UNCHANGED <<sent, queue>>
              \/ WriteUp \/ WriteReady \/ WriteDown
              \/ WaitForDownSignal /\ UNCHANGED sent
  BY DEF Next, Main, Child, Disabled, MakeFifo, Fork, ExecServer, RunGone, Quit,
         PollSucceeds, PollFails, PollWait, Between, Beat, CheckSucceeds, CheckFails,
         Restart, BeatWait, world
<1> QED
  BY <1>1, <1>2, <1>3, <1>4 DEF vars, world

(***************************************************************************)
(* The end of the run script.                                              *)
(***************************************************************************)
LEMMA EndStep ==
  ASSUME PollTypeOK, FifoInv, EndInv, [Next]_vars
  PROVE  EndInv'
<1> USE DEF EndInv, world
<1>1. CASE Main
  BY <1>1 DEF Main, Disabled, MakeFifo, Fork, ExecServer
<1>2. CASE RunGone
  BY <1>2 DEF RunGone
<1>3. CASE WriteUp \/ WriteReady \/ WriteDown
  BY <1>3 DEF WriteUp, WriteReady, WriteDown, Write
<1>4. CASE Quit \/ PollSucceeds \/ PollFails \/ Beat
  BY <1>4 DEF Quit, PollSucceeds, PollFails, Beat, Over
<1>5. ASSUME WaitForDownSignal, UNCHANGED <<sent, run, outcome>>, pc' \in {"poll", "beat"}, pc # "over"
      PROVE  EndInv'
  <2>1. down' => "d" \in sent
    BY <1>5, Reads DEF FifoInv
  <2>2. outcome = "none"
    BY <1>5
  <2> QED
    BY <1>5, <2>1, <2>2
<1>6. CASE PollWait \/ Between \/ \E t \in 0..settings.pollDown : BeatWait(t)
  BY <1>5, <1>6 DEF PollWait, Between, BeatWait
<1>7. CASE \E t \in 0..CheckTime : CheckSucceeds(t) \/ CheckFails(t) \/ Restart(t)
  BY <1>7 DEF CheckSucceeds, CheckFails, Restart, Over
<1>8. CASE UNCHANGED vars
  BY <1>8 DEF vars
<1> QED
  BY <1>1, <1>2, <1>3, <1>4, <1>6, <1>7, <1>8 DEF Next, Child

(***************************************************************************)
(* The checks begun since the d was written.                               *)
(***************************************************************************)
\* The d is written when no check was counted and at most two bytes wait.
LEMMA LateWrite ==
  ASSUME PollTypeOK, FifoInv, EndInv, LateInv, FifoInv', PollTypeOK', WriteDown
  PROVE  LateInv'
<1>1. /\ late = 0 /\ late' = late /\ sent' = sent \cup {"d"} /\ "d" \notin sent
      /\ pc' = pc /\ down' = down /\ run = "gone"
  BY DEF WriteDown, Write, LateInv
<1>2. CASE pc = "over"
  BY <1>1, <1>2 DEF LateInv
<1>3. CASE pc # "over"
  <2>1. queue' = Append(queue, "d")
    BY <1>1, <1>3 DEF WriteDown, Write, Listening, EndInv
  <2>2. queue \in Seq(Bytes) /\ Len(queue) \in Nat /\ "d" \in Bytes
    BY LenProperties DEF PollTypeOK, Bytes
  <2>3. queue' # <<>> /\ Len(queue') = Len(queue) + 1 /\ queue'[Len(queue) + 1] = "d"
    BY <2>1, <2>2, AppendProperties
  <2>4. Len(queue') <= 3
    <3>1. queue' \in Seq(Bytes)
      BY DEF PollTypeOK, Bytes
    <3> QED
      BY <3>1, FifoIsShort DEF FifoInv
  <2> QED
    BY <1>1, <2>3, <2>4 DEF LateInv
<1> QED
  BY <1>2, <1>3

\* A byte that is read brings the d nearer, if it is not the d.
LEMMA LateRead ==
  ASSUME PollTypeOK, FifoInv, LateInv, ~down, pc # "over",
         WaitForDownSignal, UNCHANGED <<sent, late>>
  PROVE  LateInv'
<1>1. "d" \notin sent => late = 0
  BY DEF LateInv
<1>2. late <= 3
  BY DEF LateInv
<1>3. ASSUME "d" \in sent, ~down'
      PROVE  queue' # <<>> /\ queue'[Len(queue')] = "d" /\ late + Len(queue') <= 3
  <2>1. queue # <<>> /\ queue[Len(queue)] = "d" /\ late + Len(queue) <= 4
    BY <1>3 DEF LateInv, PollTypeOK
  <2>2. queue[1] # "d" /\ Len(queue') = Len(queue) - 1
    BY <1>3, <2>1, Reads
  <2>3. Len(queue) \in Nat \ {0} /\ late \in Nat
    BY <2>1, EmptySeq DEF PollTypeOK, MaxLate
  <2>4. Len(queue) # 1
    BY <2>1, <2>2
  <2>5. Len(queue') \in 1..2 \cup {Len(queue) - 1} /\ Len(queue') >= 1 /\ Len(queue') \in Nat
    BY <2>2, <2>3, <2>4
  <2>6. queue' \in Seq(Bytes) /\ DOMAIN queue' = 1..Len(queue')
    BY Reads, LenProperties
  <2>7. queue'[Len(queue')] = queue[Len(queue') + 1]
    BY <2>5, <2>6, Reads
  <2>8. Len(queue') + 1 = Len(queue)
    BY <2>2, <2>3
  <2>9. queue' # <<>>
    BY <2>5, EmptySeq
  <2> QED
    BY <2>1, <2>2, <2>3, <2>7, <2>8, <2>9
<1>4. late' = late /\ sent' = sent
  OBVIOUS
<1>5. late \in Nat /\ Len(queue') \in Nat
  BY Reads, LenProperties DEF PollTypeOK, MaxLate
<1> QED
  BY <1>1, <1>2, <1>3, <1>4, <1>5 DEF LateInv

\* A check that begins counts, and is not the last that may.
LEMMA LateCheck ==
  ASSUME PollTypeOK, EndInv, LateInv, ~down, pc \in {"poll", "beat"}, CountLate,
         UNCHANGED <<sent, queue, down>>, pc' \in {"pollWait", "between", "check", "over"}
  PROVE  LateInv'
<1>1. CASE "d" \notin sent
  BY <1>1 DEF LateInv, CountLate
<1>2. CASE "d" \in sent
  <2>1. queue # <<>> /\ queue[Len(queue)] = "d" /\ late + Len(queue) <= 3
    BY <1>2 DEF LateInv
  <2>2. Len(queue) \in Nat \ {0} /\ late \in Nat
    BY <2>1, EmptySeq DEF PollTypeOK, MaxLate
  <2>3. late' = late + 1
    BY <1>2, <2>1, <2>2 DEF CountLate, MaxLate
  <2>4. late' <= 3 /\ late' + Len(queue) <= 4
    BY <2>1, <2>2, <2>3
  <2> QED
    BY <1>2, <2>1, <2>4 DEF LateInv
<1> QED
  BY <1>1, <1>2

\* Every step keeps the bound on the checks after the end.
LEMMA LateStep ==
  ASSUME PollTypeOK, FifoInv, EndInv, LateInv, PollTypeOK', FifoInv', [Next]_vars
  PROVE  LateInv'
<1> USE DEF world
<1> DEFINE Untouched == UNCHANGED <<sent, queue, down, late>>
<1>1. CASE Untouched /\ pc' \in {pc, "over"}
  BY <1>1 DEF LateInv
<1>2. CASE Untouched /\ pc \in {"main", "fork"}
  BY <1>2 DEF LateInv, EndInv
<1>3. CASE Untouched /\ pc = "check" /\ pc' = "beatWait"
  BY <1>3 DEF LateInv
<1>5. CASE WriteUp \/ WriteReady
  BY <1>5 DEF WriteUp, WriteReady, Write, EndInv, LateInv
<1>6. CASE WriteDown
  BY <1>6, LateWrite
<1>7. CASE PollWait \/ Between \/ \E t \in 0..settings.pollDown : BeatWait(t)
  <2>1. ~down /\ pc # "over"
    BY <1>7 DEF EndInv, PollWait, Between, BeatWait
  <2> QED
    BY <1>7, <2>1, LateRead DEF PollWait, Between, BeatWait
<1>8. CASE PollSucceeds \/ PollFails \/ Beat
  BY <1>8, LateCheck DEF PollSucceeds, PollFails, Beat, Over
<1>4. CASE Main
  BY <1>1, <1>2, <1>4 DEF Main, Disabled, MakeFifo, Fork, ExecServer
<1>9. CASE RunGone \/ Quit \/ UNCHANGED vars
  BY <1>1, <1>9 DEF RunGone, Quit, Over, vars
<1>10. CASE \E t \in 0..CheckTime : CheckSucceeds(t) \/ CheckFails(t) \/ Restart(t)
  BY <1>1, <1>3, <1>10 DEF CheckSucceeds, CheckFails, Restart, Over
<1> QED
  BY <1>4, <1>5, <1>6, <1>7, <1>8, <1>9, <1>10 DEF Next, Child

(***************************************************************************)
(* The clocks.                                                             *)
(***************************************************************************)
LEMMA ClockStep ==
  ASSUME PollLoopAssumption, PollTypeOK, EndInv, ClockInv, [Next]_vars
  PROVE  ClockInv'
<1> USE DEF ClockInv, world, clocks
<1>1. CASE Main
  BY <1>1 DEF Main, Disabled, MakeFifo, Fork, ExecServer
<1>2. CASE RunGone
  BY <1>2 DEF RunGone
<1>3. CASE WriteUp \/ WriteReady \/ WriteDown
  BY <1>3 DEF WriteUp, WriteReady, WriteDown, Write
<1>4. CASE Quit
  BY <1>4 DEF Quit, Over
<1>5. CASE PollSucceeds \/ PollFails \/ PollWait
  BY <1>5 DEF PollSucceeds, PollFails, PollWait, Over, EndInv
<1>6. CASE Between \/ Beat
  BY <1>6 DEF Between, Beat
<1>7. ASSUME NEW t \in 0..CheckTime, CheckSucceeds(t) PROVE ClockInv'
  BY <1>7 DEF CheckSucceeds, EndInv
<1>8. ASSUME NEW t \in 0..CheckTime, CheckFails(t) PROVE ClockInv'
  BY <1>8 DEF CheckFails, Elapse, EndInv
<1>9. ASSUME NEW t \in 0..CheckTime, Restart(t) PROVE ClockInv'
  <2>1. silence + t \in Nat /\ silence >= settings.timeout /\ settings.timeout \in Nat /\ t \in Nat
    BY <1>9, Settings DEF Restart, PollTypeOK
  <2>2. silence + t >= settings.timeout
    BY <2>1, Settings DEF PollTypeOK
  <2>3. silence' = settings.timeout
    BY <1>9, <2>1, <2>2, SoonerBounds DEF Restart, Elapse
  <2> QED
    BY <1>9, <2>3 DEF Restart, Over
<1>10. ASSUME NEW t \in 0..settings.pollDown, BeatWait(t) PROVE ClockInv'
  BY <1>10 DEF BeatWait, Elapse, EndInv
<1>11. CASE UNCHANGED vars
  BY <1>11 DEF vars
<1> QED
  BY <1>1, <1>2, <1>3, <1>4, <1>5, <1>6, <1>7, <1>8, <1>9, <1>10, <1>11 DEF Next, Child

(***************************************************************************)
(* Theorems.                                                               *)
(***************************************************************************)
\* The inductive invariant of pgctl-poll-ready and its FIFO.
THEOREM PollSafety == Spec => []PollInv
<1>1. Init => PollInv
  BY DEF Init, PollInv, FifoInv, EndInv, LateInv, ClockInv
<1>2. PollTypeOK /\ PollTypeOK' /\ PollInv /\ [Next]_vars => PollInv'
  <2> SUFFICES ASSUME PollTypeOK, PollTypeOK', PollInv, [Next]_vars PROVE PollInv'
    OBVIOUS
  <2> USE DEF PollInv
  <2>1. FifoInv'
    BY FifoStep
  <2>2. EndInv'
    BY EndStep
  <2>3. LateInv'
    BY LateStep, <2>1
  <2>4. ClockInv'
    BY ClockStep, PollLoopAssumption
  <2> QED
    BY <2>1, <2>2, <2>3, <2>4
<1> QED
  BY <1>1, <1>2, PollTyping, PTL DEF Spec

\* The child never gives up a service whose run script is alive.
THEOREM QuitsForTheDead == Spec => []QuitOnlyIfDown
<1>1. PollInv => QuitOnlyIfDown
  BY DEF PollInv, EndInv, QuitOnlyIfDown
<1> QED
  BY <1>1, PollSafety, PTL

\* `pgctl restart` is executed only when ./ready has not succeeded for the
\* timeout, however the checks and the waits divide that time.
THEOREM RestartsAfterSilence == Spec => []RestartAfterSilence
<1>1. PollTypeOK /\ PollInv => RestartAfterSilence
  BY PollLoopAssumption, Settings DEF PollInv, ClockInv, RestartAfterSilence
<1> QED
  BY <1>1, PollTyping, PollSafety, PTL

\* After the d is written at most three checks begin, whichever bytes are in
\* front of it.
THEOREM HeedsTheEnd == Spec => []HeedsDown
<1>1. PollTypeOK /\ PollInv => HeedsDown
  BY DEF PollInv, LateInv, HeedsDown, MaxLate, PollTypeOK
<1> QED
  BY <1>1, PollTyping, PollSafety, PTL
=============================================================================
