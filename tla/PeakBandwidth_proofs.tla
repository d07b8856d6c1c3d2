------------------------- MODULE PeakBandwidth_proofs -------------------------
(***************************************************************************)
(* peak_bandwidth.c, for every number of sends and hosts, every size of    *)
(* the data and of the socket's buffer: how wrong the reported minimum can *)
(* be although no send is tested.                                          *)
(***************************************************************************)
EXTENDS PeakBandwidth, TLAPS

\* The constants and the counters are naturals.
LEMMA Numbers ==
    ASSUME TypeOK
    PROVE  /\ TestCount \in Nat /\ TestCount > 0 /\ Hosts \in Nat /\ Hosts > 0
           /\ Size \in Nat /\ SndBuf \in Nat /\ SndBuf < Size /\ MaxDelay \in Nat
           /\ host \in Nat /\ 1 <= host /\ host <= Hosts
           /\ idx \in Nat /\ idx <= TestCount
           /\ queued \in Nat /\ queued <= SndBuf
           /\ minTime \in Nat /\ minTime <= NoTime
           /\ NoTime = Size + SndBuf + MaxDelay + 1
           /\ cut \in Nat /\ cut <= idx /\ interrupted \in Nat /\ interrupted <= idx
<1>1. /\ TestCount \in Nat /\ TestCount > 0 /\ Hosts \in Nat /\ Hosts > 0
      /\ Size \in Nat /\ SndBuf \in Nat /\ SndBuf < Size /\ MaxDelay \in Nat
  BY CountAssumption, SizeAssumption
<1> QED BY <1>1 DEF TypeOK, NoTime

LEMMA InitEstablishes == ASSUME Init PROVE IInv
BY CountAssumption, SizeAssumption
DEF Init, IInv, TypeOK, Position, Losses, Minimum, NoTime

\* A sample moves the loop on by one and the minimum down to its time, if at all.
LEMMA SampleCounts ==
    ASSUME IInv, pc = "send", NEW time \in Nat, Sample(time)
    PROVE  /\ idx < TestCount /\ idx' = idx + 1 /\ host' = host
           /\ pc' \in {"send", "close"} /\ (pc' = "send" <=> idx' < TestCount)
           /\ minTime' \in Nat /\ minTime' <= NoTime
           /\ \E t \in time..(time + MaxDelay) :
                  minTime' = IF t < minTime THEN t ELSE minTime
<1>1. idx < TestCount /\ idx' = idx + 1 /\ host' = host
  BY DEF IInv, Position, Sample
<1>2. pc' \in {"send", "close"} /\ (pc' = "send" <=> idx' < TestCount)
  BY <1>1 DEF Sample, More
<1>3. PICK t \in time..(time + MaxDelay) : minTime' = IF t < minTime THEN t ELSE minTime
  BY DEF Sample
<1>4. minTime' \in Nat /\ minTime' <= NoTime
  BY <1>3, Numbers DEF IInv
<1> QED BY <1>1, <1>2, <1>3, <1>4

\* What every send has in common: the counters and the type of what is left.
LEMMA SampledTypes ==
    ASSUME IInv, pc = "send", NEW time \in Nat, Sample(time),
           conn' \in {"open", "reset"}, err' \in {"none", "ECONNRESET", "EPIPE"},
           queued' \in 0..SndBuf,
           \/ cut' = cut /\ interrupted' = interrupted
           \/ cut' = cut + 1 /\ interrupted' = interrupted
           \/ cut' = cut /\ interrupted' = interrupted + 1
    PROVE  TypeOK' /\ Position'
<1>1. /\ idx < TestCount /\ idx' = idx + 1 /\ host' = host
      /\ pc' \in {"send", "close"} /\ (pc' = "send" <=> idx' < TestCount)
      /\ minTime' \in Nat /\ minTime' <= NoTime
  BY SampleCounts
<1>2. idx' \in 0..TestCount /\ minTime' \in 0..NoTime /\ host' \in 1..Hosts
  BY <1>1, Numbers DEF IInv
<1>3. cut' \in 0..idx' /\ interrupted' \in 0..idx'
  BY <1>1, Numbers DEF IInv
<1>4. TypeOK'
  BY <1>1, <1>2, <1>3 DEF TypeOK
<1>5. pc' = "close" => idx' = TestCount
  BY <1>1, Numbers DEF IInv
<1> QED BY <1>1, <1>4, <1>5 DEF Position

\* A full send keeps the minimum within the buffer's size of the truth.
LEMMA SendFullPreserves == ASSUME IInv, SendFull PROVE IInv'
<1>1. /\ pc = "send" /\ conn = "open" /\ UNCHANGED <<cut, interrupted, conn, err>>
      /\ queued' \in 0..SndBuf /\ queued' <= queued + Size
      /\ Sample(queued + Size - queued')
  BY DEF SendFull, Accept, history
<1> DEFINE time == queued + Size - queued'
<1>2. time \in Nat /\ Size - SndBuf <= time /\ time <= Size + SndBuf
  BY <1>1, Numbers DEF IInv
<1> HIDE DEF time
<1>3. TypeOK' /\ Position'
  BY <1>1, <1>2, SampledTypes DEF IInv, TypeOK, time
<1>4. PICK t \in time..(time + MaxDelay) : minTime' = IF t < minTime THEN t ELSE minTime
  BY <1>1, <1>2, SampleCounts DEF time
<1>5. t \in Nat /\ Size - SndBuf <= t /\ t <= Size + SndBuf + MaxDelay
  BY <1>2, Numbers DEF IInv
<1>6. idx' = idx + 1 /\ pc' \in {"send", "close"}
  BY <1>1, <1>2, SampleCounts DEF time
<1>7. Losses'
  BY <1>1 DEF IInv, Losses
<1>8. ASSUME cut = 0, interrupted = 0
      PROVE  minTime' \in (Size - SndBuf)..(Size + SndBuf + MaxDelay)
  <2>1. CASE idx = 0
    <3>1. minTime = NoTime
      BY <1>1, <1>8, <2>1 DEF IInv, Minimum
    <3>2. t < minTime
      BY <1>5, <3>1, Numbers DEF IInv
    <3> QED BY <1>4, <1>5, <3>2, Numbers DEF IInv
  <2>2. CASE idx # 0
    <3>1. minTime \in (Size - SndBuf)..(Size + SndBuf + MaxDelay)
      BY <1>1, <1>8, <2>2 DEF IInv, Minimum
    <3> QED BY <1>4, <1>5, <3>1, Numbers DEF IInv
  <2> QED BY <2>1, <2>2
<1>9. Minimum'
  <2>1. idx' # 0
    BY <1>6, Numbers DEF IInv
  <2> QED BY <1>1, <1>8, <2>1 DEF Minimum
<1> QED BY <1>3, <1>7, <1>9 DEF IInv

\* From an interrupted send on, nothing is claimed of the minimum.
LEMMA SendInterruptedPreserves == ASSUME IInv, SendInterrupted PROVE IInv'
<1>1. PICK n \in 1..(Size - 1) : Accept(n)
  BY DEF SendInterrupted
<1>2. /\ pc = "send" /\ conn = "open" /\ interrupted' = interrupted + 1
      /\ UNCHANGED <<cut, conn, err>>
      /\ queued' \in 0..SndBuf /\ queued' <= queued + n
      /\ Sample(queued + n - queued')
  BY <1>1 DEF SendInterrupted, Accept
<1>3. n \in Nat /\ queued + n - queued' \in Nat
  BY <1>2, Numbers DEF IInv
<1>4. TypeOK' /\ Position'
  BY <1>2, <1>3, SampledTypes DEF IInv, TypeOK
<1>5. Losses'
  BY <1>2 DEF IInv, Losses
<1>6. Minimum'
  BY <1>2, Numbers DEF IInv, Minimum
<1> QED BY <1>4, <1>5, <1>6 DEF IInv

LEMMA SendCutPreserves == ASSUME IInv, SendCut PROVE IInv'
<1>1. PICK n \in 0..(Size - 1) : /\ \E t \in 0..(queued + n) : Sample(t)
                                 /\ err' = IF n > 0 THEN "ECONNRESET" ELSE "none"
  BY DEF SendCut
<1>2. PICK t \in 0..(queued + n) : Sample(t)
  BY <1>1
<1>3. /\ pc = "send" /\ conn = "open" /\ conn' = "reset" /\ queued' = 0
      /\ cut' = cut + 1 /\ interrupted' = interrupted
  BY DEF SendCut
<1>4. t \in Nat /\ queued' \in 0..SndBuf
  BY <1>3, Numbers DEF IInv
<1>5. TypeOK' /\ Position'
  BY <1>1, <1>2, <1>3, <1>4, SampledTypes
<1>6. cut = 0
  BY <1>3 DEF IInv, Losses
<1> QED BY <1>3, <1>5, <1>6 DEF IInv, Losses, Minimum

LEMMA SendFailsPreserves == ASSUME IInv, SendFails PROVE IInv'
<1>1. /\ pc = "send" /\ conn = "reset" /\ err = "ECONNRESET" /\ Sample(0)
      /\ err' = "none" /\ cut' = cut + 1 /\ UNCHANGED <<conn, queued, interrupted>>
  BY DEF SendFails
<1>2. TypeOK' /\ Position'
  BY <1>1, SampledTypes DEF IInv, TypeOK
<1>3. cut <= 1
  BY <1>1 DEF IInv, Losses
<1> QED BY <1>1, <1>2, <1>3, Numbers DEF IInv, Losses, Minimum

\* Each host starts with a connection and a minimum of its own.
LEMMA ConnectPreserves == ASSUME IInv, Connect PROVE IInv'
BY Numbers DEF Connect, history, IInv, TypeOK, Position, Losses, Minimum

LEMMA ClosePreserves == ASSUME IInv, CloseAndPrint PROVE IInv'
BY Numbers DEF CloseAndPrint, history, IInv, TypeOK, Position, Losses, Minimum

\* What the network does between two sends loses no sample.
LEMMA NetworkPreserves == ASSUME IInv, Drain \/ PeerResets PROVE IInv'
<1>1. queued' \in 0..SndBuf
  BY Numbers DEF Drain, PeerResets, IInv
<1> QED BY <1>1 DEF Drain, PeerResets, history, IInv, TypeOK, Position, Losses, Minimum

LEMMA OthersPreserve == ASSUME IInv, InitTest \/ BrokenPipe PROVE IInv'
BY DEF InitTest, BrokenPipe, socket, history, IInv, TypeOK, Position, Losses, Minimum

LEMMA Invariance == Spec => []IInv
<1>1. IInv /\ [Next]_vars => IInv'
  <2>1. SUFFICES ASSUME IInv, [Next]_vars PROVE IInv'
    OBVIOUS
  <2>2. CASE Next
    BY <2>1, <2>2, SendFullPreserves, SendInterruptedPreserves, SendCutPreserves,
       SendFailsPreserves, ConnectPreserves, ClosePreserves, NetworkPreserves,
       OthersPreserve DEF Next, Send
  <2>3. CASE UNCHANGED vars
    BY <2>1, <2>3 DEF vars, IInv, TypeOK, Position, Losses, Minimum
  <2> QED BY <2>1, <2>2, <2>3
<1>2. Init => IInv
  BY InitEstablishes
<1> QED BY <1>1, <1>2, PTL DEF Spec

\* Type correctness: idx stays within TEST_COUNT and the minimum within the times
\* a send can take.
THEOREM TypeCorrect == Spec => []TypeOK
<1>1. IInv => TypeOK
  BY DEF IInv
<1> QED BY Invariance, <1>1, PTL

\* At most two samples of a lost connection enter a minimum that is printed,
\* however many sends there are: then SIGPIPE ends the program.
THEOREM LossBounded == Spec => []LossEndsRun
<1>1. IInv => LossEndsRun
  BY DEF IInv, Losses, LossEndsRun
<1> QED BY Invariance, <1>1, PTL

\* For every size of data and buffer: an undisturbed minimum is the time of a
\* full send, give or take the socket's buffer.
THEOREM PeakAccurate == Spec => []PeakWithinBuffer
<1>1. IInv => PeakWithinBuffer
  <2>1. SUFFICES ASSUME IInv, pc = "close", cut = 0, interrupted = 0
                 PROVE  minTime \in (Size - SndBuf)..(Size + SndBuf + MaxDelay)
    BY DEF PeakWithinBuffer
  <2>2. idx # 0
    BY <2>1, Numbers DEF IInv, Position
  <2> QED BY <2>1, <2>2 DEF IInv, Minimum
<1> QED BY Invariance, <1>1, PTL
===============================================================================
