--------------------------- MODULE RoundTrip_proofs ---------------------------
(***************************************************************************)
(* network_round_trip.c, for every payload size, number of samples and     *)
(* number of hosts.                                                        *)
(***************************************************************************)
EXTENDS RoundTrip, TLAPS

\* The loop test on an int that may be -1: it fails exactly when the sample is
\* complete or the count is negative.
LEMMA LoopTest ==
    ASSUME TypeOK
    PROVE  Unsigned(total) < size <=> (0 <= total /\ total < size)
BY SizeAssumption DEF TypeOK, Unsigned

\* The service and the network preserve the invariant.
LEMMA NetworkPreserves ==
    ASSUME IInv, Echo \/ PeerCloses \/ PeerResets PROVE IInv'
<1> USE SizeAssumption DEF IInv, TypeOK, Balance, NegativeAfterReset, Position,
        Receiving, ping
<1>1. CASE Echo
  BY <1>1 DEF Echo
<1>2. CASE PeerCloses
  BY <1>2 DEF PeerCloses
<1>3. CASE PeerResets
  BY <1>3 DEF PeerResets
<1> QED BY <1>1, <1>2, <1>3

\* A turn of the receive loop, or its end, preserves the invariant.
LEMMA RecvPreserves ==
    ASSUME IInv, NEW label, NEW next,
           \/ label = "warm_up_recv" /\ next = "send"
           \/ label = "recv" /\ next = "stop",
           RecvLoop(label, next)
    PROVE  IInv'
<1> USE SizeAssumption DEF IInv, TypeOK, Balance, NegativeAfterReset, Position,
        Receiving, Labels, ping, net
<1>1. pc = label /\ UNCHANGED ping
  BY DEF RecvLoop
<1>2. CASE Unsigned(total) < size
  <2>1. 0 <= total /\ total < size
    BY <1>2, LoopTest
  <2>2. PICK n \in -1..MaxSize : RecvResult(n) /\ total' = total + n /\ UNCHANGED pc
    BY <1>2 DEF RecvLoop
  <2>3. CASE /\ down > 0 /\ n \in 1..Min(down, size)
             /\ down' = down - n /\ UNCHANGED <<up, conn, err>>
    BY <1>1, <2>1, <2>2, <2>3 DEF Min
  <2>4. CASE n = 0 /\ UNCHANGED net
    BY <1>1, <2>1, <2>2, <2>4
  <2>5. CASE /\ down = 0 /\ n = -1 /\ conn = "reset" /\ err # "none"
             /\ err' = "none" /\ UNCHANGED <<up, down, conn>>
    BY <1>1, <2>1, <2>2, <2>5
  <2> QED BY <2>2, <2>3, <2>4, <2>5 DEF RecvResult
<1>3. CASE ~ (Unsigned(total) < size)
  <2>1. total < 0 \/ total >= size
    BY <1>3, LoopTest
  <2>2. UNCHANGED <<total, net>> /\ pc' = next
    BY <1>3 DEF RecvLoop
  <2> QED BY <1>1, <2>1, <2>2
<1> QED BY <1>2, <1>3

\* The other statements of the program preserve the invariant.
LEMMA ProgramPreserves == ASSUME IInv, Program PROVE IInv'
<1> USE SizeAssumption, CountAssumption DEF IInv, TypeOK, Balance, NegativeAfterReset,
        Position, Receiving, Labels, ping, net
<1>1. CASE InitTest
  BY <1>1 DEF InitTest
<1>2. CASE Connect
  BY <1>2 DEF Connect
<1>3. CASE WarmUpSend
  BY <1>3 DEF WarmUpSend, SendResult
<1>4. CASE Send
  BY <1>4 DEF Send, SendResult
<1>5. CASE WarmUpRecv \/ Recv
  BY <1>5, RecvPreserves DEF WarmUpRecv, Recv
<1>6. CASE NextSample
  BY <1>6 DEF NextSample
<1>7. CASE Close
  BY <1>7 DEF Close
<1> QED
  BY <1>1, <1>2, <1>3, <1>4, <1>5, <1>6, <1>7 DEF Program

\* The inductive invariant holds in every reachable state.
THEOREM Invariance == Spec => []IInv
<1>1. Init => IInv
  BY SizeAssumption, CountAssumption DEF Init, IInv, TypeOK, Balance,
     NegativeAfterReset, Position, Receiving, Labels
<1>2. IInv /\ [Next]_vars => IInv'
  <2>1. ASSUME IInv, Next PROVE IInv'
    BY <2>1, NetworkPreserves, ProgramPreserves DEF Next
  <2>2. ASSUME IInv, UNCHANGED vars PROVE IInv'
    BY <2>2 DEF vars, IInv, TypeOK, Balance, NegativeAfterReset, Position, Receiving
  <2> QED BY <2>1, <2>2
<1> QED BY <1>1, <1>2, PTL DEF Spec

\* Types; in particular the count never falls below -1.
THEOREM TypeCorrect == Spec => []TypeOK
<1>1. IInv => TypeOK
  BY DEF IInv
<1> QED BY <1>1, Invariance, PTL

\* A sample is a full round trip unless a reset met its first recv.
THEOREM SamplesAreRoundTrips == Spec => []SampleIsRoundTrip
<1>1. IInv => SampleIsRoundTrip
  BY SizeAssumption DEF IInv, TypeOK, Balance, NegativeAfterReset, Position,
     Receiving, SampleIsRoundTrip
<1> QED BY <1>1, Invariance, PTL

\* While the peer is there, every byte sent is accounted for.
THEOREM BytesConserved == Spec => []NothingLostInFlight
<1>1. IInv => NothingLostInFlight
  BY DEF IInv, Balance, Receiving, NothingLostInFlight
<1> QED BY <1>1, Invariance, PTL
===============================================================================
