----------------------- MODULE ConnectDisconnect_proofs -----------------------
(***************************************************************************)
(* connect_disconnect.c, for every number of samples, hosts and ports and  *)
(* every length of TIME_WAIT: one port per sleep never uses the ports up.  *)
(***************************************************************************)
EXTENDS ConnectDisconnect, FiniteSetTheorems, TLAPS

\* The times left are different where they are positive, and there are fewer of
\* them than ports: some port is free.
LEMMA SomePortFree ==
    ASSUME ConnectTypeOK, Staggered
    PROVE  \E p \in Ports : Free(p)
<1>1. SUFFICES ASSUME \A p \in Ports : left[p] # 0 PROVE FALSE
  BY DEF Free
<1>2. left \in [Ports -> 1..TimeWait]
  <2>1. left \in [Ports -> 0..TimeWait]
    BY DEF ConnectTypeOK
  <2>2. \A p \in Ports : left[p] \in 1..TimeWait
    BY <1>1, <2>1, PortAssumption
  <2> QED BY <2>1, <2>2
<1>3. IsFiniteSet(1..TimeWait) /\ Cardinality(1..TimeWait) = TimeWait
  BY FS_Interval, PortAssumption
<1>4. IsFiniteSet(Ports) /\ Cardinality(1..TimeWait) < Cardinality(Ports)
  BY <1>3, PortAssumption, FS_CardinalityType
<1>5. PICK p, q \in Ports : p # q /\ left[p] = left[q]
  BY <1>2, <1>3, <1>4, FS_PigeonHole, Zenon
<1>6. left[p] > 0
  BY <1>2, PortAssumption
<1> QED BY <1>5, <1>6 DEF Staggered

\* The counters are naturals.
LEMMA Counters ==
    ASSUME ConnectTypeOK
    PROVE  /\ TestCount \in Nat /\ TestCount > 0 /\ Hosts \in Nat /\ Hosts > 0
           /\ TimeWait \in Nat /\ TimeWait > 0
           /\ chost \in Nat /\ 1 <= chost /\ chost <= Hosts
           /\ count \in Nat /\ count <= TestCount
<1>1. /\ TestCount \in Nat /\ TestCount > 0 /\ Hosts \in Nat /\ Hosts > 0
      /\ TimeWait \in Nat /\ TimeWait > 0
  BY CountAssumption, PortAssumption
<1>2. chost \in 1..Hosts /\ count \in 0..TestCount
  BY DEF ConnectTypeOK
<1> QED BY <1>1, <1>2

LEMMA InitEstablishes == ConnectInit => ConnectInv
BY CountAssumption, PortAssumption
DEF ConnectInit, ConnectInv, ConnectTypeOK, Counting, Staggered, Elapsed, NeverOutOfPorts

\* A connection takes a port that is free: there is always one.
LEMMA ConnectPreserves == ASSUME ConnectInv, ConnectSocket, UNCHANGED debug PROVE ConnectInv'
<1>1. PICK p \in Ports : Free(p)
  BY SomePortFree DEF ConnectInv
<1>2. sock' \in {"connected", "refused", "none"} /\ port' \in Ports
  BY <1>1 DEF ConnectSocket, Established, Unconnected, ConnectInv, ConnectTypeOK
<1>3. /\ cpc = "connect" /\ cpc' \in {"usleep", "failed"}
      /\ UNCHANGED <<chost, count, left>>
  BY DEF ConnectSocket
<1> QED BY <1>2, <1>3 DEF ConnectInv, ConnectTypeOK, Counting, Staggered, Elapsed, NeverOutOfPorts

\* The times left go down together.
LEMMA UsleepPreserves == ASSUME ConnectInv, Usleep, UNCHANGED debug PROVE ConnectInv'
<1>1. PICK d \in 1..TimeWait :
          left' = [p \in Ports |-> IF left[p] > d THEN left[p] - d ELSE 0]
  BY DEF Usleep
<1>2. cpc' = "close" /\ UNCHANGED <<chost, count, sock, port>>
  BY DEF Usleep
<1>3. \A p \in Ports : /\ left[p] \in 0..TimeWait
                       /\ left'[p] = IF left[p] > d THEN left[p] - d ELSE 0
  BY <1>1 DEF ConnectInv, ConnectTypeOK
<1>4. \A p \in Ports : left'[p] \in 0..TimeWait /\ left'[p] < TimeWait
  BY <1>3, PortAssumption
<1>5. left' \in [Ports -> 0..TimeWait]
  BY <1>1, <1>4
<1>6. ConnectTypeOK' /\ NeverOutOfPorts'
  BY <1>2, <1>5 DEF ConnectInv, ConnectTypeOK, NeverOutOfPorts
<1>7. Staggered'
  <2>1. SUFFICES ASSUME NEW p \in Ports, NEW q \in Ports, p # q, left'[p] > 0
                 PROVE  left'[p] # left'[q]
    BY DEF Staggered
  <2>2. left[p] > d /\ left'[p] = left[p] - d
    BY <1>3, <2>1
  <2>3. left[p] # left[q]
    BY <1>3, <2>1, <2>2 DEF ConnectInv, Staggered
  <2> QED BY <1>3, <2>1, <2>2, <2>3
<1>8. Counting' /\ Elapsed'
  BY <1>2, <1>4 DEF Usleep, ConnectInv, Counting, Elapsed
<1> QED BY <1>6, <1>7, <1>8 DEF ConnectInv

\* The port that is closed has more time left than any other.
LEMMA ClosePreserves == ASSUME ConnectInv, Close, UNCHANGED debug PROVE ConnectInv'
<1>1. /\ \A p \in Ports : left[p] \in 0..TimeWait /\ left[p] < TimeWait
      /\ \A p, q \in Ports : p # q /\ left[p] > 0 => left[p] # left[q]
      /\ port \in Ports /\ left \in [Ports -> 0..TimeWait]
  BY DEF Close, ConnectInv, ConnectTypeOK, Staggered, Elapsed
<1>2. ConnectTypeOK'
  <2>1. /\ count < TestCount /\ count' = count + 1
    BY DEF Close, ConnectInv, Counting
  <2>2. count' \in 0..TestCount
    BY <2>1, Counters DEF ConnectInv
  <2>3. left' = left \/ left' = [left EXCEPT ![port] = TimeWait]
    BY DEF Close
  <2>4. left' \in [Ports -> 0..TimeWait]
    BY <1>1, <2>3, Counters DEF ConnectInv
  <2>5. /\ cpc' \in {"socket", "print"} /\ sock' = "none"
        /\ UNCHANGED <<chost, port>>
    BY DEF Close
  <2> QED BY <2>2, <2>4, <2>5 DEF ConnectInv, ConnectTypeOK
<1>3. Staggered'
  <2>1. CASE left' = left
    BY <1>1, <2>1 DEF Staggered
  <2>2. CASE left' = [left EXCEPT ![port] = TimeWait]
    <3>1. left'[port] = TimeWait /\ \A p \in Ports : p # port => left'[p] = left[p]
      BY <1>1, <2>2
    <3> QED BY <1>1, <3>1 DEF Staggered
  <2> QED BY <2>1, <2>2 DEF Close
<1>4. cpc' # "close" /\ sock' = "none"
  BY DEF Close
<1>5. Counting'
  BY DEF Close, Counting, More
<1> QED BY <1>2, <1>3, <1>4, <1>5 DEF ConnectInv, Elapsed, NeverOutOfPorts

\* For the next host no port is in TIME_WAIT; otherwise nothing moves.
LEMMA PrintPreserves == ASSUME ConnectInv, PrintAverages, UNCHANGED debug PROVE ConnectInv'
<1>1. CASE chost < Hosts /\ chost' = chost + 1 /\ count' = 0 /\ cpc' = "socket"
           /\ left' = [p \in Ports |-> 0] /\ UNCHANGED <<sock, port>>
  <2>1. \A p \in Ports : left'[p] = 0
    BY <1>1
  <2>2. left' \in [Ports -> 0..TimeWait]
    BY <1>1, PortAssumption
  <2>3. ConnectTypeOK'
    <3>1. chost' \in 1..Hosts /\ count' \in 0..TestCount
      BY <1>1, Counters DEF ConnectInv
    <3> QED BY <1>1, <2>2, <3>1 DEF ConnectInv, ConnectTypeOK
  <2>4. Counting' /\ Elapsed' /\ NeverOutOfPorts'
    BY <1>1, Counters DEF ConnectInv, Counting, Elapsed, NeverOutOfPorts
  <2>5. Staggered'
    BY <2>1 DEF Staggered
  <2> QED BY <2>3, <2>4, <2>5 DEF ConnectInv
<1>2. CASE cpc' = "exited" /\ UNCHANGED <<chost, count, left, sock, port>>
  BY <1>2 DEF ConnectInv, ConnectTypeOK, Counting, Staggered, Elapsed, NeverOutOfPorts
<1> QED BY <1>1, <1>2 DEF PrintAverages

\* The steps that leave the ports alone.
LEMMA OthersPreserve ==
    ASSUME ConnectInv, ConnectInitTest \/ Socket \/ PeerCloses, UNCHANGED debug PROVE ConnectInv'
<1>1. UNCHANGED <<chost, count, port, left>>
  BY DEF ConnectInitTest, Socket, PeerCloses
<1>2. CASE ConnectInitTest
  BY <1>1, <1>2 DEF ConnectInitTest, ConnectInv, ConnectTypeOK, Counting, Staggered, Elapsed, NeverOutOfPorts
<1>3. CASE Socket
  BY <1>1, <1>3 DEF Socket, ConnectInv, ConnectTypeOK, Counting, Staggered, Elapsed, NeverOutOfPorts
<1>4. CASE PeerCloses
  BY <1>1, <1>4 DEF PeerCloses, ConnectInv, ConnectTypeOK, Counting, Staggered, Elapsed, NeverOutOfPorts
<1> QED BY <1>2, <1>3, <1>4

LEMMA Invariance == ConnectSpec => []ConnectInv
<1>1. ConnectInv /\ [ConnectNext]_cvars => ConnectInv'
  <2>1. SUFFICES ASSUME ConnectInv, [ConnectNext]_cvars PROVE ConnectInv'
    OBVIOUS
  <2>2. CASE ConnectNext
    BY <2>1, <2>2, ConnectPreserves, UsleepPreserves, ClosePreserves, PrintPreserves,
       OthersPreserve DEF ConnectNext
  <2>3. CASE UNCHANGED cvars
    BY <2>1, <2>3
    DEF cvars, ConnectInv, ConnectTypeOK, Counting, Staggered, Elapsed, NeverOutOfPorts
  <2> QED BY <2>1, <2>2, <2>3
<1> QED BY InitEstablishes, <1>1, PTL DEF ConnectSpec

\* Type correctness: the counters of the loop stay within TEST_COUNT.
THEOREM TypeCorrect == ConnectSpec => []ConnectTypeOK
<1>1. ConnectInv => ConnectTypeOK
  BY DEF ConnectInv
<1> QED BY Invariance, <1>1, PTL

\* However many samples are taken, with more ports than sleeps in a TIME_WAIT no
\* connect of connect_disconnect.c fails for lack of a local port.
THEOREM PortsSuffice == ConnectSpec => []NeverOutOfPorts
<1>1. ConnectInv => NeverOutOfPorts
  BY DEF ConnectInv
<1> QED BY Invariance, <1>1, PTL
===============================================================================
