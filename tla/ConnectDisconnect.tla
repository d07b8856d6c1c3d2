-------------------------- MODULE ConnectDisconnect --------------------------
(***************************************************************************)
(* connect_disconnect.c: TestCount times for each of main's hosts, make a  *)
(* socket, time connect, sleep, time close.  The end that closes first     *)
(* keeps the local port in TIME_WAIT; time is counted in sleeps of 1E5 us. *)
(***************************************************************************)
EXTENDS DiscardClient, FiniteSets

CONSTANTS Ports,     \* the ephemeral ports
          TimeWait   \* how long a port stays in TIME_WAIT

\* On Linux: 28232 ports, and 60 s of TIME_WAIT are 600 sleeps.
ASSUME PortAssumption ==
    /\ TimeWait \in Nat \ {0}
    /\ IsFiniteSet(Ports) /\ Cardinality(Ports) > TimeWait

VARIABLES debug,         \* whether this is a build with DEBUG
          cpc,
          chost, count,   \* which call of connect_disconnect, and its loop counter
          sock,          \* the state of the socket, "none" between two samples
          port,          \* the local port of the connection
          left           \* how much longer each port is in TIME_WAIT

cvars == <<debug, cpc, chost, count, sock, port, left>>

ConnectInit ==
    /\ debug \in {"defined", "undefined"}
    /\ cpc = "init_test" /\ chost = 1 /\ count = 0
    /\ sock = "none" /\ port \in Ports /\ left = [p \in Ports |-> 0]

ConnectInitTest ==
    /\ cpc = "init_test"
    /\ cpc' \in {"socket", "failed"}
    /\ UNCHANGED <<chost, count, sock, port, left>>

\* A socket that cannot be made ends the program (after a close(-1)).
Socket ==
    /\ cpc = "socket"
    /\ \/ cpc' = "connect" /\ sock' = "new"
       \/ cpc' = "failed" /\ UNCHANGED sock
    /\ UNCHANGED <<chost, count, port, left>>

Free(p) == left[p] = 0

\* connect: established from a free port; refused, timed out or unreachable;
\* or, without a free port, EADDRNOTAVAIL.
Established(p) == Free(p) /\ sock' = "connected" /\ port' = p
Unconnected ==
    /\ sock' = IF \E p \in Ports : Free(p) THEN "refused" ELSE "no port"
    /\ UNCHANGED port

\* Only a build with DEBUG tests the result: it closes the socket and exits.
ConnectSocket ==
    /\ cpc = "connect"
    /\ \/ cpc' = "usleep" /\ \E p \in Ports : Established(p)
       \/ debug = "undefined" /\ cpc' = "usleep" /\ Unconnected
       \/ debug = "defined" /\ cpc' = "failed" /\ sock' = "none" /\ UNCHANGED port
    /\ UNCHANGED <<chost, count, left>>

\* The service closes or resets the connection: no TIME_WAIT on this side.
PeerCloses ==
    /\ sock = "connected"
    /\ sock' = "closed by peer"
    /\ UNCHANGED <<cpc, chost, count, port, left>>

\* Faulty variant: the loop does not sleep.
DoNotSleep ==
    /\ cpc = "usleep"
    /\ cpc' = "close"
    /\ UNCHANGED <<chost, count, sock, port, left>>

\* usleep sleeps for 1E5 us or more; the time of the other calls is in here too.
Usleep ==
    /\ cpc = "usleep"
    /\ \E d \in 1..TimeWait :
          left' = [p \in Ports |-> IF left[p] > d THEN left[p] - d ELSE 0]
    /\ cpc' = "close"
    /\ UNCHANGED <<chost, count, sock, port>>

\* close, and the two times are added to the totals.
Close ==
    /\ cpc = "close"
    /\ left' = IF sock = "connected" THEN [left EXCEPT ![port] = TimeWait] ELSE left
    /\ sock' = "none"
    /\ count' = count + 1 /\ cpc' = IF More(count + 1) THEN "socket" ELSE "print"
    /\ UNCHANGED <<chost, port>>

\* The averages over TestCount samples, then main's next call or its end.  A
\* port in TIME_WAIT towards one host is free towards another.
PrintAverages ==
    /\ cpc = "print"
    /\ \/ /\ chost < Hosts /\ chost' = chost + 1
          /\ count' = 0 /\ cpc' = "socket" /\ left' = [p \in Ports |-> 0]
       \/ chost = Hosts /\ cpc' = "exited" /\ UNCHANGED <<chost, count, left>>
    /\ UNCHANGED <<sock, port>>

ConnectNext ==
    /\ \/ ConnectInitTest \/ Socket \/ ConnectSocket \/ Usleep \/ Close
       \/ PrintAverages \/ PeerCloses
    /\ UNCHANGED debug

ConnectSpec == ConnectInit /\ [][ConnectNext]_cvars
-----------------------------------------------------------------------------
ConnectTypeOK ==
    /\ debug \in {"defined", "undefined"}
    /\ cpc \in {"init_test", "socket", "connect", "usleep", "close", "print", "exited", "failed"}
    /\ chost \in 1..Hosts /\ count \in 0..TestCount
    /\ sock \in {"none", "new", "connected", "refused", "no port", "closed by peer"}
    /\ port \in Ports /\ left \in [Ports -> 0..TimeWait]

\* Each sample leaves a port in TIME_WAIT and takes another one, yet a sample
\* never fails for lack of a port: the sleep lets at most TimeWait of them pile
\* up, whatever the number of samples.
NeverOutOfPorts == sock # "no port"
-----------------------------------------------------------------------------
(***************************************************************************)
(* The inductive invariant: ports enter TIME_WAIT one per sleep, so no two *)
(* of them have the same time left.                                        *)
(***************************************************************************)
Staggered == \A p, q \in Ports : p # q /\ left[p] > 0 => left[p] # left[q]

\* Before the close at least one sleep has passed since the last one.
Elapsed == cpc = "close" => \A p \in Ports : left[p] < TimeWait

Counting == cpc \in {"init_test", "socket", "connect", "usleep", "close"} => count < TestCount

ConnectInv == ConnectTypeOK /\ Counting /\ Staggered /\ Elapsed /\ NeverOutOfPorts
==============================================================================
