------------------------------ MODULE RoundTrip ------------------------------
(***************************************************************************)
(* network_round_trip.c: tcp_ping sends a payload to an echo service and   *)
(* counts the bytes that come back, over one connection for all sizes and  *)
(* samples, for one host after the other.  recv may return part of the     *)
(* echo, 0 after the peer has closed and -1 after a reset; the loop adds   *)
(* whatever it returns to an int and compares the sum, as unsigned, with   *)
(* the size.                                                               *)
(***************************************************************************)
EXTENDS Integers

CONSTANTS StartSize, MaxSize, SizeStep,   \* START_PAYLOAD_SIZE and so on
          TestCount,                      \* TCP_TEST_COUNT
          Hosts,                          \* how many addresses main pings
          UintModulus                     \* UINT_MAX + 1, scaled

ASSUME SizeAssumption ==
    /\ StartSize \in Nat \ {0} /\ SizeStep \in Nat \ {0}
    /\ MaxSize \in Nat /\ StartSize <= MaxSize
    /\ UintModulus \in Nat /\ MaxSize + 1 < UintModulus
ASSUME CountAssumption == TestCount \in Nat \ {0} /\ Hosts \in Nat \ {0}

VARIABLES pc,      \* the statement the program is at
          host,    \* which call of tcp_ping
          size,    \* send_size and receive_size
          test,    \* test_idx
          total,   \* total_bytes_received
          up,      \* bytes sent that the service has not echoed yet
          down,    \* echoed bytes that recv has not returned yet
          conn,    \* "none", "open", "closed" by the peer, or "reset"
          err      \* the pending error of the socket, reported once

vars == <<pc, host, size, test, total, up, down, conn, err>>

ping == <<host, size, test>>
net == <<up, down, conn, err>>

Min(a, b) == IF a < b THEN a ELSE b

\* The comparison total_bytes_received < receive_size converts to unsigned.
Unsigned(n) == IF n < 0 THEN n + UintModulus ELSE n

Init ==
    /\ pc = "init_test"
    /\ host = 1 /\ size = StartSize /\ test = 0 /\ total = 0
    /\ up = 0 /\ down = 0 /\ conn = "none" /\ err = "none"

(***************************************************************************)
(* The echo service and the network.                                       *)
(***************************************************************************)
Echo ==
    /\ conn = "open" /\ up > 0
    /\ \E n \in 1..up : up' = up - n /\ down' = down + n
    /\ UNCHANGED <<pc, ping, total, conn, err>>

\* The service closes the connection; what it has not echoed is gone.
PeerCloses ==
    /\ conn = "open"
    /\ conn' = "closed" /\ up' = 0
    /\ UNCHANGED <<pc, ping, total, down, err>>

\* A reset, or a timeout in the network: bytes that have not arrived are lost.
PeerResets ==
    /\ conn = "open"
    /\ conn' = "reset" /\ err' = "ECONNRESET" /\ up' = 0
    /\ \E n \in 0..down : down' = n
    /\ UNCHANGED <<pc, ping, total>>
-----------------------------------------------------------------------------
InitTest ==
    /\ pc = "init_test"
    /\ pc' \in {"connect", "failed"}
    /\ UNCHANGED <<ping, total, net>>

\* socket and connect: on failure the program exits.
Connect ==
    /\ pc = "connect"
    /\ \/ pc' = "warm_up" /\ conn' = "open" /\ err' = "none"
       \/ pc' = "failed" /\ UNCHANGED <<conn, err>>
    /\ UNCHANGED <<ping, total, up, down>>

\* send: in full while the peer is there; into the void once it has closed;
\* -1 the first time after a reset, and SIGPIPE after that.
SendResult(n, next) ==
    \/ conn = "open" /\ up' = up + n /\ pc' = next /\ UNCHANGED <<down, conn, err>>
    \/ conn = "closed" /\ pc' = next /\ UNCHANGED net
    \/ /\ conn = "reset" /\ err # "none" /\ err' = "none" /\ pc' = next
       /\ UNCHANGED <<up, down, conn>>
    \/ conn = "reset" /\ err = "none" /\ pc' = "failed" /\ UNCHANGED net

WarmUpSend ==
    /\ pc = "warm_up"
    /\ total' = 0
    /\ SendResult(StartSize, "warm_up_recv")
    /\ UNCHANGED ping

\* Faulty variant: total_bytes_received is not set back for a new sample.
SendWithoutReset ==
    /\ pc = "send"
    /\ UNCHANGED total
    /\ SendResult(size, "recv")
    /\ UNCHANGED ping

Send ==
    /\ pc = "send"
    /\ total' = 0
    /\ SendResult(size, "recv")
    /\ UNCHANGED ping

\* What recv returns: queued bytes first, then the pending error, then 0 at the
\* end of the stream.  With nothing to return on an open connection it blocks.
RecvResult(n) ==
    \/ /\ down > 0 /\ n \in 1..Min(down, size)
       /\ down' = down - n /\ UNCHANGED <<up, conn, err>>
    \/ /\ down = 0 /\ n = 0 /\ (conn = "closed" \/ (conn = "reset" /\ err = "none"))
       /\ UNCHANGED net
    \/ /\ down = 0 /\ n = -1 /\ conn = "reset" /\ err # "none" /\ err' = "none"
       /\ UNCHANGED <<up, down, conn>>

\* Faulty variant: the sample ends after one recv.
RecvOnce(label, next) ==
    /\ pc = label
    /\ IF Unsigned(total) < size
       THEN \E n \in -1..MaxSize : RecvResult(n) /\ total' = total + n /\ pc' = next
       ELSE UNCHANGED <<total, net>> /\ pc' = next
    /\ UNCHANGED ping

\* Faulty variant: the loop test is <=.
RecvOneMore(label, next) ==
    /\ pc = label
    /\ IF Unsigned(total) <= size
       THEN \E n \in -1..MaxSize : RecvResult(n) /\ total' = total + n /\ UNCHANGED pc
       ELSE UNCHANGED <<total, net>> /\ pc' = next
    /\ UNCHANGED ping

\* One turn of while (total_bytes_received < receive_size), or its end.
RecvLoop(label, next) ==
    /\ pc = label
    /\ IF Unsigned(total) < size
       THEN \E n \in -1..MaxSize : RecvResult(n) /\ total' = total + n /\ UNCHANGED pc
       ELSE UNCHANGED <<total, net>> /\ pc' = next
    /\ UNCHANGED ping

WarmUpRecv == RecvLoop("warm_up_recv", "send")
Recv == RecvLoop("recv", "stop")

\* Faulty variant: the size is tested before it is increased.
NextSamplePastMax ==
    /\ pc = "stop"
    /\ \/ /\ test + 1 < TestCount
          /\ test' = test + 1 /\ pc' = "send" /\ UNCHANGED size
       \/ /\ test + 1 = TestCount /\ size <= MaxSize
          /\ test' = 0 /\ size' = size + SizeStep /\ pc' = "send"
       \/ /\ test + 1 = TestCount /\ size > MaxSize
          /\ test' = 0 /\ size' = StartSize /\ pc' = "close"
    /\ UNCHANGED <<host, total, net>>

\* The second clock reading, and the next sample, the next size or the end.
NextSample ==
    /\ pc = "stop"
    /\ \/ /\ test + 1 < TestCount
          /\ test' = test + 1 /\ pc' = "send" /\ UNCHANGED size
       \/ /\ test + 1 = TestCount /\ size + SizeStep <= MaxSize
          /\ test' = 0 /\ size' = size + SizeStep /\ pc' = "send"
       \/ /\ test + 1 = TestCount /\ size + SizeStep > MaxSize
          /\ test' = 0 /\ size' = StartSize /\ pc' = "close"
    /\ UNCHANGED <<host, total, net>>

\* close, and main's next call of tcp_ping or its end.
Close ==
    /\ pc = "close"
    /\ conn' = "none" /\ up' = 0 /\ down' = 0 /\ err' = "none"
    /\ IF host < Hosts THEN host' = host + 1 /\ pc' = "connect"
                       ELSE pc' = "exited" /\ UNCHANGED host
    /\ UNCHANGED <<size, test, total>>

Program ==
    \/ InitTest \/ Connect \/ WarmUpSend \/ WarmUpRecv
    \/ Send \/ Recv \/ NextSample \/ Close

Next == Program \/ Echo \/ PeerCloses \/ PeerResets

\* The program runs when it can, and an echo service that is there answers.
Fairness == WF_vars(Program) /\ WF_vars(Echo)

Spec == Init /\ [][Next]_vars /\ Fairness
-----------------------------------------------------------------------------
Labels == {"init_test", "connect", "warm_up", "warm_up_recv", "send", "recv", "stop",
           "close", "exited", "failed"}

TypeOK ==
    /\ pc \in Labels
    /\ host \in 1..Hosts /\ size \in StartSize..MaxSize /\ test \in 0..(TestCount - 1)
    /\ total \in -1..MaxSize
    /\ up \in 0..MaxSize /\ down \in 0..MaxSize
    /\ conn \in {"none", "open", "closed", "reset"} /\ err \in {"none", "ECONNRESET"}

\* A sample is timed as finished only when the whole echo has arrived and none
\* of it is left to be counted in the next sample.  The one exception is a
\* reset met by the first recv of the sample, whose -1 passes for complete.
SampleIsRoundTrip ==
    pc = "stop" =>
        \/ total = size /\ up = 0 /\ down = 0
        \/ total = -1 /\ conn = "reset"

\* While the peer is there the loop counts exactly, although each recv asks for
\* receive_size bytes and not for the rest of the sample: what has arrived, what
\* is on its way back and what has not been echoed add up to what was sent, so
\* the loop neither takes bytes of another sample nor waits for bytes nobody owes.
NothingLostInFlight ==
    (conn = "open" /\ pc \in {"warm_up_recv", "recv"}) => total + up + down = size

\* While the peer stays, the measurement runs to its end.  (After an orderly
\* close in the middle of a sample recv returns 0 for ever and tcp_ping spins.)
Completes ==
    <>(pc \in {"exited", "failed"} \/ conn \in {"closed", "reset"})
-----------------------------------------------------------------------------
(***************************************************************************)
(* The inductive invariant: what the loop may still receive in each state  *)
(* of the connection.                                                      *)
(***************************************************************************)
Receiving == pc \in {"warm_up_recv", "recv"}

\* Nothing is in flight between two samples, and never more than a sample is.
Balance ==
    /\ conn # "open" => up = 0
    /\ ~ Receiving => up = 0 /\ down = 0
    /\ (Receiving /\ conn = "open") => total + up + down = size
    /\ (Receiving /\ conn # "open") => total + down <= size

\* The count is negative only after a reset whose error has been reported, and
\* by then nothing is queued.
NegativeAfterReset ==
    /\ ((Receiving \/ pc = "stop") /\ total < 0) => (conn = "reset" /\ err = "none")
    /\ (conn = "reset" /\ err = "none") => down = 0

Position ==
    /\ pc \in {"init_test", "connect"} <=> (conn = "none" /\ pc \notin {"exited", "failed"})
    /\ pc \in {"init_test", "connect", "warm_up", "warm_up_recv", "close"} => size = StartSize
    /\ pc = "stop" => total \in {size, -1}

IInv == TypeOK /\ Balance /\ NegativeAfterReset /\ Position
==============================================================================
