---------------------------- MODULE PeakBandwidth ----------------------------
(***************************************************************************)
(* peak_bandwidth.c: TestCount sends of one buffer over one connection, of *)
(* which the shortest is reported as the time of a full send.  send may    *)
(* return less than it was given, when the process is stopped and          *)
(* continued or the connection is lost in the middle, or -1, and nobody    *)
(* looks.  A send ends when its last byte is in the socket's buffer; the   *)
(* network takes at least one unit of time for one unit of data out of it. *)
(***************************************************************************)
EXTENDS DiscardClient

CONSTANTS Size,      \* send_data_byte_size, in units
          SndBuf,    \* what the socket's buffer holds
          MaxDelay   \* by how much a send may take longer than it must

ASSUME SizeAssumption == Size \in Nat /\ SndBuf \in 0..(Size - 1) /\ MaxDelay \in Nat

NoTime == Size + SndBuf + MaxDelay + 1   \* ULLONG_MAX

VARIABLES pc,
          host, idx,       \* which call of tcp_peak_bandwidth, and its loop counter
          conn,            \* "none", "open" or "reset"
          err,             \* the pending error of the socket, reported once
          queued,          \* what is in the socket's buffer
          minTime,         \* min_time
          cut, interrupted \* samples of this host that a lost connection, or a
                           \* stop, kept from being sent in full

vars == <<pc, host, idx, conn, err, queued, minTime, cut, interrupted>>

socket == <<conn, err, queued>>
history == <<cut, interrupted>>

Init ==
    /\ pc = "init_test" /\ host = 1 /\ idx = 0 /\ conn = "none" /\ err = "none" /\ queued = 0
    /\ minTime = NoTime /\ cut = 0 /\ interrupted = 0

InitTest ==
    /\ pc = "init_test"
    /\ pc' \in {"connect", "failed"}
    /\ UNCHANGED <<host, idx, socket, minTime, history>>

\* Faulty variant: min_time starts at 0.
ConnectFromZero ==
    /\ pc = "connect"
    /\ pc' = "send" /\ conn' = "open" /\ minTime' = 0 /\ idx' = 0
    /\ cut' = 0 /\ interrupted' = 0
    /\ UNCHANGED <<host, err, queued>>

\* malloc, socket, connect, each of which ends the program when it fails, and
\* min_time = ULLONG_MAX.
Connect ==
    /\ pc = "connect"
    /\ \/ /\ pc' = "send" /\ conn' = "open" /\ minTime' = NoTime /\ idx' = 0
          /\ cut' = 0 /\ interrupted' = 0
       \/ pc' = "failed" /\ UNCHANGED <<idx, conn, minTime, history>>
    /\ UNCHANGED <<host, err, queued>>

\* The network empties the buffer while memset fills send_data_buffer again.
Drain ==
    /\ conn = "open" /\ queued > 0
    /\ queued' = queued - 1
    /\ UNCHANGED <<pc, host, idx, conn, err, minTime, history>>

\* The connection is reset, or closed and then reset, between two sends.
PeerResets ==
    /\ conn = "open"
    /\ conn' = "reset" /\ err' \in {"ECONNRESET", "EPIPE"} /\ queued' = 0
    /\ UNCHANGED <<pc, host, idx, minTime, history>>

\* A sample that takes the given time, or longer: the minimum and idx++.
Sample(time) ==
    /\ \E t \in time..(time + MaxDelay) : minTime' = IF t < minTime THEN t ELSE minTime
    /\ idx' = idx + 1 /\ pc' = IF More(idx + 1) THEN "send" ELSE "close"
    /\ UNCHANGED host

\* send accepts n units and leaves queued' in the buffer: the rest went out.
Accept(n) ==
    /\ queued' \in 0..SndBuf /\ queued' <= queued + n
    /\ Sample(queued + n - queued')
    /\ UNCHANGED <<conn, err>>

SendFull ==
    /\ pc = "send" /\ conn = "open"
    /\ Accept(Size)
    /\ UNCHANGED history

\* A stop signal interrupts a send that has begun: it returns what it has sent.
SendInterrupted ==
    /\ pc = "send" /\ conn = "open"
    /\ \E n \in 1..(Size - 1) : Accept(n)
    /\ interrupted' = interrupted + 1
    /\ UNCHANGED cut

\* The connection is lost in the middle: send returns what it has accepted and
\* the error stays pending, or reports it if that is nothing.
SendCut ==
    /\ pc = "send" /\ conn = "open"
    /\ conn' = "reset" /\ queued' = 0
    /\ \E n \in 0..(Size - 1) :
          /\ \E t \in 0..(queued + n) : Sample(t)
          /\ err' = IF n > 0 THEN "ECONNRESET" ELSE "none"
    /\ cut' = cut + 1
    /\ UNCHANGED interrupted

\* A send on a lost connection returns the pending error, once.
SendFails ==
    /\ pc = "send" /\ conn = "reset" /\ err = "ECONNRESET"
    /\ Sample(0)
    /\ err' = "none" /\ cut' = cut + 1
    /\ UNCHANGED <<conn, queued, interrupted>>

\* Faulty variant: send is called with MSG_NOSIGNAL.
BrokenPipeIgnored ==
    /\ pc = "send" /\ conn = "reset" /\ err # "ECONNRESET"
    /\ Sample(0)
    /\ err' = "none" /\ cut' = cut + 1
    /\ UNCHANGED <<conn, queued, interrupted>>

\* After that, or at once if the pending error is EPIPE, SIGPIPE.
BrokenPipe ==
    /\ pc = "send" /\ conn = "reset" /\ err # "ECONNRESET"
    /\ pc' = "killed"
    /\ UNCHANGED <<host, idx, socket, minTime, history>>

\* close, free and the printed minimum; main's next call or its end.
CloseAndPrint ==
    /\ pc = "close"
    /\ conn' = "none" /\ err' = "none" /\ queued' = 0
    /\ \/ host < Hosts /\ host' = host + 1 /\ pc' = "connect"
       \/ host = Hosts /\ pc' = "exited" /\ UNCHANGED host
    /\ UNCHANGED <<idx, minTime, history>>

Send == SendFull \/ SendInterrupted \/ SendCut \/ SendFails \/ BrokenPipe

Next == InitTest \/ Connect \/ Send \/ CloseAndPrint \/ Drain \/ PeerResets

Spec == Init /\ [][Next]_vars
-----------------------------------------------------------------------------
TypeOK ==
    /\ pc \in {"init_test", "connect", "send", "close", "exited", "failed", "killed"}
    /\ host \in 1..Hosts /\ idx \in 0..TestCount
    /\ conn \in {"none", "open", "reset"} /\ err \in {"none", "ECONNRESET", "EPIPE"}
    /\ queued \in 0..SndBuf
    /\ minTime \in 0..NoTime /\ cut \in 0..idx /\ interrupted \in 0..idx

\* Although no send is tested, a connection that is lost does not go on being
\* timed: SIGPIPE ends the program two sends later, before anything is printed
\* unless they were the last ones.
LossEndsRun == pc = "close" => cut <= 2

\* Unless a lost connection or a stop signal came in between, the printed time
\* is that of a full send to this host, short by no more than the socket's
\* buffer: what is still in it when send returns has not gone out.
PeakWithinBuffer ==
    pc = "close" /\ cut = 0 /\ interrupted = 0 =>
        minTime \in (Size - SndBuf)..(Size + SndBuf + MaxDelay)
-----------------------------------------------------------------------------
(***************************************************************************)
(* The inductive invariant: what holds from one send to the next.          *)
(***************************************************************************)
\* The loop counter by position, and a socket that is fresh for each host.
Position ==
    /\ pc = "send" => idx < TestCount
    /\ pc = "close" => idx = TestCount
    /\ pc \in {"init_test", "connect"} => conn = "none" /\ err = "none" /\ queued = 0
    /\ pc \in {"send", "close"} => conn # "none"

\* A connection is cut once, and may report one pending error after that.
Losses ==
    pc \in {"send", "close"} =>
        /\ conn = "open" => cut = 0
        /\ conn = "reset" /\ err # "none" => cut <= 1
        /\ cut <= 2

\* The minimum of the samples so far, as long as all of them were full sends.
Minimum ==
    pc \in {"send", "close"} /\ cut = 0 /\ interrupted = 0 =>
        minTime \in IF idx = 0 THEN {NoTime} ELSE (Size - SndBuf)..(Size + SndBuf + MaxDelay)

IInv == TypeOK /\ Position /\ Losses /\ Minimum
==============================================================================
