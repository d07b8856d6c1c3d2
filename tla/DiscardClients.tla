--------------------------- MODULE DiscardClients ---------------------------
(***************************************************************************)
(* The clients of the discard service, one of which is started:            *)
(* peak_bandwidth.c, or connect_disconnect.c in either of its builds.      *)
(***************************************************************************)
EXTENDS PeakBandwidth, ConnectDisconnect

VARIABLE program   \* which of the two it is

clientvars == <<program, vars, cvars>>

\* The variables of the program that is not started keep one fixed value.
ClientInit ==
    /\ program \in {"peak_bandwidth", "connect_disconnect"}
    /\ Init /\ ConnectInit
    /\ program = "peak_bandwidth" => debug = "undefined" /\ port = CHOOSE p \in Ports : TRUE

Peak(action) == program = "peak_bandwidth" /\ action /\ UNCHANGED <<program, cvars>>
Connections(action) == program = "connect_disconnect" /\ action /\ UNCHANGED <<program, vars>>

ClientNext == Peak(Next) \/ Connections(ConnectNext)

ClientSpec == ClientInit /\ [][ClientNext]_clientvars
-----------------------------------------------------------------------------
ClientTypeOK == TypeOK /\ ConnectTypeOK
=============================================================================
