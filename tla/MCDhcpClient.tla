---------------------------- MODULE MCDhcpClient ----------------------------
(***************************************************************************)
(* Small instances of DhcpClient.  Addresses are 1 and 2, servers 11 and   *)
(* 12, and an int has 7 bits (Half = 64), so that 127 is the infinite      *)
(* lease and a deadline of 64 or more reads as negative.                   *)
(***************************************************************************)
EXTENDS DhcpClient

Msg(ty, a, s, l, x, y) ==
    [type |-> ty, yiaddr |-> a, src |-> s, sid |-> s, lease |-> l, t1 |-> x, t2 |-> y]

Nak == Msg("NAK", NoAddr, 11, Absent, Absent, Absent)

(* A BOOTP reply has neither a message type nor DHCP options. *)
Bootp == [Msg("none", 1, 12, Absent, Absent, Absent) EXCEPT !.sid = Absent]

(***************************************************************************)
(* Servers that name T1 < T2 < lease in each message with a lease, or at   *)
(* least a lease whose defaults fit.  What is left of the lease of 66 when *)
(* T2 is over may or may not fit an int, as the clock was set.             *)
(***************************************************************************)
ConsistentMsgs ==
    {Msg("OFFER", 1, 11, 8, 4, 6), Msg("ACK", 1, 11, 8, Malformed, 6),
     Msg("ACK", 1, 11, 4, 2, 3), Msg("ACK", 1, 11, 66, 2, 3), Nak, Bootp}

(* Two servers, one of which grants an infinite lease. *)
TwoServers ==
    {Msg("OFFER", 1, 11, 4, 2, 3), Msg("OFFER", 2, 12, 4, 2, 3),
     Msg("ACK", 1, 11, 4, 2, 3), Msg("ACK", 2, 12, Infinite, 2, 3), Nak}

(* A server that shortens the lease and leaves T1 and T2 to the client. *)
ShrinkingMsgs ==
    {Msg("OFFER", 1, 11, 16, Absent, Absent), Msg("ACK", 1, 11, 16, Absent, Absent),
     Msg("ACK", 1, 11, 8, Absent, Absent)}

BothWays == {-1, 1}
============================================================================
