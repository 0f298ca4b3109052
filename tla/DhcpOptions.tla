---------------------------- MODULE DhcpOptions ----------------------------
(***************************************************************************)
(* The option store of dhcpcd (client.c: DhcpOptions, parseDhcpMsgRecv,    *)
(* releaseDhcpOptions) and its deadline arithmetic.  Only the options that *)
(* steer the state machine are kept: the message type, the server          *)
(* identifier, the lease time, T1 and T2.                                  *)
(*                                                                         *)
(* An option is an integer; Absent says the option is not there (a NULL    *)
(* DhcpOptions.val[i]) and Malformed that it was sent with a length other  *)
(* than four.                                                              *)
(***************************************************************************)
EXTENDS Integers

CONSTANTS
    Half,           \* 2^31 in the program: int is 32 bits wide
    LeaseTime       \* the -l argument, used when the server names no lease

Word == 2 * Half

(* 0xffffffff, in an option: a lease without end *)
Infinite == Word - 1

ASSUME HalfAssumption == Half \in Nat \ {0}
ASSUME LeaseTimeAssumption == LeaseTime \in 1 .. Infinite

Absent == -1
Malformed == -2

OptionVal == {Absent, Malformed} \cup (0 .. Infinite)

MsgType == {"none", "OFFER", "ACK", "NAK"}

(***************************************************************************)
(* A message of a DHCP server, as far as the client looks at it.           *)
(***************************************************************************)
Message(Addrs, Servers) ==
    [type : MsgType, yiaddr : Addrs, src : Servers, sid : Servers \cup {Absent},
     lease : OptionVal, t1 : OptionVal, t2 : OptionVal]

(***************************************************************************)
(* releaseDhcpOptions: every option is freed and forgotten.                *)
(***************************************************************************)
NoOptions ==
    [type |-> "none", sid |-> Absent,
     lease |-> Absent, t1 |-> Absent, t2 |-> Absent]

(* What the store can hold: a malformed option never stays. *)
Options(Servers) ==
    [type : MsgType, sid : Servers \cup {Absent}, lease : {Absent} \cup (0 .. Infinite),
     t1 : {Absent} \cup (0 .. Infinite), t2 : {Absent} \cup (0 .. Infinite)]

(* An option that is missing, malformed or zero takes its default. *)
Default(v, d) == IF v \in {Absent, Malformed, 0} THEN d ELSE v

(* An option the message does not carry keeps what an earlier one left. *)
Overwrite(old, new) == IF new = Absent THEN old ELSE new

(***************************************************************************)
(* parseDhcpMsgRecv: the options of message m are laid over the options    *)
(* o, then the gaps are filled: a missing or zero lease becomes the        *)
(* client's own LeaseTime, T1 one half and T2 seven eighths of the lease,  *)
(* a missing server identifier the address the message came from.          *)
(***************************************************************************)
parseDhcpMsgRecv(o, m) ==
    LET lease == Default(Overwrite(o.lease, m.lease), LeaseTime)
        sid   == Overwrite(o.sid, m.sid)
    IN  [type  |-> IF m.type = "none" THEN o.type ELSE m.type,
         sid   |-> IF sid = Absent THEN m.src ELSE sid,
         lease |-> lease,
         t1    |-> Default(Overwrite(o.t1, m.t1), lease \div 2),
         t2    |-> Default(Overwrite(o.t2, m.t2), (7 * lease) \div 8)]

(* Mutant of Remaining: the alarm is armed for the whole time again. *)
RemainingOfAll(t, elapsed) == t

(***************************************************************************)
(* "i = ReqSentTime + ntohl(t) - time(NULL)": unsigned arithmetic whose    *)
(* result is read back as a signed int.  elapsed is what time(NULL) says   *)
(* has passed since ReqSentTime.                                           *)
(***************************************************************************)
Remaining(t, elapsed) ==
    LET u == (t - elapsed) % Word
    IN  IF u < Half THEN u ELSE u - Word
============================================================================
