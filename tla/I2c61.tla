------------------------------- MODULE I2c61 -------------------------------
(***************************************************************************)
(* The I2C adapter of the PL1029: transfers of i2c-core.c, the algorithm   *)
(* i2c-algo-61.c and the interrupt and timeout handling of i2c-adap-61.c.  *)
(*                                                                         *)
(* Every command (address, data byte, stop) is written to the register MCR *)
(* and the process then waits for an interrupt or for a timer.  Both count *)
(* irq_done up, the process counts it down; nothing ties an interrupt to   *)
(* the command it answers.                                                 *)
(*                                                                         *)
(* The kernel is uniprocessor: the interrupt handler runs to its end       *)
(* before anything else does, the timer handler is interrupted only by it, *)
(* and the process runs when neither has work.  The semaphore adap->bus    *)
(* makes the transfers sequential, so there is one process.                *)
(***************************************************************************)
EXTENDS Integers, Sequences

CONSTANTS
  Transfers, \* calls of clients: [via |-> entry point, msgs |-> messages]
  Retries    \* adap->retries

Messages == [rd : BOOLEAN, len : Nat]

ASSUME TransfersAssumption ==
  /\ Transfers \subseteq [via : {"master_send", "master_recv", "transfer"},
                          msgs : Seq(Messages)]
  /\ \A x \in Transfers :
       /\ Len(x.msgs) > 0
       /\ x.via # "transfer" => Len(x.msgs) = 1
       /\ x.via = "master_send" => ~x.msgs[1].rd
       /\ x.via = "master_recv" => x.msgs[1].rd
ASSUME RetriesAssumption == Retries \in Nat

VARIABLES
  xfer,    \* the transfer under way, or the last one
  pc,      \* its command: "addr", "retry" (the stop after a failed address),
           \* "data" or "stop"; "idle" between transfers
  step,    \* of the command: "write", "wait", "read" or "clear"
  i,       \* index of the message
  tries,   \* addresses tried for this message
  n,       \* bytes counted for this message
  rwcount, \* bytes counted for the messages before
  ret,     \* what master_xfer has returned
  verdict, \* the status wait_for_pin has returned ...
  vown,    \* ... and whether it answers the command
  irqdone, \* irq_done
  status,  \* the adapter's status: an MCR_STATUS, or "ZERO"
  sown,    \* status was read from MCR after the last command was completed
  armed,   \* wait_timeout is pending
  expire,  \* i2c_timeout_handler is between its test and atomic_inc
  bus,     \* the command the controller is working on, or "none"
  last,    \* the last command written to MCR
  mcr,     \* status in MCR
  irq,     \* an interrupt is pending
  acked,   \* history: data bytes the slave has acknowledged in this transfer ...
  refused, \* ... and the ones sent to it that it has not
  late     \* history: the timer has expired

callVars == <<xfer, pc, step, i, tries, n, rwcount, ret, verdict, vown>>
adapVars == <<irqdone, status, sown, armed, expire>>
busVars  == <<bus, last, mcr, irq, acked, refused>>
vars == <<callVars, adapVars, busVars, late>>

msg == xfer.msgs[i]

Init ==
  /\ xfer \in Transfers
  /\ pc = "idle" /\ step = "write"
  /\ i = 1 /\ tries = 0 /\ n = 0 /\ rwcount = 0 /\ ret = 0
  /\ verdict = "ZERO" /\ vown = FALSE
  /\ irqdone = 0 /\ status = "ZERO" /\ sown = FALSE
  /\ armed = FALSE /\ expire = FALSE
  /\ bus = "none" /\ last = "none" /\ mcr = "ZERO" /\ irq = FALSE
  /\ acked = 0 /\ refused = 0 /\ late = FALSE

ProcessRuns == ~irq /\ ~expire

----------------------------------------------------------------------------
(* Transfers *)

Start(x) ==
  /\ ProcessRuns /\ pc = "idle"
  /\ xfer' = x
  /\ pc' = "addr" /\ i' = 1 /\ tries' = 0 /\ n' = 0 /\ rwcount' = 0
  /\ acked' = 0 /\ refused' = 0
  /\ UNCHANGED <<step, ret, verdict, vown, adapVars, bus, last, mcr, irq, late>>

\* No retry left: master_xfer returns -EREMOTEIO.
GiveUp ==
  /\ ProcessRuns /\ pc = "addr" /\ step = "write" /\ tries = Retries
  /\ pc' = "idle" /\ ret' = -1
  /\ UNCHANGED <<xfer, step, i, tries, n, rwcount, verdict, vown, adapVars,
                 busVars, late>>

(* Mutant of Command: the timer of a stop command is not started. *)
CommandUntimed ==
  /\ ProcessRuns /\ pc # "idle" /\ step = "write"
  /\ pc = "addr" => tries < Retries
  /\ last' = IF pc = "retry" THEN "stop" ELSE pc
  /\ bus' = last' /\ mcr' = "ZERO"
  /\ armed' = (last' # "stop") /\ sown' = FALSE
  /\ step' = "wait"
  /\ UNCHANGED <<xfer, pc, i, tries, n, rwcount, ret, verdict, vown, irqdone,
                 status, expire, irq, acked, refused, late>>

\* Write the command to MCR and start the timer.
Command ==
  /\ ProcessRuns /\ pc # "idle" /\ step = "write"
  /\ pc = "addr" => tries < Retries
  /\ last' = IF pc = "retry" THEN "stop" ELSE pc
  /\ bus' = last' /\ mcr' = "ZERO"
  /\ armed' = TRUE /\ sown' = FALSE
  /\ step' = "wait"
  /\ UNCHANGED <<xfer, pc, i, tries, n, rwcount, ret, verdict, vown, irqdone,
                 status, expire, irq, acked, refused, late>>

(* Mutant of Woken: irq_done is not counted down. *)
WokenKeepsCount ==
  /\ ProcessRuns /\ step = "wait" /\ irqdone > 0
  /\ armed' = FALSE
  /\ step' = "read"
  /\ UNCHANGED <<xfer, pc, i, tries, n, rwcount, ret, verdict, vown, irqdone,
                 status, sown, expire, busVars, late>>

\* i2c_wait_for_pin goes on: stop the timer, count irq_done down ...
Woken ==
  /\ ProcessRuns /\ step = "wait" /\ irqdone > 0
  /\ armed' = FALSE
  /\ irqdone' = irqdone - 1
  /\ step' = "read"
  /\ UNCHANGED <<xfer, pc, i, tries, n, rwcount, ret, verdict, vown, status,
                 sown, expire, busVars, late>>

\* ... read the status ...
ReadStatus ==
  /\ ProcessRuns /\ step = "read"
  /\ verdict' = status /\ vown' = sown
  /\ step' = "clear"
  /\ UNCHANGED <<xfer, pc, i, tries, n, rwcount, ret, adapVars, busVars, late>>

\* ... and clear it.
ClearStatus ==
  /\ ProcessRuns /\ step = "clear"
  /\ status' = "ZERO" /\ sown' = FALSE
  /\ step' = "write"
  /\ UNCHANGED <<xfer, verdict, vown, irqdone, armed, expire, busVars, late>>

\* The message is over with m bytes counted: on to the next one, or stop.
NextMessage(m) ==
  /\ rwcount' = rwcount + m
  /\ n' = 0 /\ tries' = 0
  /\ IF i < Len(xfer.msgs) THEN i' = i + 1 /\ pc' = "addr"
                           ELSE UNCHANGED i /\ pc' = "stop"

(* Mutant of Addressed: the stop after a failed address is left out. *)
AddressedNoStop ==
  /\ pc = "addr" /\ ClearStatus
  /\ \/ /\ verdict # "ACK"
        /\ tries' = tries + 1 /\ UNCHANGED <<pc, i, n, rwcount>>
     \/ /\ verdict = "ACK" /\ msg.len > 0
        /\ pc' = "data" /\ UNCHANGED <<i, tries, n, rwcount>>
     \/ verdict = "ACK" /\ msg.len = 0 /\ NextMessage(0)
  /\ UNCHANGED ret

\* try_address
Addressed ==
  /\ pc = "addr" /\ ClearStatus
  /\ \/ /\ verdict # "ACK"
        /\ pc' = "retry" /\ UNCHANGED <<i, tries, n, rwcount>>
     \/ /\ verdict = "ACK" /\ msg.len > 0
        /\ pc' = "data" /\ UNCHANGED <<i, tries, n, rwcount>>
     \/ verdict = "ACK" /\ msg.len = 0 /\ NextMessage(0)
  /\ UNCHANGED ret

Retry ==
  /\ pc = "retry" /\ ClearStatus
  /\ pc' = "addr" /\ tries' = tries + 1
  /\ UNCHANGED <<i, n, rwcount, ret>>

(* Mutant of Counted: a byte that is not acknowledged is counted always. *)
CountedAlways(rd, ack) == n + 1

\* i2c_readbytes counts a byte when it is acknowledged, i2c_sendbytes when it
\* is written.
Counted(rd, ack) == IF rd /\ ~ack THEN n ELSE n + 1

DataByte ==
  /\ pc = "data" /\ ClearStatus
  /\ LET ack == verdict = "ACK"
         m   == Counted(msg.rd, ack)
     IN  IF ack /\ m < msg.len
         THEN n' = m /\ UNCHANGED <<pc, i, tries, rwcount>>
         ELSE NextMessage(m)
  /\ UNCHANGED ret

Stopped ==
  /\ pc = "stop" /\ ClearStatus
  /\ pc' = "idle" /\ ret' = rwcount
  /\ UNCHANGED <<i, tries, n, rwcount>>

\* What the client is told: master_send and master_recv take 1 for the number
\* of messages.
Result == IF xfer.via # "transfer" /\ ret = 1 THEN msg.len ELSE ret

----------------------------------------------------------------------------
(* Interrupts *)

\* i2c_handler
Handler ==
  /\ irq
  /\ irq' = FALSE
  /\ IF irqdone = 0
     THEN status' = mcr /\ sown' = (mcr # "ZERO") /\ irqdone' = 1
     ELSE UNCHANGED <<status, sown, irqdone>>
  /\ UNCHANGED <<callVars, armed, expire, bus, last, mcr, acked, refused,
                 late>>

\* i2c_timeout_handler: the test and the new status ...
Expire ==
  /\ armed /\ ~irq /\ ~expire
  /\ armed' = FALSE /\ late' = TRUE
  /\ IF irqdone = 0
     THEN status' = "ERR" /\ sown' = FALSE /\ expire' = TRUE
     ELSE UNCHANGED <<status, sown, expire>>
  /\ UNCHANGED <<callVars, irqdone, busVars>>

\* ... and the count.
ExpireCount ==
  /\ expire /\ ~irq
  /\ irqdone' = irqdone + 1
  /\ expire' = FALSE
  /\ UNCHANGED <<callVars, status, sown, armed, busVars, late>>

\* The controller finishes its command.
Complete(st) ==
  /\ bus # "none"
  /\ bus' = "none" /\ mcr' = st /\ irq' = TRUE
  /\ acked' = IF bus = "data" /\ st = "ACK" THEN acked + 1 ELSE acked
  /\ refused' = IF bus = "data" /\ st # "ACK" /\ ~msg.rd THEN refused + 1
                                                        ELSE refused
  /\ UNCHANGED <<callVars, adapVars, last, late>>

----------------------------------------------------------------------------

ProcessStep ==
  \/ GiveUp \/ Command \/ Woken \/ ReadStatus
  \/ Addressed \/ Retry \/ DataByte \/ Stopped

Next ==
  \/ \E x \in Transfers : Start(x)
  \/ ProcessStep
  \/ Handler \/ Expire \/ ExpireCount
  \/ \E st \in {"ACK", "NAK"} : Complete(st)

Spec == Init /\ [][Next]_vars

\* The processor goes on and timers expire; nothing is assumed of the
\* controller or of the slave.
Fairness ==
  WF_vars(ProcessStep) /\ WF_vars(Handler) /\ WF_vars(Expire)
    /\ WF_vars(ExpireCount)

FairSpec == Spec /\ Fairness

----------------------------------------------------------------------------
(* Properties *)

Statuses == {"ZERO", "ACK", "NAK", "ERR"}

FlagsOK ==
  /\ vown \in BOOLEAN /\ sown \in BOOLEAN
  /\ armed \in BOOLEAN /\ expire \in BOOLEAN
  /\ irq \in BOOLEAN /\ late \in BOOLEAN

DataOK ==
  /\ xfer \in Transfers
  /\ pc \in {"idle", "addr", "retry", "data", "stop"}
  /\ step \in {"write", "wait", "read", "clear"}
  /\ i \in 1 .. Len(xfer.msgs)
  /\ tries \in 0 .. Retries
  /\ n \in Nat /\ rwcount \in Nat /\ ret \in Nat \cup {-1}
  /\ verdict \in Statuses
  /\ irqdone \in 0 .. 2 /\ status \in Statuses
  /\ bus \in {"none", "addr", "data", "stop"}
  /\ last \in {"none", "addr", "data", "stop"}
  /\ mcr \in {"ZERO", "ACK", "NAK"}
  /\ acked \in Nat /\ refused \in Nat

TypeOK == FlagsOK /\ DataOK

\* "until we get an interrupt from the controller telling us that the
\* transaction we requested in complete": an acknowledgement the process acts
\* upon was given to the command it has written.
AckIsOwn ==
  pc \in {"addr", "data"} /\ step = "clear" /\ verdict = "ACK" => vown

\* Without a timeout every status the process acts upon is the answer to its
\* own command: no interrupt is lost, counted twice or left for the next
\* command.
AnswerIsOwnUnlessLate == step = "clear" => vown \/ late

\* A process that waits will be woken: the timer is pending, or it has just
\* expired, or irq_done is set already.
WaiterHasTimer == step = "wait" => armed \/ expire \/ irqdone > 0

\* Between transfers the bus has been given up by a stop command, after every
\* error path; without a timeout the stop is complete and no interrupt is left
\* over.
BusReleased ==
  pc = "idle" => /\ last \in {"none", "stop"}
                 /\ late \/ (bus = "none" /\ ~irq /\ irqdone = 0)

\* Without a timeout master_xfer returns, over all its messages, exactly the
\* bytes the slave has acknowledged and the bytes sent to it that it has
\* refused, which i2c_sendbytes counts before it looks at the answer.
CountIsTrue ==
  pc = "idle" /\ ret >= 0 /\ ~late => ret = acked + refused

\* "if everything went ok (i.e. 1 msg transmitted), return #bytes
\* transmitted, else error code"
BytesTransmitted ==
  pc = "idle" /\ ret >= 0 /\ ~late /\ xfer.via # "transfer" => Result = acked

\* Every transfer returns, whatever the slave does.
TransferEnds == pc # "idle" ~> pc = "idle"
=============================================================================
