---------------------------- MODULE I2c61Proofs ----------------------------
(***************************************************************************)
(* Proofs about I2c61 for all transfers and any number of retries.         *)
(***************************************************************************)
EXTENDS I2c61, TLAPS

USE RetriesAssumption

(* How far irq_done and the retries can have come.  irq_done reaches 2 only
   when an interrupt falls into the timer handler; a retry is only made while
   one is left. *)
CountsOK ==
  /\ expire => irqdone <= 1
  /\ pc = "retry" \/ (pc = "addr" /\ step # "write") => tries < Retries
  /\ pc \in {"data", "stop"} => 0 < Retries

(* The last command on the bus is the one the process is at, and an address
   that is given up follows a stop. *)
CommandsOK ==
  /\ pc = "idle" => step = "write" /\ last \in {"none", "stop"}
  /\ pc = "addr" /\ step = "write" /\ tries = Retries =>
       last \in {"none", "stop"}
  /\ pc # "idle" /\ step # "write" => last = (IF pc = "retry" THEN "stop" ELSE pc)

(* Before the first timeout a command has one answer, which is with the
   controller, pending, or counted in irq_done. *)
AnswersOK ==
  late \/
  /\ ~expire
  /\ step # "wait" => bus = "none" /\ ~irq /\ irqdone = 0
  /\ step = "wait" =>
       \/ bus # "none" /\ ~irq /\ irqdone = 0
       \/ bus = "none" /\ irq /\ irqdone = 0 /\ mcr # "ZERO"
       \/ bus = "none" /\ ~irq /\ irqdone = 1 /\ sown
  /\ step = "read" => sown
  /\ step = "clear" => vown

XferInv == TypeOK /\ CountsOK /\ CommandsOK /\ WaiterHasTimer /\ AnswersOK
-----------------------------------------------------------------------------
(* A transfer has messages, and each of them a length. *)
LEMMA TransferType ==
    ASSUME NEW x \in Transfers
    PROVE  /\ x.msgs \in Seq(Messages)
           /\ Len(x.msgs) \in Nat /\ 1 <= Len(x.msgs)
<1>1. x.msgs \in Seq(Messages) /\ Len(x.msgs) > 0
  BY TransfersAssumption
<1>2. Len(x.msgs) \in Nat
  BY <1>1
<1> QED
  BY <1>1, <1>2

(* What a byte adds to the count. *)
LEMMA CountedType ==
    ASSUME n \in Nat, NEW rd, NEW ack
    PROVE  Counted(rd, ack) \in Nat
  BY DEF Counted

(* The invariant holds before the first transfer. *)
LEMMA InvInit == Init => XferInv
<1> SUFFICES ASSUME Init PROVE XferInv
  OBVIOUS
<1>1. FlagsOK
  BY Zenon DEF Init, FlagsOK
<1>2. DataOK
  <2>1. 1 \in 1 .. Len(xfer.msgs)
    BY TransferType DEF Init
  <2> QED
    BY <2>1 DEF Init, DataOK, Statuses
<1>3. CountsOK /\ CommandsOK /\ WaiterHasTimer /\ AnswersOK
  BY DEF Init, CountsOK, CommandsOK, WaiterHasTimer, AnswersOK
<1> QED
  BY <1>1, <1>2, <1>3 DEF XferInv, TypeOK

(* Every action keeps the flags Boolean. *)
LEMMA FlagsNext == FlagsOK /\ [Next]_vars => FlagsOK'
<1> SUFFICES ASSUME FlagsOK, [Next]_vars
             PROVE  FlagsOK'
  OBVIOUS
<1> USE DEF FlagsOK, adapVars, busVars
<1>1. CASE \E x \in Transfers : Start(x)
  BY <1>1, Zenon DEF Start
<1>2. CASE GiveUp
  BY <1>2, Zenon DEF GiveUp
<1>3. CASE Command
  BY <1>3, Zenon DEF Command
<1>4. CASE Woken
  BY <1>4, Zenon DEF Woken
<1>5. CASE ReadStatus
  BY <1>5, Zenon DEF ReadStatus
<1>6. CASE ClearStatus
  BY <1>6, Zenon DEF ClearStatus
<1>7. CASE Handler
  <2>1. sown' \in BOOLEAN
    BY <1>7, Zenon DEF Handler
  <2> QED
    BY <1>7, <2>1, Zenon DEF Handler, callVars
<1>8. CASE Expire
  <2>1. sown' \in BOOLEAN /\ expire' \in BOOLEAN
    BY <1>8, Zenon DEF Expire
  <2> QED
    BY <1>8, <2>1, Zenon DEF Expire, callVars
<1>9. CASE ExpireCount
  BY <1>9, Zenon DEF ExpireCount, callVars
<1>10. CASE \E st \in {"ACK", "NAK"} : Complete(st)
  BY <1>10, Zenon DEF Complete, callVars
<1>11. CASE UNCHANGED vars
  BY <1>11, Zenon DEF vars, callVars
<1> QED
  BY <1>1, <1>2, <1>3, <1>4, <1>5, <1>6, <1>7, <1>8, <1>9, <1>10, <1>11, Zenon
     DEF Next, ProcessStep, Addressed, Retry, DataByte, Stopped

(* On to the next message: the index stays within the transfer. *)
LEMMA NextMessageType ==
    ASSUME DataOK, NEW m \in Nat, NextMessage(m), xfer' = xfer
    PROVE  /\ pc' \in {"addr", "stop"}
           /\ i' \in 1 .. Len(xfer'.msgs)
           /\ tries' = 0 /\ n' = 0 /\ rwcount' \in Nat
<1>1. Len(xfer.msgs) \in Nat
  BY TransferType DEF DataOK
<1> QED
  BY <1>1 DEF DataOK, NextMessage

(* Every action keeps the other variables in their sets. *)
LEMMA DataNext == DataOK /\ CountsOK /\ [Next]_vars => DataOK'
<1> SUFFICES ASSUME DataOK, CountsOK, [Next]_vars
             PROVE  DataOK'
  OBVIOUS
<1> USE DEF DataOK, CountsOK
<1>1. ASSUME NEW x \in Transfers, Start(x) PROVE DataOK'
  <2>1. 1 \in 1 .. Len(x.msgs)
    BY TransferType
  <2> QED
    BY <1>1, <2>1 DEF Start, adapVars
<1>2. CASE GiveUp
  BY <1>2 DEF GiveUp, adapVars, busVars
<1>3. CASE Command
  BY <1>3 DEF Command
<1>4. CASE Woken
  BY <1>4 DEF Woken, busVars
<1>5. CASE ReadStatus
  BY <1>5 DEF ReadStatus, adapVars, busVars
<1>6. ASSUME ClearStatus
      PROVE  /\ xfer' = xfer /\ step' = "write" /\ verdict' = verdict
             /\ irqdone' = irqdone /\ status' = "ZERO" /\ bus' = bus
             /\ last' = last /\ mcr' = mcr /\ acked' = acked /\ refused' = refused
  BY <1>6 DEF ClearStatus, busVars
<1>7. CASE Addressed
  <2>1. CASE NextMessage(0)
    BY <1>6, <1>7, <2>1, NextMessageType DEF Addressed, Statuses
  <2>2. CASE pc' \in {"retry", "data"} /\ UNCHANGED <<i, tries, n, rwcount>>
    BY <1>6, <1>7, <2>2 DEF Addressed, Statuses
  <2> QED
    BY <1>7, <2>1, <2>2 DEF Addressed
<1>8. CASE Retry
  BY <1>6, <1>8 DEF Retry, Statuses
<1>9. CASE DataByte
  <2> DEFINE ack == verdict = "ACK"
             m   == Counted(msg.rd, ack)
  <2>1. m \in Nat
    BY CountedType
  <2>2. \/ n' = m /\ UNCHANGED <<pc, i, tries, rwcount>>
        \/ NextMessage(m)
    BY <1>9 DEF DataByte
  <2> HIDE DEF m
  <2>3. CASE NextMessage(m)
    BY <1>6, <1>9, <2>1, <2>3, NextMessageType DEF DataByte, Statuses
  <2>4. CASE n' = m /\ UNCHANGED <<pc, i, tries, rwcount>>
    BY <1>6, <1>9, <2>1, <2>4 DEF DataByte, Statuses
  <2> QED
    BY <2>2, <2>3, <2>4
<1>10. CASE Stopped
  BY <1>6, <1>10 DEF Stopped, Statuses
<1>11. CASE Handler
  BY <1>11 DEF Handler, callVars, Statuses
<1>12. CASE Expire
  BY <1>12 DEF Expire, callVars, busVars, Statuses
<1>13. CASE ExpireCount
  BY <1>13 DEF ExpireCount, callVars, busVars
<1>14. CASE \E st \in {"ACK", "NAK"} : Complete(st)
  BY <1>14 DEF Complete, callVars, adapVars
<1>15. CASE UNCHANGED vars
  BY <1>15 DEF vars, callVars, adapVars, busVars
<1> QED
  BY <1>1, <1>2, <1>3, <1>4, <1>5, <1>7, <1>8, <1>9, <1>10, <1>11, <1>12,
     <1>13, <1>14, <1>15 DEF Next, ProcessStep

(* A step that ends a command leaves what the controller and the interrupts
   own alone. *)
LEMMA Cleared ==
    ASSUME Addressed \/ Retry \/ DataByte \/ Stopped
    PROVE  /\ ~irq /\ ~expire /\ step = "clear" /\ step' = "write"
           /\ UNCHANGED <<xfer, vown, irqdone, armed, expire, bus, last, irq, late>>
  BY DEF Addressed, Retry, DataByte, Stopped, ClearStatus, ProcessRuns, busVars

(* Where a message that is over leads. *)
LEMMA MessageOver ==
    ASSUME NEW m, NextMessage(m)
    PROVE  pc' \in {"addr", "stop"} /\ tries' = 0
  BY DEF NextMessage

(* Where an address and a data byte lead. *)
LEMMA CommandOver ==
    /\ Addressed => /\ pc = "addr"
                    /\ \/ pc' \in {"retry", "data"} /\ tries' = tries
                       \/ pc' \in {"addr", "stop"} /\ tries' = 0
    /\ DataByte  => /\ pc = "data"
                    /\ \/ pc' = "data" /\ tries' = tries
                       \/ pc' \in {"addr", "stop"} /\ tries' = 0
<1>1. ASSUME Addressed
      PROVE  \/ pc' \in {"retry", "data"} /\ tries' = tries
             \/ pc' \in {"addr", "stop"} /\ tries' = 0
  BY <1>1, MessageOver DEF Addressed
<1>2. ASSUME DataByte
      PROVE  \/ pc' = "data" /\ tries' = tries
             \/ pc' \in {"addr", "stop"} /\ tries' = 0
  <2> DEFINE m == Counted(msg.rd, verdict = "ACK")
  <2>1. \/ UNCHANGED <<pc, tries>>
        \/ NextMessage(m)
    BY <1>2 DEF DataByte
  <2> HIDE DEF m
  <2> QED
    BY <1>2, <2>1, MessageOver DEF DataByte
<1> QED
  BY <1>1, <1>2 DEF Addressed, DataByte

(* No action exceeds the retries or counts an answer more than twice. *)
LEMMA CountsNext ==
    DataOK /\ CountsOK /\ CommandsOK /\ [Next]_vars => CountsOK'
<1> SUFFICES ASSUME DataOK, CountsOK, CommandsOK, [Next]_vars
             PROVE  CountsOK'
  OBVIOUS
<1> USE DEF DataOK, CountsOK
<1>1. CASE \E x \in Transfers : Start(x)
  BY <1>1 DEF Start, adapVars, CommandsOK
<1>2. CASE GiveUp
  BY <1>2 DEF GiveUp, adapVars
<1>3. CASE Command
  BY <1>3 DEF Command
<1>4. CASE Woken
  BY <1>4 DEF Woken
<1>5. CASE ReadStatus
  BY <1>5 DEF ReadStatus, adapVars
<1>6. CASE Addressed
  BY <1>6, Cleared, CommandOver
<1>7. CASE Retry
  BY <1>7, Cleared DEF Retry
<1>8. CASE DataByte
  BY <1>8, Cleared, CommandOver
<1>9. CASE Stopped
  BY <1>9, Cleared DEF Stopped
<1>10. CASE Handler
  BY <1>10 DEF Handler, callVars
<1>11. CASE Expire
  BY <1>11 DEF Expire, callVars
<1>12. CASE ExpireCount
  BY <1>12 DEF ExpireCount, callVars
<1>13. CASE \E st \in {"ACK", "NAK"} : Complete(st)
  BY <1>13 DEF Complete, callVars, adapVars
<1>14. CASE UNCHANGED vars
  BY <1>14 DEF vars, callVars, adapVars
<1> QED
  BY <1>1, <1>2, <1>3, <1>4, <1>5, <1>6, <1>7, <1>8, <1>9, <1>10, <1>11,
     <1>12, <1>13, <1>14 DEF Next, ProcessStep

(* No action leaves a transfer with another command than a stop. *)
LEMMA CommandsNext ==
    DataOK /\ CountsOK /\ CommandsOK /\ [Next]_vars => CommandsOK'
<1> SUFFICES ASSUME DataOK, CountsOK, CommandsOK, [Next]_vars
             PROVE  CommandsOK'
  OBVIOUS
<1> USE DEF DataOK, CountsOK, CommandsOK
<1>1. CASE \E x \in Transfers : Start(x)
  BY <1>1 DEF Start
<1>2. CASE GiveUp
  BY <1>2 DEF GiveUp, busVars
<1>3. CASE Command
  BY <1>3 DEF Command
<1>4. CASE Woken
  BY <1>4 DEF Woken, busVars
<1>5. CASE ReadStatus
  BY <1>5 DEF ReadStatus, busVars
<1>6. CASE Addressed
  BY <1>6, Cleared, CommandOver
<1>7. CASE Retry
  BY <1>7, Cleared DEF Retry
<1>8. CASE DataByte
  BY <1>8, Cleared, CommandOver
<1>9. CASE Stopped
  BY <1>9, Cleared DEF Stopped
<1>10. CASE Handler \/ Expire \/ ExpireCount
  BY <1>10 DEF Handler, Expire, ExpireCount, callVars, busVars
<1>11. CASE \E st \in {"ACK", "NAK"} : Complete(st)
  BY <1>11 DEF Complete, callVars
<1>12. CASE UNCHANGED vars
  BY <1>12 DEF vars, callVars, busVars
<1> QED
  BY <1>1, <1>2, <1>3, <1>4, <1>5, <1>6, <1>7, <1>8, <1>9, <1>10, <1>11, <1>12
     DEF Next, ProcessStep

(* No action takes the last thing away that can wake a waiting process. *)
LEMMA TimerNext ==
    DataOK /\ CommandsOK /\ WaiterHasTimer /\ [Next]_vars => WaiterHasTimer'
<1> SUFFICES ASSUME DataOK, CommandsOK, WaiterHasTimer, [Next]_vars
             PROVE  WaiterHasTimer'
  OBVIOUS
<1> USE DEF DataOK, CommandsOK, WaiterHasTimer
<1>1. CASE \E x \in Transfers : Start(x)
  BY <1>1 DEF Start
<1>2. CASE GiveUp \/ Command \/ Woken \/ ReadStatus
  BY <1>2 DEF GiveUp, Command, Woken, ReadStatus
<1>3. CASE Addressed \/ Retry \/ DataByte \/ Stopped
  BY <1>3, Cleared
<1>4. CASE Handler
  BY <1>4 DEF Handler, callVars
<1>5. CASE Expire
  BY <1>5 DEF Expire, callVars
<1>6. CASE ExpireCount
  BY <1>6 DEF ExpireCount, callVars
<1>7. CASE \E st \in {"ACK", "NAK"} : Complete(st)
  BY <1>7 DEF Complete, callVars, adapVars
<1>8. CASE UNCHANGED vars
  BY <1>8 DEF vars, callVars, adapVars
<1> QED
  BY <1>1, <1>2, <1>3, <1>4, <1>5, <1>6, <1>7, <1>8 DEF Next, ProcessStep

(* Until a timeout each answer is used once, by the command it answers. *)
LEMMA AnswersNext ==
    DataOK /\ CommandsOK /\ AnswersOK /\ [Next]_vars => AnswersOK'
<1> SUFFICES ASSUME DataOK, CommandsOK, AnswersOK, [Next]_vars
             PROVE  AnswersOK'
  OBVIOUS
<1> USE DEF DataOK, CommandsOK, AnswersOK
<1>1. CASE \E x \in Transfers : Start(x)
  BY <1>1 DEF Start, adapVars
<1>2. CASE GiveUp
  BY <1>2 DEF GiveUp, adapVars, busVars
<1>3. CASE Command
  BY <1>3 DEF Command
<1>4. CASE Woken
  BY <1>4 DEF Woken, busVars
<1>5. CASE ReadStatus
  BY <1>5 DEF ReadStatus, adapVars, busVars
<1>6. CASE Addressed \/ Retry \/ DataByte \/ Stopped
  BY <1>6, Cleared
<1>7. CASE Handler
  BY <1>7 DEF Handler, callVars
<1>8. CASE Expire
  BY <1>8 DEF Expire
<1>9. CASE ExpireCount
  BY <1>9 DEF ExpireCount, callVars, busVars
<1>10. CASE \E st \in {"ACK", "NAK"} : Complete(st)
  BY <1>10 DEF Complete, callVars, adapVars
<1>11. CASE UNCHANGED vars
  BY <1>11 DEF vars, callVars, adapVars, busVars
<1> QED
  BY <1>1, <1>2, <1>3, <1>4, <1>5, <1>6, <1>7, <1>8, <1>9, <1>10, <1>11
     DEF Next, ProcessStep
-----------------------------------------------------------------------------
(* The inductive invariant: types, counts, the order of the commands, a timer
   behind every wait and, until a timeout, one answer per command. *)
THEOREM XferInvariant == Spec => []XferInv
<1>1. XferInv /\ [Next]_vars => XferInv'
  BY FlagsNext, DataNext, CountsNext, CommandsNext, TimerNext, AnswersNext
     DEF XferInv, TypeOK
<1> QED
  BY InvInit, <1>1, PTL DEF Spec

(* Every variable keeps its type: the index of the message stays within the
   transfer, the retries within their number and irq_done within 2. *)
THEOREM TypeCorrect == Spec => []TypeOK
<1>1. XferInv => TypeOK
  BY DEF XferInv
<1> QED
  BY XferInvariant, <1>1, PTL

(* i2c_wait_for_pin never waits without a way to be woken, although the timer
   and the interrupt handler each skip their work when irq_done is set. *)
THEOREM AlwaysTimed == Spec => []WaiterHasTimer
<1>1. XferInv => WaiterHasTimer
  BY DEF XferInv
<1> QED
  BY XferInvariant, <1>1, PTL

(* As long as no timer has expired, the status i2c_wait_for_pin returns is that
   of the command just written. *)
THEOREM OwnAnswers == Spec => []AnswerIsOwnUnlessLate
<1>1. XferInv => AnswerIsOwnUnlessLate
  BY DEF XferInv, AnswersOK, AnswerIsOwnUnlessLate
<1> QED
  BY XferInvariant, <1>1, PTL

(* Whatever the slave does, master_xfer returns with a stop as the last command
   on the bus and, without a timeout, with nothing outstanding. *)
THEOREM BusIsReleased == Spec => []BusReleased
<1>1. XferInv => BusReleased
  BY DEF XferInv, CommandsOK, AnswersOK, BusReleased
<1> QED
  BY XferInvariant, <1>1, PTL
-----------------------------------------------------------------------------
(* The answer to the command under way, as far as it has come: "none" while the
   controller is at work, then the status on its way through MCR and the
   adapter's status to the process. *)
Answer ==
  IF step = "wait" /\ bus = "none" THEN (IF irq THEN mcr ELSE status)
  ELSE IF step = "read" THEN status
  ELSE IF step = "clear" THEN verdict ELSE "none"

(* A data byte that is answered and that the process will count. *)
Uncounted ==
  IF pc = "data" /\ Answer # "none" /\ (Answer = "ACK" \/ ~msg.rd) THEN 1 ELSE 0

Bytes == acked + refused

(* Before the first timeout the bytes counted are the ones acknowledged and the
   ones sent and refused. *)
BytesOK ==
  late \/
  /\ bus # "none" => bus = last
  /\ pc = "data" => msg.len > 0
  /\ pc \in {"addr", "retry"} => n = 0
  /\ pc \in {"addr", "retry", "data"} => rwcount + n = Bytes - Uncounted
  /\ pc = "stop" => rwcount = Bytes
  /\ CountIsTrue

(* A step that moves an answer on its way to the process counts nothing. *)
LEMMA BytesSame ==
    ASSUME DataOK, BytesOK, ~late, UNCHANGED <<xfer, pc, i, n, rwcount, ret>>,
           Bytes' - Uncounted' = Bytes - Uncounted,
           pc \in {"stop", "idle"} => Bytes' = Bytes,
           bus' # "none" => bus' = last'
    PROVE  BytesOK'
<1>1. pc' \in {"addr", "retry", "data"} => rwcount' + n' = Bytes' - Uncounted'
  BY DEF BytesOK
<1>2. pc' = "stop" => rwcount' = Bytes'
  BY DEF BytesOK
<1>3. CountIsTrue' \/ late'
  BY DEF BytesOK, CountIsTrue, Bytes
<1>4. /\ pc' = "data" => msg'.len > 0
      /\ pc' \in {"addr", "retry"} => n' = 0
  BY DEF BytesOK, msg
<1> QED
  BY <1>1, <1>2, <1>3, <1>4 DEF BytesOK

(* A message that is over with m bytes counted. *)
LEMMA BytesOver ==
    ASSUME DataOK, NEW m \in Nat, NextMessage(m), xfer' = xfer, step' = "write",
           Bytes' = Bytes, bus' = "none", rwcount + m = Bytes
    PROVE  BytesOK'
<1>1. Uncounted' = 0
  BY DEF Uncounted, Answer
<1>2. /\ rwcount' = Bytes' /\ rwcount' \in Nat /\ n' = 0
      /\ pc' \in {"addr", "stop"}
  BY DEF NextMessage, DataOK
<1>3. rwcount' + n' = Bytes' - Uncounted'
  BY <1>1, <1>2
<1> QED
  BY <1>2, <1>3 DEF BytesOK, CountIsTrue

(* Every step keeps BytesOK. *)
LEMMA BytesNext == XferInv /\ BytesOK /\ [Next]_vars => BytesOK'
<1> SUFFICES ASSUME XferInv, BytesOK, [Next]_vars, ~late'
             PROVE  BytesOK'
  BY DEF BytesOK
<1>0. DataOK /\ CommandsOK /\ AnswersOK
  BY DEF XferInv, TypeOK
<1>1. ~late
  <2>1. late => late'
    BY Cleared DEF Next, ProcessStep, Start, GiveUp, Command, Woken, ReadStatus, Handler,
                   Expire, ExpireCount, Complete, vars
  <2> QED
    BY <2>1
<1>2. ASSUME NEW x \in Transfers, Start(x) PROVE BytesOK'
  <2>1. /\ pc' = "addr" /\ n' = 0 /\ rwcount' = 0 /\ acked' = 0 /\ refused' = 0
        /\ bus' = bus /\ last' = last
    BY <1>2 DEF Start
  <2>2. Bytes' = 0 /\ Uncounted' = 0
    BY <2>1 DEF Bytes, Uncounted
  <2> QED
    BY <1>1, <2>1, <2>2 DEF BytesOK, CountIsTrue
<1>3. CASE GiveUp
  <2>1. pc' = "idle" /\ ret' = -1 /\ bus' = bus /\ last' = last
    BY <1>3 DEF GiveUp, busVars
  <2> QED
    BY <1>1, <2>1 DEF BytesOK, CountIsTrue
<1>4. CASE Command
  <2>1. /\ step = "write" /\ step' = "wait" /\ bus' = last' /\ Bytes' = Bytes
        /\ UNCHANGED <<xfer, pc, i, n, rwcount, ret>>
        /\ last' # "none"
    BY <1>0, <1>4 DEF Command, DataOK, Bytes
  <2>2. Uncounted = 0 /\ Uncounted' = 0
    BY <2>1 DEF Uncounted, Answer
  <2> QED
    BY <1>0, <1>1, <2>1, <2>2, BytesSame
<1>5. CASE Woken
  <2>1. /\ step = "wait" /\ irqdone > 0 /\ ~irq /\ step' = "read"
        /\ UNCHANGED <<xfer, pc, i, n, rwcount, ret, acked, refused, bus, last, status>>
    BY <1>5 DEF Woken, ProcessRuns, busVars
  <2>2. bus = "none"
    BY <1>0, <1>1, <2>1 DEF AnswersOK
  <2>3. Answer' = Answer
    BY <2>1, <2>2 DEF Answer
  <2>4. Uncounted' = Uncounted
    BY <2>1, <2>3 DEF Uncounted, msg
  <2> QED
    BY <1>0, <1>1, <2>1, <2>2, <2>4, BytesSame DEF Bytes
<1>6. CASE ReadStatus
  <2>1. /\ step = "read" /\ step' = "clear" /\ verdict' = status
        /\ UNCHANGED <<xfer, pc, i, n, rwcount, ret, acked, refused, bus, last>>
    BY <1>6 DEF ReadStatus, busVars
  <2>2. Answer' = Answer
    BY <2>1 DEF Answer
  <2>3. Uncounted' = Uncounted /\ bus = "none"
    BY <1>0, <1>1, <2>1, <2>2 DEF Uncounted, AnswersOK, msg
  <2> QED
    BY <1>0, <1>1, <2>1, <2>3, BytesSame DEF Bytes
<1>7. ASSUME ClearStatus
      PROVE  /\ step = "clear" /\ step' = "write" /\ xfer' = xfer /\ Bytes' = Bytes
             /\ bus = "none" /\ bus' = "none" /\ Uncounted' = 0 /\ Answer = verdict
  <2>1. step = "clear" /\ step' = "write" /\ UNCHANGED <<xfer, acked, refused, bus>>
    BY <1>7 DEF ClearStatus, busVars
  <2> QED
    BY <1>0, <1>1, <2>1 DEF AnswersOK, Uncounted, Answer, Bytes
<1>8. CASE Addressed
  <2>1. /\ pc = "addr" /\ ClearStatus /\ n = 0 /\ Uncounted = 0
        /\ rwcount \in Nat /\ Bytes \in Nat
    BY <1>0, <1>1, <1>8 DEF Addressed, Uncounted, BytesOK, DataOK, Bytes
  <2>2. rwcount = Bytes
    BY <1>1, <2>1 DEF BytesOK
  <2>3. CASE pc' \in {"retry", "data"} /\ UNCHANGED <<i, n, rwcount>> /\ (pc' = "data" => msg.len > 0)
    <3>1. rwcount' + n' = Bytes' - Uncounted' /\ msg' = msg
      BY <1>7, <2>1, <2>2, <2>3 DEF msg
    <3> QED
      BY <1>7, <2>1, <2>3, <3>1 DEF BytesOK, CountIsTrue
  <2>4. CASE NextMessage(0)
    BY <1>0, <1>7, <2>1, <2>2, <2>4, BytesOver
  <2> QED
    BY <1>8, <2>3, <2>4 DEF Addressed
<1>9. CASE Retry
  <2>1. /\ pc = "retry" /\ ClearStatus /\ pc' = "addr" /\ UNCHANGED <<i, n, rwcount>>
    BY <1>9 DEF Retry
  <2>2. Uncounted = 0 /\ n = 0
    BY <1>1, <2>1 DEF Uncounted, BytesOK
  <2>3. rwcount' + n' = Bytes' - Uncounted'
    BY <1>1, <1>7, <2>1, <2>2 DEF BytesOK
  <2> QED
    BY <1>7, <2>1, <2>2, <2>3 DEF BytesOK, CountIsTrue
<1>10. CASE DataByte
  <2> DEFINE ack == verdict = "ACK"
             m == Counted(msg.rd, ack)
  <2>1. pc = "data" /\ ClearStatus /\ msg.len > 0
    BY <1>1, <1>10 DEF DataByte, BytesOK
  <2>2. rwcount \in Nat /\ Bytes \in Nat /\ n \in Nat /\ verdict # "none"
    BY <1>0 DEF DataOK, Bytes, Statuses
  <2>3. Uncounted = IF ack \/ ~msg.rd THEN 1 ELSE 0
    BY <1>7, <2>1, <2>2 DEF Uncounted
  <2>4. m \in Nat
    BY <2>2, CountedType
  <2>5. m = n + Uncounted
    BY <2>2, <2>3 DEF Counted
  <2>6. rwcount + n = Bytes - Uncounted
    BY <1>1, <2>1 DEF BytesOK
  <2>7. \/ ack /\ n' = m /\ UNCHANGED <<pc, i, rwcount>>
        \/ NextMessage(m)
    BY <1>10 DEF DataByte
  <2> HIDE DEF ack, m
  <2>8. Uncounted \in {0, 1}
    BY <2>3
  <2>9. rwcount + m = Bytes
    BY <2>2, <2>4, <2>5, <2>6, <2>8
  <2>10. CASE NextMessage(m)
    BY <1>0, <1>7, <2>1, <2>4, <2>9, <2>10, BytesOver
  <2>11. CASE n' = m /\ UNCHANGED <<pc, i, rwcount>>
    <3>1. rwcount' + n' = Bytes' - Uncounted' /\ msg' = msg
      BY <1>7, <2>1, <2>2, <2>9, <2>11 DEF msg
    <3> QED
      BY <1>7, <2>1, <2>11, <3>1 DEF BytesOK, CountIsTrue
  <2> QED
    BY <2>7, <2>10, <2>11
<1>11. CASE Stopped
  <2>1. pc = "stop" /\ ClearStatus /\ pc' = "idle" /\ ret' = rwcount
    BY <1>11 DEF Stopped
  <2>2. ret' = Bytes'
    BY <1>1, <1>7, <2>1 DEF BytesOK
  <2> QED
    BY <1>7, <2>1, <2>2 DEF BytesOK, CountIsTrue, Bytes
<1>12. CASE Handler
  <2>1. irq /\ ~irq' /\ UNCHANGED <<xfer, pc, step, i, n, rwcount, ret, verdict, acked, refused, bus, last>>
    BY <1>12 DEF Handler, callVars
  <2>2. step = "wait" /\ bus = "none" /\ irqdone = 0
    BY <1>0, <1>1, <2>1 DEF AnswersOK
  <2>3. status' = mcr
    BY <1>12, <2>2 DEF Handler
  <2>4. Uncounted' = Uncounted
    BY <2>1, <2>2, <2>3 DEF Uncounted, Answer, msg
  <2> QED
    BY <1>0, <1>1, <2>1, <2>2, <2>4, BytesSame DEF Bytes
<1>13. CASE Expire \/ ExpireCount
  BY <1>0, <1>1, <1>13 DEF Expire, ExpireCount, AnswersOK
<1>14. ASSUME NEW st \in {"ACK", "NAK"}, Complete(st) PROVE BytesOK'
  <2>1. /\ bus # "none" /\ bus' = "none" /\ mcr' = st /\ irq'
        /\ UNCHANGED <<xfer, pc, step, i, n, rwcount, ret>>
        /\ acked' = IF bus = "data" /\ st = "ACK" THEN acked + 1 ELSE acked
        /\ refused' = IF bus = "data" /\ st # "ACK" /\ ~msg.rd THEN refused + 1 ELSE refused
    BY <1>14 DEF Complete, callVars
  <2>2. step = "wait"
    BY <1>0, <1>1, <2>1 DEF AnswersOK
  <2>3. bus = (IF pc = "retry" THEN "stop" ELSE pc) /\ pc # "idle"
    BY <1>0, <1>1, <2>1, <2>2 DEF CommandsOK, BytesOK
  <2>4. Uncounted = 0 /\ Uncounted' = IF bus = "data" /\ (st = "ACK" \/ ~msg.rd) THEN 1 ELSE 0
    BY <1>0, <2>1, <2>2, <2>3 DEF Uncounted, Answer, DataOK, msg
  <2>5. Bytes' - Uncounted' = Bytes - Uncounted /\ (pc \in {"stop", "idle"} => Bytes' = Bytes)
    BY <1>0, <2>1, <2>3, <2>4 DEF Bytes, DataOK
  <2> QED
    BY <1>0, <1>1, <2>1, <2>5, BytesSame
<1>15. CASE UNCHANGED vars
  <2>1. UNCHANGED <<xfer, pc, step, i, n, rwcount, ret, verdict, acked, refused, bus, last, status,
                  mcr>>
    BY <1>15 DEF vars, callVars, adapVars, busVars
  <2>2. irq' <=> irq
    BY <1>15 DEF vars, busVars
  <2>3. Uncounted' = Uncounted
    BY <2>1, <2>2 DEF Uncounted, Answer, msg
  <2> QED
    BY <1>0, <1>1, <2>1, <2>3, BytesSame DEF Bytes, BytesOK
<1> QED
  BY <1>2, <1>3, <1>4, <1>5, <1>6, <1>8, <1>9, <1>10, <1>11, <1>12, <1>13, <1>14, <1>15
     DEF Next, ProcessStep

(* For every list of messages, every slave and any number of retries: as long as
   no timer expires, master_xfer returns exactly the bytes the slave has
   acknowledged and the bytes sent to it that it has refused. *)
THEOREM CountsAreTrue == Spec => []CountIsTrue
<1>1. Init => BytesOK
  <2> SUFFICES ASSUME Init PROVE BytesOK
    OBVIOUS
  <2>1. pc = "idle" /\ ret = 0 /\ acked = 0 /\ refused = 0 /\ bus = "none"
    BY DEF Init
  <2> QED
    BY <2>1 DEF BytesOK, CountIsTrue
<1>2. XferInv /\ BytesOK /\ [Next]_vars => BytesOK'
  BY BytesNext
<1>3. BytesOK => CountIsTrue
  BY DEF BytesOK, CountIsTrue
<1> QED
  BY <1>1, <1>2, <1>3, XferInvariant, PTL DEF Spec
=============================================================================
