--------------------------- MODULE SmbcRecProofs ---------------------------
(***************************************************************************)
(* Proofs about SmbcRec for all sizes of buffer, headers, packets and file. *)
(***************************************************************************)
EXTENDS SmbcRec, TLAPS

USE SizesAssumption

(* The buffer holds no more than the file may take, and nothing yet when the
   HTTP header is read. *)
BufferOK ==
  /\ buf_size <= max_size
  /\ pc = "http" => buf_size = 0 /\ done_size = 0 /\ max_size = FileSize

RecInv == TypeOK /\ InStep /\ BufferOK

(* What is left in the buffer before a read: nothing, the beginning of a packet
   header, what came with the HTTP header, or the rest of a short write. *)
LeftOver ==
  /\ pc = "read" =>
       /\ max_size > 0 /\ BufSize > 0
       /\ \/ buf_size = 0
          \/ done_size = 0 /\ buf_size < state_size
          \/ buf_size < BufSize /\ (buf_size < max_size \/ short)
  /\ pc \in {"process", "write"} => buf_size > 0
  /\ pc = "write" => Ahead <= 0 \/ Ahead < state_size

(* The beginning of the last packet is in the file, or in the buffer and due to
   be written; at the end it is in the file, unless SIGHUP has followed upon a
   short write. *)
LastPacket ==
  /\ prev <= offset
  /\ pc = "http" => prev <= written
  /\ pc \in {"read", "process", "write"} =>
       prev <= written \/ prev < written + buf_size
  /\ pc = "rename" \/ (pc = "finish" /\ errcode = 0) =>
       prev <= written \/ (short /\ stop)

FullInv == RecInv /\ LeftOver /\ ErrorHasCause /\ LastPacket
-----------------------------------------------------------------------------
(* The recorder starts in the invariant. *)
LEMMA InvInit == Init => FullInv
<1> SUFFICES ASSUME Init PROVE FullInv
  OBVIOUS
<1>1. FlagsOK
  BY Zenon DEF Init, FlagsOK
<1>2. DataOK
  BY DEF Init, DataOK
<1>3. InStep /\ BufferOK /\ LeftOver /\ ErrorHasCause /\ LastPacket
  BY DEF Init, InStep, BufferOK, LeftOver, ErrorHasCause, LastPacket
<1> QED
  BY <1>1, <1>2, <1>3 DEF FullInv, RecInv, TypeOK

(* Every action keeps the flags Boolean. *)
LEMMA FlagsNext == FlagsOK /\ [Next]_vars => FlagsOK'
<1> SUFFICES ASSUME FlagsOK, [Next]_vars
             PROVE  FlagsOK'
  OBVIOUS
<1> USE DEF FlagsOK
<1>1. CASE Startup \/ Leave \/ Sleep \/ Finish \/ Rename \/ ProcessEnd
  BY <1>1, Zenon DEF Startup, Leave, Sleep, Finish, Rename, ProcessEnd, histVars
<1>2. CASE Record
  BY <1>2, Zenon DEF Record
<1>3. CASE SigHup
  BY <1>3, Zenon DEF SigHup, histVars
<1>4. CASE SkipHttp
  BY <1>4, Zenon DEF SkipHttp
<1>5. CASE Read
  BY <1>5, Zenon DEF Read
<1>6. CASE ProcessHeader
  <2>1. PICK h \in HeaderSizes : garbled' = (h > Ahead)
    BY <1>6, Zenon DEF ProcessHeader
  <2>2. garbled' = TRUE \/ garbled' = FALSE
    BY <2>1
  <2> QED
    BY <1>6, <2>2, Zenon DEF ProcessHeader
<1>7. CASE ProcessPacket
  BY <1>7, Zenon DEF ProcessPacket
<1>8. CASE Write
  <2>1. fault' = fault \/ fault' = TRUE
    BY <1>8, Zenon DEF Write
  <2>2. short' = short \/ \E a, b : short' = (a < b)
    BY <1>8, Zenon DEF Write
  <2>3. short' \in BOOLEAN
    <3>1. ASSUME NEW a, NEW b PROVE (a < b) \in BOOLEAN
      OBVIOUS
    <3> QED
      BY <2>2, <3>1, Zenon
  <2> QED
    BY <1>8, <2>1, <2>3, Zenon DEF Write
<1>9. CASE UNCHANGED vars
  BY <1>9, Zenon DEF vars, histVars
<1> QED
  BY <1>1, <1>2, <1>3, <1>4, <1>5, <1>6, <1>7, <1>8, <1>9, Zenon
     DEF Next, Step, Done

(* The bytes a read may ask for fit the buffer and the file. *)
LEMMA WantedBounds ==
    ASSUME DataOK, BufferOK
    PROVE  /\ Wanted \in Nat
           /\ buf_size + Wanted <= BufSize
           /\ buf_size + Wanted <= max_size
  BY DEF DataOK, BufferOK, Wanted

(* What a write does, if it does not fail. *)
LEMMA WriteCases ==
    ASSUME Write, DataOK
    PROVE  /\ pc = "write"
           /\ UNCHANGED <<stop, asfVars, ends, garbled>>
           /\ \/ \E r \in Nat :
                   /\ 0 < r /\ r <= done_size /\ r <= buf_size
                   /\ short' \/ r = done_size \/ r = buf_size
                   /\ buf_size' = buf_size - r /\ done_size' = done_size - r
                   /\ max_size' = max_size - r /\ written' = written + r
                   /\ \/ max_size - r > 0 /\ pc' = "read" /\ errcode' = -1
                      \/ /\ max_size - r <= 0 \/ stop
                         /\ pc' = "finish" /\ errcode' = 0
                   /\ fault' = fault
              \/ /\ pc' = "finish" /\ errcode' = -1
                 /\ UNCHANGED <<bufVars, written, short>>
                 /\ \/ fault'
                    \/ done_size = 0 \/ buf_size = 0
<1> DEFINE k == MinOf(done_size, buf_size)
<1>1. /\ k \in Nat /\ k <= done_size /\ k <= buf_size
      /\ k = done_size \/ k = buf_size
  BY DEF DataOK, MinOf
<1>2. CASE \E r \in 1 .. k :
              /\ short' = (r < k)
              /\ buf_size' = buf_size - r
              /\ done_size' = done_size - r
              /\ max_size' = max_size - r
              /\ written' = written + r
              /\ More(max_size - r)
              /\ UNCHANGED fault
  <2> HIDE DEF k
  <2>1. PICK r \in 1 .. k :
              /\ short' = (r < k)
              /\ buf_size' = buf_size - r
              /\ done_size' = done_size - r
              /\ max_size' = max_size - r
              /\ written' = written + r
              /\ More(max_size - r)
              /\ UNCHANGED fault
    BY <1>2
  <2>2. r \in Nat /\ 0 < r /\ r <= k /\ (short' \/ r = k)
    <3>1. r \in Nat /\ 0 < r /\ r <= k /\ (r < k \/ r = k)
      BY <1>1
    <3>2. r < k => short'
      BY <2>1, Zenon
    <3> QED
      BY <3>1, <3>2
  <2>3. r <= done_size /\ r <= buf_size
    BY <1>1, <2>2 DEF DataOK
  <2>4. \/ max_size - r > 0 /\ pc' = "read" /\ errcode' = -1
        \/ (max_size - r <= 0 \/ stop) /\ pc' = "finish" /\ errcode' = 0
    BY <2>1, <2>2 DEF More, DataOK
  <2>5. short' \/ r = done_size \/ r = buf_size
    BY <1>1, <2>2
  <2>6. pc = "write" /\ UNCHANGED <<stop, asfVars, ends, garbled>>
    BY DEF Write
  <2> QED
    BY <2>1, <2>2, <2>3, <2>4, <2>5, <2>6
<1>3. CASE /\ k = 0 /\ Fail
           /\ UNCHANGED <<bufVars, written, fault, short>>
  BY <1>1, <1>3 DEF Write, Fail
<1>4. CASE /\ Fail /\ fault' = TRUE
           /\ UNCHANGED <<bufVars, written, short>>
  BY <1>4 DEF Write, Fail
<1> HIDE DEF k
<1> QED
  BY <1>2, <1>3, <1>4 DEF Write, k

(* Every action keeps sizes and offsets in their sets, and parser, buffer and
   file in step. *)
LEMMA SizesNext ==
    DataOK /\ InStep /\ BufferOK /\ [Next]_vars => (DataOK /\ InStep /\ BufferOK)'
<1> SUFFICES ASSUME DataOK, InStep, BufferOK, [Next]_vars
             PROVE  (DataOK /\ InStep /\ BufferOK)'
  OBVIOUS
<1> USE DEF DataOK, InStep, BufferOK
<1>1. CASE Startup \/ Leave \/ Sleep \/ Finish \/ Rename \/ ProcessEnd \/ SigHup
  <2>1. UNCHANGED <<asfVars, bufVars, errcode, written, ends>>
    BY <1>1 DEF Startup, Leave, Sleep, Finish, Rename, ProcessEnd, SigHup, histVars
  <2>2. /\ pc' \in {"start", "main", "http", "read", "process", "write", "finish",
                     "rename", "sleep", "exit"}
        /\ pc' = "http" => pc = "http"
    BY <1>1 DEF Startup, Leave, Sleep, Finish, Rename, ProcessEnd, SigHup
  <2> QED
    BY <2>1, <2>2 DEF asfVars, bufVars
<1>2. CASE Record
  BY <1>2 DEF Record
<1>3. CASE SkipHttp
  <2>1. \/ buf_size' \in HttpRest
        \/ buf_size' = buf_size
    BY <1>3 DEF SkipHttp
  <2>2. buf_size' \in 0 .. BufSize /\ buf_size' <= max_size
    <3>1. ASSUME NEW r \in HttpRest
          PROVE  r \in Nat /\ r < BufSize /\ r < FileSize
      OBVIOUS
    <3>2. max_size = FileSize /\ FileSize \in Nat /\ BufSize \in Nat
      BY <1>3 DEF SkipHttp
    <3>3. CASE buf_size' \in HttpRest
      BY <3>1, <3>2, <3>3
    <3> QED
      BY <2>1, <3>3
  <2>3. pc' \in {"read", "finish"} /\ errcode' \in {0, -1}
    BY <1>3 DEF SkipHttp, More, Fail
  <2> QED
    BY <1>3, <2>2, <2>3 DEF SkipHttp, asfVars
<1>4. CASE Read
  BY <1>4, WantedBounds DEF Read, Fail, asfVars
<1>5. CASE ProcessHeader
  BY <1>5 DEF ProcessHeader, ChangeState
<1>6. CASE ProcessPacket
  <2>1. PICK p \in Payloads, next \in {"FPH", "OPH"} :
          /\ ChangeState(next, IF next = "FPH" THEN FirstHdr ELSE OtherHdr,
                         state_size + p)
          /\ ends' = Append(ends, offset + state_size + p)
    BY <1>6 DEF ProcessPacket
  <2>2. p \in Nat /\ state_size \in Nat
    OBVIOUS
  <2>3. ends' \in Seq(Nat)
    BY <2>1, <2>2
  <2> QED
    BY <1>6, <2>1, <2>2, <2>3 DEF ProcessPacket, ChangeState
<1>7. CASE Write
  <2>1. UNCHANGED <<phase, state_size, hoh, offset, prev, count, ends>>
    BY <1>7 DEF Write, asfVars
  <2>2. CASE UNCHANGED <<bufVars, written>> /\ pc' = "finish" /\ errcode' = -1
    BY <2>1, <2>2 DEF bufVars
  <2>3. ASSUME NEW r \in Nat,
               0 < r, r <= done_size, r <= buf_size,
               buf_size' = buf_size - r, done_size' = done_size - r,
               max_size' = max_size - r, written' = written + r,
               pc' \in {"read", "finish"}, errcode' \in {0, -1}
        PROVE  (DataOK /\ InStep /\ BufferOK)'
    BY <2>1, <2>3
  <2> QED
    BY <1>7, <2>2, <2>3, WriteCases
<1>8. CASE UNCHANGED vars
  BY <1>8 DEF vars, asfVars, bufVars, histVars
<1> QED
  BY <1>1, <1>2, <1>3, <1>4, <1>5, <1>6, <1>7, <1>8 DEF Next, Step, Done
-----------------------------------------------------------------------------
(* Parser, buffer and file stay in step, whatever the stream, the share and
   SIGHUP do. *)
THEOREM RecInvariant == Spec => []RecInv
<1>1. Init => RecInv
  BY InvInit DEF FullInv
<1>2. RecInv /\ [Next]_vars => RecInv'
  BY FlagsNext, SizesNext DEF RecInv, TypeOK
<1> QED
  BY <1>1, <1>2, PTL DEF Spec

(* Every variable keeps its type: neither the buffer nor the file outgrows its
   size. *)
THEOREM TypeCorrect == Spec => []TypeOK
<1>1. RecInv => TypeOK
  BY DEF RecInv
<1> QED
  BY RecInvariant, <1>1, PTL

(* read(2) is never asked for a negative number of bytes or for more than the
   buffer has room for. *)
THEOREM ReadsFit == Spec => []ReadFits
<1>1. RecInv => ReadFits
  BY WantedBounds DEF RecInv, TypeOK, DataOK, BufferOK, ReadFits
<1> QED
  BY RecInvariant, <1>1, PTL

(* The offset of the parser is that of the file plus what is due, and what is
   written plus what may be written is the size of a file. *)
THEOREM StaysInStep == Spec => []InStep
<1>1. RecInv => InStep
  BY DEF RecInv
<1> QED
  BY RecInvariant, <1>1, PTL
-----------------------------------------------------------------------------
(* What a read does. *)
LEMMA ReadCases ==
    ASSUME Read, DataOK, BufferOK
    PROVE  /\ pc = "read"
           /\ UNCHANGED <<stop, asfVars, done_size, max_size, written, ends, short>>
           /\ \/ /\ buf_size' > 0 /\ buf_size' >= buf_size /\ buf_size' \in Nat
                 /\ pc' = "process" /\ UNCHANGED <<errcode, fault>>
              \/ /\ pc' = "finish" /\ errcode' = -1 /\ buf_size' = buf_size
                 /\ fault' \/ (Wanted = 0 /\ fault' = fault)
<1>1. CASE \E r \in 1 .. Wanted : buf_size' = buf_size + r
  <2>1. PICK r \in 1 .. Wanted : buf_size' = buf_size + r
    BY <1>1
  <2>2. buf_size' \in Nat /\ buf_size' > 0 /\ buf_size' >= buf_size
    BY <2>1, WantedBounds DEF DataOK
  <2> QED
    BY <2>2 DEF Read, Fail
<1>2. CASE ~\E r \in 1 .. Wanted : buf_size' = buf_size + r
  BY <1>2 DEF Read, Fail
<1> QED
  BY <1>1, <1>2

(* What skipping the HTTP header does. *)
LEMMA SkipCases ==
    ASSUME SkipHttp, DataOK, BufferOK
    PROVE  /\ pc = "http"
           /\ UNCHANGED <<stop, asfVars, done_size, max_size, written, ends, short>>
           /\ \/ /\ pc' = "read" /\ max_size > 0 /\ BufSize > 0
                 /\ buf_size' \in Nat /\ buf_size' < BufSize /\ buf_size' < max_size
              \/ pc' = "finish" /\ errcode' = 0
              \/ pc' = "finish" /\ errcode' = -1 /\ fault'
<1>1. CASE buf_size' \in HttpRest /\ More(max_size)
  <2>1. buf_size' \in Nat /\ buf_size' < BufSize /\ buf_size' < FileSize
    BY <1>1
  <2>2. max_size = FileSize
    BY DEF SkipHttp, BufferOK
  <2>3. FileSize \in Nat /\ BufSize \in Nat
    OBVIOUS
  <2>4. FileSize > 0 /\ BufSize > 0
    BY <2>1, <2>3
  <2> QED
    BY <1>1, <2>1, <2>2, <2>4 DEF SkipHttp, More
<1>2. CASE Fail /\ fault' = TRUE
  BY <1>2 DEF SkipHttp, Fail
<1> QED
  BY <1>1, <1>2 DEF SkipHttp

(* A step of the parser: bytes it has not followed yet are in the buffer. *)
LEMMA ParserCases ==
    ASSUME ProcessHeader \/ ProcessPacket, DataOK
    PROVE  /\ pc = "process" /\ pc' = "process" /\ Ahead > 0
           /\ UNCHANGED <<buf_size, max_size, errcode, written, fault, short>>
           /\ prev' = offset /\ offset' \in Nat /\ offset <= offset'
           /\ \E d \in Nat : done_size' = done_size + d /\ offset' = offset + d
<1>1. CASE ProcessHeader
  <2>1. PICK h \in HeaderSizes : ChangeState("FPH", FirstHdr, h)
    BY <1>1 DEF ProcessHeader
  <2>2. h \in Nat
    OBVIOUS
  <2> QED
    BY <1>1, <2>1, <2>2 DEF ProcessHeader, ChangeState, DataOK
<1>2. CASE ProcessPacket
  <2>1. PICK p \in Payloads, next \in {"FPH", "OPH"} :
          ChangeState(next, IF next = "FPH" THEN FirstHdr ELSE OtherHdr,
                      state_size + p)
    BY <1>2 DEF ProcessPacket
  <2>2. state_size + p \in Nat
    BY DEF DataOK
  <2> QED
    BY <1>2, <2>1, <2>2 DEF ProcessPacket, ChangeState, DataOK
<1> QED
  BY <1>1, <1>2

(* What a write leaves in the buffer is the beginning of a packet header, unless
   the write was short. *)
LEMMA LeftOverNext ==
    ASSUME RecInv, LeftOver, [Next]_vars
    PROVE  LeftOver'
<1> USE DEF RecInv, TypeOK, DataOK, BufferOK, LeftOver, Ahead
<1>1. CASE Startup \/ Record \/ Leave \/ Sleep \/ Finish \/ Rename
  BY <1>1 DEF Startup, Record, Leave, Sleep, Finish, Rename
<1>2. CASE SigHup \/ ProcessEnd
  BY <1>2 DEF SigHup, ProcessEnd, asfVars, bufVars, histVars
<1>3. CASE SkipHttp
  BY <1>3, SkipCases
<1>4. CASE Read
  BY <1>4, ReadCases
<1>5. CASE ProcessHeader \/ ProcessPacket
  BY <1>5, ParserCases
<1>6. CASE Write
  <2>1. UNCHANGED state_size /\ BufSize \in Nat /\ pc = "write"
    BY <1>6 DEF Write, asfVars
  <2>2. BufSize > 0
    BY <2>1
  <2>3. CASE pc' = "finish"
    BY <2>3
  <2>4. ASSUME NEW r \in Nat,
               0 < r, r <= done_size, r <= buf_size,
               short' \/ r = done_size \/ r = buf_size,
               buf_size' = buf_size - r, done_size' = done_size - r,
               max_size' = max_size - r, max_size - r > 0, pc' = "read"
        PROVE  LeftOver'
    BY <2>1, <2>2, <2>4
  <2> QED
    BY <1>6, <2>3, <2>4, WriteCases
<1>7. CASE UNCHANGED vars
  BY <1>7 DEF vars, asfVars, bufVars, histVars
<1> QED
  BY <1>1, <1>2, <1>3, <1>4, <1>5, <1>6, <1>7 DEF Next, Step, Done

(* A write that has nothing to write has met the beginning of a packet header;
   so has a read that has no room, or it follows upon a short write. *)
LEMMA CauseNext ==
    ASSUME RecInv, LeftOver, ErrorHasCause, [Next]_vars
    PROVE  ErrorHasCause'
<1> USE DEF RecInv, TypeOK, DataOK, BufferOK, LeftOver, ErrorHasCause
<1>1. CASE Startup \/ Record \/ Leave \/ Sleep \/ Finish \/ Rename
  BY <1>1 DEF Startup, Record, Leave, Sleep, Finish, Rename
<1>2. CASE SigHup \/ ProcessEnd
  BY <1>2 DEF SigHup, ProcessEnd, asfVars, bufVars, histVars
<1>3. CASE SkipHttp
  BY <1>3, SkipCases
<1>4. CASE Read
  BY <1>4, ReadCases DEF Wanted, asfVars
<1>5. CASE ProcessHeader \/ ProcessPacket
  BY <1>5, ParserCases
<1>6. CASE Write
  BY <1>6, WriteCases DEF Ahead, asfVars, bufVars
<1>7. CASE UNCHANGED vars
  BY <1>7 DEF vars, asfVars, bufVars, histVars
<1> QED
  BY <1>1, <1>2, <1>3, <1>4, <1>5, <1>6, <1>7 DEF Next, Step, Done

(* The offset make_it_seekable declares is reached by the file when its size
   ends the recording, and when SIGHUP does after a whole write. *)
LEMMA LastPacketNext ==
    ASSUME RecInv, LastPacket, [Next]_vars
    PROVE  LastPacket'
<1> USE DEF RecInv, TypeOK, DataOK, InStep, LastPacket
<1>1. CASE Startup \/ Leave \/ Sleep \/ Finish \/ Rename \/ SigHup \/ ProcessEnd
  <2>1. UNCHANGED <<prev, offset, buf_size, written, errcode, short>> /\ (stop => stop')
    BY <1>1 DEF Startup, Leave, Sleep, Finish, Rename, SigHup, ProcessEnd, asfVars,
                bufVars, histVars
  <2>2. \/ pc' \in {"main", "exit", "sleep"} \/ pc' = pc
        \/ pc = "process" /\ pc' = "write"
        \/ pc = "finish" /\ errcode = 0 /\ pc' = "rename"
    BY <1>1 DEF Startup, Leave, Sleep, Finish, Rename, SigHup, ProcessEnd
  <2> QED
    BY <2>1, <2>2
<1>2. CASE Record
  BY <1>2 DEF Record
<1>3. CASE SkipHttp
  <2>1. /\ pc = "http" /\ UNCHANGED <<prev, offset, written>>
        /\ \/ pc' = "read" /\ buf_size' \in Nat
           \/ pc' = "finish"
    BY <1>3, SkipCases DEF asfVars, BufferOK
  <2> QED
    BY <2>1
<1>4. CASE Read
  <2>1. /\ pc = "read" /\ UNCHANGED <<prev, offset, written>>
        /\ \/ pc' = "process" /\ buf_size' \in Nat /\ buf_size' >= buf_size
           \/ pc' = "finish" /\ errcode' = -1
    BY <1>4, ReadCases DEF asfVars, BufferOK
  <2> QED
    BY <2>1
<1>5. CASE ProcessHeader \/ ProcessPacket
  BY <1>5, ParserCases DEF Ahead
<1>6. CASE Write
  <2>1. pc = "write" /\ UNCHANGED <<prev, offset, stop>> /\ buf_size <= max_size
    BY <1>6 DEF Write, asfVars, BufferOK
  <2>2. CASE pc' = "finish" /\ errcode' = -1
    BY <2>1, <2>2
  <2>3. ASSUME NEW r \in Nat,
               0 < r, r <= done_size, r <= buf_size,
               short' \/ r = done_size \/ r = buf_size,
               buf_size' = buf_size - r, written' = written + r,
               pc' = "read" \/ (pc' = "finish" /\ (max_size - r <= 0 \/ stop))
        PROVE  LastPacket'
    <3>1. prev <= written' \/ prev < written' + buf_size'
      BY <2>1, <2>3
    <3>2. r = done_size \/ r = buf_size \/ max_size - r <= 0 => prev <= written'
      BY <2>1, <2>3
    <3>3. pc' = "finish" => prev <= written' \/ (short' /\ stop')
      BY <2>1, <2>3, <3>2
    <3> QED
      BY <2>1, <2>3, <3>1, <3>3
  <2> QED
    BY <1>6, <2>2, <2>3, WriteCases
<1>7. CASE UNCHANGED vars
  BY <1>7 DEF vars, asfVars, bufVars, histVars
<1> QED
  BY <1>1, <1>2, <1>3, <1>4, <1>5, <1>6, <1>7 DEF Next, Step, Done

(* The whole invariant, for shares that write less than they are given too. *)
THEOREM FullInvariant == Spec => []FullInv
<1>1. FullInv /\ [Next]_vars => FullInv'
  BY FlagsNext, SizesNext, LeftOverNext, CauseNext, LastPacketNext
     DEF FullInv, RecInv, TypeOK
<1> QED
  BY InvInit, <1>1, PTL DEF Spec

(* For all sizes, and for writes of any length: a recording that gets its name
   holds all that its patched header declares, unless SIGHUP has ended it before
   the rest of a short write was written. *)
THEOREM NamedHolds == Spec => []NamedIsSeekable
<1>1. FullInv => NamedIsSeekable
  BY DEF FullInv, LastPacket, NamedIsSeekable, fileLen
<1> QED
  BY FullInvariant, <1>1, PTL

(* For all sizes, and for writes of any length: send_asf fails only because the
   stream or the share has failed, because less than a packet header was left to
   follow, or because a short write has left the rest of the file in the buffer. *)
THEOREM ErrorsHaveCause == Spec => []ErrorHasCause
<1>1. FullInv => ErrorHasCause
  BY DEF FullInv
<1> QED
  BY FullInvariant, <1>1, PTL
=============================================================================
