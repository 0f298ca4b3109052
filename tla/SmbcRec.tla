------------------------------ MODULE SmbcRec ------------------------------
(***************************************************************************)
(* The recorder smbc_rec.c: it takes the stream of the camera from a       *)
(* socket, cuts it at a size, follows the packets in it, writes it to a    *)
(* temporary file on a Samba share, patches the header so that players can *)
(* seek, and gives the file its name.                                      *)
(*                                                                         *)
(* Bytes are counted, not kept: the stream is a header followed by packets *)
(* of which only the sizes matter.  One recorder is modelled.              *)
(***************************************************************************)
EXTENDS Integers, Sequences

CONSTANTS
  BufSize,     \* SMBC_BUF_SIZE
  HeaderSizes, \* header object plus data object header, with and without audio
  FirstHdr,    \* FIRST_PACKET_HEADER_SIZE
  OtherHdr,    \* OTHER_PACKET_HEADER_SIZE
  Payloads,    \* bytes of a packet after its header
  HttpRest,    \* bytes that come with the end of the HTTP header
  FileSize     \* rec_filesize * 1024

ASSUME SizesAssumption ==
  /\ BufSize \in Nat /\ FileSize \in Nat
  /\ FirstHdr \in Nat \ {0} /\ OtherHdr \in Nat \ {0}
  /\ HeaderSizes \subseteq Nat \ {0} /\ Payloads \subseteq Nat
  /\ \A h \in HeaderSizes : h <= BufSize
  /\ HttpRest \subseteq Nat
  /\ \A r \in HttpRest : r < BufSize /\ r < FileSize

VARIABLES
  pc,         \* "start", "main", "http", "read", "process", "write",
              \* "finish", "rename", "sleep" or "exit"
  stop,       \* gStopNow
  phase,      \* state: "HOH", "FPH" or "OPH"
  state_size,
  buf_size,   \* bytes in buf
  done_size,  \* bytes of packets followed and not yet written
  max_size,   \* asf_max_size: bytes the file may still take
  hoh,        \* hoh_size, with the header of the data object
  offset,     \* done_offset
  prev,       \* prev_done_offset
  count,      \* packet_count
  errcode,
  written,    \* history: bytes in the temporary file
  ends,       \* history: offsets at which the data packets followed end
  garbled,    \* history: the header was taken from a buffer it was not yet in
  fault,      \* history: the stream has ended or the share has failed
  short,      \* history: the last smbc_write has written less than it was given
  patched     \* history: the length is in the header of the file

asfVars  == <<phase, state_size, hoh, offset, prev, count>>
bufVars  == <<buf_size, done_size, max_size>>
histVars == <<written, ends, garbled, fault, short, patched>>
vars == <<pc, stop, asfVars, bufVars, errcode, histVars>>

Init ==
  /\ pc = "start" /\ stop = FALSE
  /\ phase = "HOH" /\ state_size = 0
  /\ buf_size = 0 /\ done_size = 0 /\ max_size = FileSize
  /\ hoh = 0 /\ offset = 0 /\ prev = 0 /\ count = 0
  /\ errcode = -1
  /\ written = 0 /\ ends = <<>> /\ garbled = FALSE /\ fault = FALSE
  /\ short = FALSE /\ patched = FALSE

MinOf(a, b) == IF a < b THEN a ELSE b

\* EQ_ERR and EXP_ERR: goto errout.
Fail ==
  /\ errcode' = -1 /\ pc' = "finish"

----------------------------------------------------------------------------
(* main and record_asf *)

\* The lock, the configuration and the address of the camera; without one of
\* them, or when recording is disabled, the recorder leaves.
Startup ==
  /\ pc = "start"
  /\ pc' \in {"main", "exit"}
  /\ UNCHANGED <<stop, asfVars, bufVars, errcode, histVars>>

(* Mutant of Record: the loop of main does not look at gStopNow. *)
RecordAlways ==
  /\ pc = "main"
  /\ \/ pc' = "http" /\ fault' = FALSE
     \/ pc' = "sleep" /\ fault' = TRUE
  /\ phase' = "HOH" /\ state_size' = 0 /\ hoh' = 0
  /\ offset' = 0 /\ prev' = 0 /\ count' = 0
  /\ buf_size' = 0 /\ done_size' = 0 /\ max_size' = FileSize
  /\ errcode' = -1
  /\ written' = 0 /\ ends' = <<>> /\ garbled' = FALSE
  /\ short' = FALSE /\ patched' = FALSE
  /\ UNCHANGED stop

\* A turn of the loop of main up to the first read: the stream and the share
\* have been opened, or one of them has failed.
Record ==
  /\ pc = "main" /\ ~stop
  /\ \/ pc' = "http" /\ fault' = FALSE
     \/ pc' = "sleep" /\ fault' = TRUE
  /\ phase' = "HOH" /\ state_size' = 0 /\ hoh' = 0
  /\ offset' = 0 /\ prev' = 0 /\ count' = 0
  /\ buf_size' = 0 /\ done_size' = 0 /\ max_size' = FileSize
  /\ errcode' = -1
  /\ written' = 0 /\ ends' = <<>> /\ garbled' = FALSE
  /\ short' = FALSE /\ patched' = FALSE
  /\ UNCHANGED stop

Leave ==
  /\ pc = "main" /\ stop
  /\ pc' = "exit"
  /\ UNCHANGED <<stop, asfVars, bufVars, errcode, histVars>>

\* HandleSigHup
SigHup ==
  /\ pc # "exit" /\ ~stop
  /\ stop' = TRUE
  /\ UNCHANGED <<pc, asfVars, bufVars, errcode, histVars>>

\* sleep(gSleepTime), which a signal ends.
Sleep ==
  /\ pc = "sleep"
  /\ pc' = "main"
  /\ UNCHANGED <<stop, asfVars, bufVars, errcode, histVars>>

----------------------------------------------------------------------------
(* send_asf *)

(* Mutant of More: the loop goes on after the last byte. *)
MoreAtZero(max) == IF max >= 0 /\ ~stop THEN pc' = "read" /\ errcode' = -1
                                        ELSE pc' = "finish" /\ errcode' = 0

\* The test of the loop.
More(max) == IF max > 0 /\ ~stop THEN pc' = "read" /\ errcode' = -1
                                 ELSE pc' = "finish" /\ errcode' = 0

\* skip_http_header: its end is in the first read, or the recording fails.
SkipHttp ==
  /\ pc = "http"
  /\ \/ /\ buf_size' \in HttpRest
        /\ More(max_size)
        /\ UNCHANGED fault
     \/ Fail /\ fault' = TRUE /\ UNCHANGED buf_size
  /\ UNCHANGED <<stop, asfVars, done_size, max_size, written, ends, garbled,
                 short, patched>>

(* Mutant of Wanted: the size of the file is not looked at. *)
WantedWholeBuffer == BufSize - buf_size

\* What the read asks for.
Wanted == IF max_size > BufSize THEN BufSize - buf_size ELSE max_size - buf_size

Read ==
  /\ pc = "read"
  /\ \/ /\ \E r \in 1 .. Wanted : buf_size' = buf_size + r
        /\ pc' = "process"
        /\ UNCHANGED <<errcode, fault>>
     \/ Fail /\ fault' = TRUE /\ UNCHANGED buf_size
     \/ Wanted = 0 /\ Fail /\ UNCHANGED <<buf_size, fault>>
  /\ UNCHANGED <<stop, asfVars, done_size, max_size, written, ends, garbled,
                 short, patched>>

(* Mutant of ChangeState: the offset is that of the packet's header. *)
ChangeStateHeader(next, size, done) ==
  /\ phase' = next /\ state_size' = size
  /\ done_size' = done_size + done
  /\ prev' = offset /\ offset' = offset + (IF phase = "HOH" THEN done
                                           ELSE state_size)
  /\ count' = count + 1

\* CHANGE_STATE
ChangeState(next, size, done) ==
  /\ phase' = next /\ state_size' = size
  /\ done_size' = done_size + done
  /\ prev' = offset /\ offset' = offset + done
  /\ count' = count + 1

Ahead == buf_size - done_size

\* process_state, called by process_asf_state as long as there are bytes ahead.
\* The size of the header is read from the buffer without asking whether the
\* header has arrived: state_size is 0.
ProcessHeader ==
  /\ pc = "process" /\ phase = "HOH" /\ Ahead > 0
  /\ \E h \in HeaderSizes :
       /\ hoh' = h
       /\ garbled' = (h > Ahead)
       /\ ChangeState("FPH", FirstHdr, h)
  /\ UNCHANGED <<pc, stop, buf_size, max_size, errcode, written, ends, fault,
                 short, patched>>

\* A packet: the rest of the frame is in other packets, or it is the last one.
ProcessPacket ==
  /\ pc = "process" /\ phase # "HOH" /\ Ahead > 0 /\ Ahead >= state_size
  /\ \E p \in Payloads, next \in {"FPH", "OPH"} :
       /\ ChangeState(next, IF next = "FPH" THEN FirstHdr ELSE OtherHdr,
                      state_size + p)
       /\ ends' = Append(ends, offset + state_size + p)
  /\ UNCHANGED <<pc, stop, hoh, buf_size, max_size, errcode, written, garbled,
                 fault, short, patched>>

ProcessEnd ==
  /\ pc = "process"
  /\ Ahead <= 0 \/ Ahead < state_size
  /\ pc' = "write"
  /\ UNCHANGED <<stop, asfVars, bufVars, errcode, histVars>>

\* Send out what belongs to the packets followed; writing nothing is an error.
\* What smbc_write has left is written with the rest, the next time round.
Write ==
  /\ pc = "write"
  /\ LET n == MinOf(done_size, buf_size)
     IN  \/ \E ret \in 1 .. n :
              /\ short' = (ret < n)
              /\ buf_size' = buf_size - ret
              /\ done_size' = done_size - ret
              /\ max_size' = max_size - ret
              /\ written' = written + ret
              /\ More(max_size - ret)
              /\ UNCHANGED fault
         \/ /\ n = 0 /\ Fail
            /\ UNCHANGED <<bufVars, written, fault, short>>
         \/ /\ Fail /\ fault' = TRUE
            /\ UNCHANGED <<bufVars, written, short>>
  /\ UNCHANGED <<stop, asfVars, ends, garbled, patched>>

(* Mutant of fileLen: the packet that is cut off at the end is counted. *)
fileLenWhole == offset

\* What make_it_seekable patches the header to say, whatever has happened.
fileLen == prev

totalDataPackets == count - 1

\* make_it_seekable, of whose calls no result is looked at: the length has come
\* into the header of the file or has not.  Only a recording without an error
\* gets its name.
Finish ==
  /\ pc = "finish"
  /\ patched' \in BOOLEAN
  /\ pc' = IF errcode = 0 THEN "rename" ELSE "sleep"
  /\ UNCHANGED <<stop, asfVars, bufVars, errcode, written, ends, garbled, fault,
                 short>>

\* The result of smbc_rename is not looked at.
Rename ==
  /\ pc = "rename"
  /\ pc' = "main"
  /\ UNCHANGED <<stop, asfVars, bufVars, errcode, histVars>>

----------------------------------------------------------------------------

Step ==
  \/ Startup \/ Record \/ Leave \/ Sleep \/ SkipHttp \/ Read
  \/ ProcessHeader \/ ProcessPacket \/ ProcessEnd \/ Write \/ Finish \/ Rename

Done == pc = "exit" /\ UNCHANGED vars

Next == Step \/ SigHup \/ Done

Spec == Init /\ [][Next]_vars

\* The recorder runs; read(2) and the calls of the share return.
FairSpec == Spec /\ WF_vars(Step)

----------------------------------------------------------------------------
(* Properties *)

FlagsOK ==
  /\ stop \in BOOLEAN /\ garbled \in BOOLEAN /\ fault \in BOOLEAN
  /\ short \in BOOLEAN /\ patched \in BOOLEAN

DataOK ==
  /\ pc \in {"start", "main", "http", "read", "process", "write", "finish",
             "rename", "sleep", "exit"}
  /\ phase \in {"HOH", "FPH", "OPH"}
  /\ state_size \in {0, FirstHdr, OtherHdr}
  /\ buf_size \in 0 .. BufSize
  /\ done_size \in Nat /\ max_size \in 0 .. FileSize
  /\ hoh \in HeaderSizes \cup {0}
  /\ offset \in Nat /\ prev \in Nat /\ count \in Nat
  /\ errcode \in {0, -1}
  /\ written \in Nat /\ ends \in Seq(Nat)

TypeOK == FlagsOK /\ DataOK

\* What the next read asks for is never negative and never more than the
\* buffer has room for: the bytes in the buffer are among those the file may
\* still take.
ReadFits ==
  /\ buf_size <= max_size
  /\ pc = "read" => Wanted >= 0 /\ buf_size + Wanted <= BufSize

\* The parser and the file stay in step over partial packets, moved buffers
\* and short writes: what has been followed is what is written plus what is
\* due.
InStep ==
  /\ offset = written + done_size
  /\ written + max_size = FileSize

\* A recording fails only when the stream or the share did; when the bytes in
\* the buffer are the beginning of a packet header and no more; or when a short
\* write has left the whole rest of the file in the buffer, so that the next
\* read is one of 0 bytes.
ErrorHasCause ==
  pc = "finish" /\ errcode = -1 =>
    \/ fault
    \/ done_size = 0 /\ buf_size < state_size
    \/ short /\ buf_size = max_size

\* A file that gets its name and whose header has been patched holds all the
\* bytes that the header tells a player to use, over short writes and wherever
\* its size cuts it; only a SIGHUP that comes before the rest of a short write
\* has been written may cut off more.
NamedIsSeekable ==
  pc = "rename" /\ patched => fileLen <= written \/ (short /\ stop)

\* "make_it_seekable": a file that gets its name can be seeked in.
NamedIsPatched == pc = "rename" => patched

\* The same as NamedIsSeekable, without the exception.
NamedIsWhole == pc = "rename" /\ patched => fileLen <= written

\* "totalDataPackets: Invalid if Broadcast flag is set to 1"; the flag is set
\* to 0, so the number is valid: it is that of the packets within the declared
\* length.
PacketsCounted ==
  pc = "rename" /\ patched /\ ~garbled /\ ends # <<>> =>
    totalDataPackets = Len(SelectSeq(ends, LAMBDA e : e <= fileLen))

\* A recorder told to stop leaves, from wherever it is.
StopsOnHup == stop ~> pc = "exit"
=============================================================================
