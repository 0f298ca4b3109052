------------------------------ MODULE NorFlash ------------------------------
(***************************************************************************)
(* pl_nor.c, the driver of the NOR flash: reads, writes and erasures of    *)
(* several processes, which share one controller under a semaphore.  A     *)
(* call moves the head of an unaligned buffer by programmed I/O and the    *)
(* rest in pieces by DMA, each of which ends in an interrupt; an erasure   *)
(* goes sector by sector.                                                  *)
(*                                                                         *)
(* A cell of the flash is erased or written.  Of a buffer only its         *)
(* alignment is kept, and which cells have been read into it.              *)
(***************************************************************************)
EXTENDS Integers

CONSTANTS
  Procs, None,
  Size,      \* total_size
  Sectors,   \* nor_sector_map: records of start_addr and size
  Align,     \* what DMA asks of a buffer: 16 bytes
  Word,      \* of programmed I/O: 4 bytes
  MaxDma,    \* MAX_DMA_CNT
  Width,     \* number of values of a size_t, a u_int32_t and an int
  Requests,  \* what is asked: op, from, len, and off, the buffer's address % Align
  Faults,    \* the operations that may fail: "read", "write", "erase", "pio"
  Torn       \* how many cells a command has dealt with when it fails

Ops == {"read", "write", "erase"}
End(s) == s.start_addr + s.size

ASSUME NorAssumption ==
  /\ None \notin Procs
  /\ Size \in Nat /\ Align \in Nat \ {0} /\ Word \in Nat \ {0}
  /\ MaxDma \in Nat \ {0} /\ Width \in Nat /\ Width > 2 * Size
  /\ Torn \subseteq Nat
  /\ Requests \subseteq [op : Ops, from : Nat, len : 0 .. Width - 1,
                         off : 0 .. Align - 1]
  /\ \A r \in Requests : r.op = "erase" => r.from < Width

\* The sectors cover the flash, one after the other.
ASSUME SectorAssumption ==
  /\ Sectors \subseteq [start_addr : Nat, size : Nat \ {0}]
  /\ \A s \in Sectors : End(s) <= Size
  /\ \A s \in Sectors : End(s) = Size \/ \E t \in Sectors : t.start_addr = End(s)
  /\ \A s, t \in Sectors : s.start_addr < End(t) /\ t.start_addr < End(s) => s = t

VARIABLES
  pc,      \* where each process is
  req,     \* its request
  addr,    \* addr
  left,    \* len, counted down
  retlen,  \* *retlen
  cnt,     \* this_cnt, or the size of the sector
  rc,      \* rc
  failed,  \* a command of this call has ended in an error
  got,     \* the cells that have been read into the buffer
  sem,     \* the process that is past down(&ctl_sem)
  intr,    \* intr_status: "none" for 0
  ctl,     \* the process whose command the controller is at work on
  flash

locals == <<req, addr, left, retlen, cnt, rc, failed, got>>
vars == <<pc, locals, sem, intr, ctl, flash>>

Erased  == "erased"
Written == "written"
Cells  == 0 .. Size - 1

Set(f, p, v) == [f EXCEPT ![p] = v]

Init ==
  /\ pc = [p \in Procs |-> "idle"]
  /\ req \in [Procs -> Requests]
  /\ addr = [p \in Procs |-> 0] /\ left = [p \in Procs |-> 0]
  /\ retlen = [p \in Procs |-> 0] /\ cnt = [p \in Procs |-> 0]
  /\ rc = [p \in Procs |-> "OK"] /\ failed = [p \in Procs |-> FALSE]
  /\ got = [p \in Procs |-> {}]
  /\ sem = None /\ intr = "none" /\ ctl = None
  /\ flash = [i \in Cells |-> Erased]

----------------------------------------------------------------------------
(* Entry: the test of the range, and the semaphore *)

\* What is refused.  A read and a write add their length to a 64-bit loff_t; an
\* erasure adds two u_int32_t, and the sum wraps.
PastEnd(r) ==
  \/ r.op # "erase" /\ r.from + r.len > Size
  \/ r.op = "erase" /\ (r.from > Size \/ (r.from + r.len) % Width > Size)

Call(p) ==
  /\ pc[p] = "idle"
  /\ \E r \in Requests :
       /\ req' = Set(req, p, r)
       /\ \/ /\ PastEnd(r)
             /\ rc' = Set(rc, p, "EINVAL") /\ UNCHANGED pc
          \/ /\ ~PastEnd(r)
             /\ pc' = Set(pc, p, "down") /\ UNCHANGED rc
  /\ UNCHANGED <<addr, left, retlen, cnt, failed, got, sem, intr, ctl, flash>>

\* The length of an erasure is counted down in an int.
AsInt(k) == IF 2 * k < Width THEN k ELSE k - Width

\* down_interruptible, and the first assignments.  An erasure has failed
\* with -EINVAL until its loop has ended.
Enter(p) ==
  /\ sem' = p
  /\ addr' = Set(addr, p, req[p].from)
  /\ left' = Set(left, p, IF req[p].op = "erase" THEN AsInt(req[p].len) ELSE req[p].len)
  /\ rc' = Set(rc, p, IF req[p].op = "erase" THEN "EINVAL" ELSE "OK")
  /\ pc' = Set(pc, p, IF req[p].op = "erase" THEN "sector"
                      ELSE IF req[p].off # 0 THEN "pio" ELSE "chunk")
  /\ UNCHANGED <<req, retlen, cnt, failed, got, intr, ctl, flash>>

(* Mutant of Down: nobody is waited for. *)
DownAnyway(p) == pc[p] = "down" /\ Enter(p)

Down(p) == pc[p] = "down" /\ sem = None /\ Enter(p)

\* A signal ends the wait for the semaphore.
DownSignal(p) ==
  /\ pc[p] = "down" /\ sem # None
  /\ pc' = Set(pc, p, "idle") /\ rc' = Set(rc, p, "ERESTARTSYS")
  /\ UNCHANGED <<req, addr, left, retlen, cnt, failed, got, sem, intr, ctl, flash>>

\* The call returns, and its variables are gone.
Up(p) ==
  /\ pc[p] = "up"
  /\ sem' = None
  /\ pc' = Set(pc, p, "idle")
  /\ addr' = Set(addr, p, 0) /\ left' = Set(left, p, 0)
  /\ retlen' = Set(retlen, p, 0) /\ cnt' = Set(cnt, p, 0)
  /\ failed' = Set(failed, p, FALSE) /\ got' = Set(got, p, {})
  /\ UNCHANGED <<req, rc, intr, ctl, flash>>

----------------------------------------------------------------------------
(* The flash *)

Range(a, n) == a .. a + n - 1
Fill(where, v) == [i \in Cells |-> IF i \in where THEN v ELSE flash[i]]

\* The head of the buffer: as many bytes as its address is past the last
\* boundary.  ppi_amd_pio_write writes whole words only and stops at the first
\* that fails; its result is not asked.
PioWrite(p) ==
  \E k \in (IF "pio" \in Faults THEN 0 .. req[p].off \div Word ELSE {req[p].off \div Word}) :
    flash' = Fill(Range(addr[p], Word * k), Written)

(* Mutant of Pio: the bytes are not taken from the length. *)
PioKeepsLength(p) ==
  /\ pc[p] = "pio"
  /\ \/ /\ req[p].op = "read"
        /\ got' = Set(got, p, Range(addr[p], req[p].off)) /\ UNCHANGED flash
     \/ req[p].op = "write" /\ PioWrite(p) /\ UNCHANGED got
  /\ addr' = Set(addr, p, addr[p] + req[p].off)
  /\ retlen' = Set(retlen, p, req[p].off)
  /\ pc' = Set(pc, p, "chunk")
  /\ UNCHANGED <<req, left, cnt, rc, failed, sem, intr, ctl>>

Pio(p) ==
  /\ pc[p] = "pio"
  /\ \/ /\ req[p].op = "read"
        /\ got' = Set(got, p, Range(addr[p], req[p].off)) /\ UNCHANGED flash
     \/ req[p].op = "write" /\ PioWrite(p) /\ UNCHANGED got
  /\ addr' = Set(addr, p, addr[p] + req[p].off)
  /\ left' = Set(left, p, (left[p] - req[p].off) % Width)
  /\ retlen' = Set(retlen, p, req[p].off)
  /\ pc' = Set(pc, p, "chunk")
  /\ UNCHANGED <<req, cnt, rc, failed, sem, intr, ctl>>

----------------------------------------------------------------------------
(* Commands *)

\* The next piece of a read or a write: the descriptor, and intr_status = 0.
\* pl_setup_dma returns the length it was given, so that the call never ends
\* in -EFAULT.
Chunk(p) ==
  /\ pc[p] = "chunk"
  /\ \/ /\ left[p] = 0
        /\ pc' = Set(pc, p, "up") /\ UNCHANGED <<cnt, intr>>
     \/ /\ left[p] > 0
        /\ cnt' = Set(cnt, p, IF left[p] > MaxDma THEN MaxDma ELSE left[p])
        /\ intr' = "none"
        /\ pc' = Set(pc, p, "command")
  /\ UNCHANGED <<req, addr, left, retlen, rc, failed, got, sem, ctl, flash>>

map_sector(a) == {s \in Sectors : s.start_addr <= a /\ a < End(s)}

\* The next sector of an erasure.  There always is one: addr and left end where
\* the request does, within the flash, or left is negative from the start.
Sector(p) ==
  /\ pc[p] = "sector"
  /\ \/ /\ left[p] <= 0
        /\ rc' = Set(rc, p, "OK")
        /\ pc' = Set(pc, p, "up") /\ UNCHANGED <<cnt, intr>>
     \/ /\ left[p] > 0
        /\ \E s \in map_sector(addr[p]) : cnt' = Set(cnt, p, s.size)
        /\ intr' = "none"
        /\ pc' = Set(pc, p, "command") /\ UNCHANGED rc
  /\ UNCHANGED <<req, addr, left, retlen, failed, got, sem, ctl, flash>>

\* cmd_read, cmd_write or cmd_erase with DMA_START.
Command(p) ==
  /\ pc[p] = "command"
  /\ ctl' = p
  /\ pc' = Set(pc, p, "wait")
  /\ UNCHANGED <<locals, sem, intr, flash>>

\* The cells a command is about: those of an erasure are a whole sector's.
Base(p) == IF req[p].op = "erase"
           THEN (CHOOSE s \in map_sector(addr[p]) : TRUE).start_addr ELSE addr[p]
Target(p) == Range(Base(p), cnt[p])

\* The controller ends its command, and pl_nor_do_interrupt wakes the sleeper.
\* After an error part of the cells have been written or erased.
Interrupt ==
  /\ ctl # None
  /\ \/ /\ intr' = "ok" /\ UNCHANGED failed
        /\ \/ /\ req[ctl].op = "read" /\ UNCHANGED flash
              /\ got' = Set(got, ctl, got[ctl] \union Target(ctl))
           \/ /\ req[ctl].op = "write" /\ UNCHANGED got
              /\ flash' = Fill(Target(ctl), Written)
           \/ /\ req[ctl].op = "erase" /\ UNCHANGED got
              /\ flash' = Fill(Target(ctl), Erased)
     \/ /\ intr' = "error" /\ failed' = Set(failed, ctl, TRUE)
        /\ req[ctl].op \in Faults /\ UNCHANGED got
        /\ \E n \in Torn :
             LET part == Target(ctl) \intersect Range(Base(ctl), n)
             IN  flash' = IF req[ctl].op = "read" THEN flash
                          ELSE Fill(part, IF req[ctl].op = "write" THEN Written ELSE Erased)
  /\ ctl' = None
  /\ pc' = [p \in Procs |-> IF pc[p] = "sleep" THEN "woken" ELSE pc[p]]
  /\ UNCHANGED <<req, addr, left, retlen, cnt, rc, sem>>

(* Mutant of Wait: sleep_on, which does not look before it sleeps. *)
WaitSleepOn(p) ==
  /\ pc[p] \in {"wait", "woken"}
  /\ pc' = Set(pc, p, IF pc[p] = "wait" THEN "sleep" ELSE "finish")
  /\ UNCHANGED <<locals, sem, intr, ctl, flash>>

\* wait_event(wq_intr, intr_status != 0)
Wait(p) ==
  /\ pc[p] \in {"wait", "woken"}
  /\ pc' = Set(pc, p, IF intr = "none" THEN "sleep" ELSE "finish")
  /\ UNCHANGED <<locals, sem, intr, ctl, flash>>

(* Mutant of Finish: the last piece decides on the result. *)
FinishForgets(p) ==
  /\ pc[p] = "finish" /\ req[p].op # "erase"
  /\ rc' = Set(rc, p, IF intr = "error" THEN "EIO" ELSE "OK")
  /\ addr' = Set(addr, p, addr[p] + cnt[p]) /\ left' = Set(left, p, left[p] - cnt[p])
  /\ retlen' = Set(retlen, p, retlen[p] + cnt[p])
  /\ pc' = Set(pc, p, "chunk")
  /\ UNCHANGED <<req, cnt, failed, got, sem, intr, ctl, flash>>

\* An error is kept in rc, and the rest is done all the same.
Finish(p) ==
  /\ pc[p] = "finish" /\ req[p].op # "erase"
  /\ rc' = Set(rc, p, IF intr = "error" THEN "EIO" ELSE rc[p])
  /\ addr' = Set(addr, p, addr[p] + cnt[p]) /\ left' = Set(left, p, left[p] - cnt[p])
  /\ retlen' = Set(retlen, p, retlen[p] + cnt[p])
  /\ pc' = Set(pc, p, "chunk")
  /\ UNCHANGED <<req, cnt, failed, got, sem, intr, ctl, flash>>

\* cmd_erase with DMA_END: data polling, which looks at a bit of the first byte
\* of the sector.  That bit is set in an erased byte, and may be in others; what
\* the interrupt has said is printed only.
FinishErase(p) ==
  /\ pc[p] = "finish" /\ req[p].op = "erase"
  /\ \/ /\ addr' = Set(addr, p, addr[p] + cnt[p]) /\ left' = Set(left, p, left[p] - cnt[p])
        /\ pc' = Set(pc, p, "sector")
     \/ /\ flash[Base(p)] # Erased
        /\ pc' = Set(pc, p, "up") /\ UNCHANGED <<addr, left>>
  /\ UNCHANGED <<req, retlen, cnt, rc, failed, got, sem, intr, ctl, flash>>

----------------------------------------------------------------------------
\* The steps of a call that has the semaphore.
Step(p) ==
  \/ Pio(p) \/ Chunk(p) \/ Sector(p) \/ Command(p) \/ Wait(p)
  \/ Finish(p) \/ FinishErase(p) \/ Up(p)

Next == (\E p \in Procs : Call(p) \/ Down(p) \/ DownSignal(p) \/ Step(p)) \/ Interrupt

Spec == Init /\ [][Next]_vars

\* The kernel runs a process that can run, and the controller ends what it has
\* begun, if need be by its own timer.
FairSpec == Spec /\ WF_vars(Interrupt) /\ \A p \in Procs : WF_vars(Step(p))

----------------------------------------------------------------------------
Waiting == {"wait", "sleep", "woken"}
Inside  == {"pio", "chunk", "sector", "command", "finish", "up"} \union Waiting
Asked(p) == Range(req[p].from, req[p].len)

(* Every variable has its type; the lengths of a read and a write stay within
   a size_t. *)
TypeOK ==
  /\ pc \in [Procs -> {"idle", "down"} \union Inside]
  /\ req \in [Procs -> Requests]
  /\ addr \in [Procs -> Nat] /\ left \in [Procs -> Int]
  /\ \A p \in Procs : req[p].op # "erase" => left[p] \in 0 .. Width - 1
  /\ retlen \in [Procs -> Nat] /\ cnt \in [Procs -> Nat]
  /\ rc \in [Procs -> {"OK", "EIO", "EINVAL", "ERESTARTSYS"}]
  /\ failed \in [Procs -> BOOLEAN]
  /\ got \in [Procs -> SUBSET Nat]
  /\ sem \in Procs \union {None} /\ ctl \in Procs \union {None}
  /\ intr \in {"none", "ok", "error"}
  /\ flash \in [Cells -> {Erased, Written}]

(* The controller works for the process that has the semaphore and waits for
   it, and is given a command only when it has none. *)
OneCommand ==
  /\ \A p \in Procs : pc[p] \in Inside => sem = p
  /\ ctl # None => pc[ctl] \in Waiting

(* A read or a write that returns OK has read or written all it was asked: an
   error in one piece is not forgotten in the next.  An erasure that returns OK
   has erased it all, unless a command of it was reported failed. *)
Done(p) ==
  /\ req[p].op = "read"  => got[p] = Asked(p)
  /\ req[p].op = "write" => \A i \in Asked(p) : flash[i] = Written
  /\ req[p].op = "erase" => failed[p] \/ \A i \in Asked(p) \cap Cells : flash[i] = Erased
  /\ req[p].op # "erase" => retlen[p] = req[p].len
CompleteOrError == \A p \in Procs : pc[p] = "up" /\ rc[p] = "OK" => Done(p)

(* Nothing but the cells that were asked for is ever changed, in any number of
   pieces or sectors. *)
StaysInside ==
  [][\A i \in Cells : flash'[i] # flash[i] => sem # None /\ i \in Asked(sem)]_vars

(* A call that has the semaphore gives it back: no interrupt is missed, however
   early it comes. *)
CallReturns == \A p \in Procs : pc[p] \in Inside ~> pc[p] = "idle"

----------------------------------------------------------------------------
(* What the driver says of itself and does not keep. *)

(* The buffer of a DMA transfer is aligned, "which is our controller's
   requirement for DMA": the head that is moved by programmed I/O reaches to
   the next boundary. *)
DmaAligned ==
  \A p \in Procs : pc[p] = "command" /\ req[p].op # "erase" =>
                     (req[p].off + retlen[p]) % Align = 0

(* MTD_ERASE_DONE: what was asked for is erased. *)
DoneIsErased ==
  \A p \in Procs : pc[p] = "up" /\ req[p].op = "erase" /\ rc[p] = "OK" =>
                     \A i \in Asked(p) \cap Cells : flash[i] = Erased
=============================================================================
