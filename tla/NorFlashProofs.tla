--------------------------- MODULE NorFlashProofs ---------------------------
(***************************************************************************)
(* Theorems about NorFlash, for any number of processes, any sectors and   *)
(* any requests that fit: heads that are no longer than the request, and   *)
(* erasures that begin and end with a sector and whose end does not wrap.  *)
(***************************************************************************)
EXTENDS NorFlash, TLAPS

Fits(r) ==
  /\ r.op # "erase" => r.off <= r.len
  /\ r.op = "erase" =>
       /\ r.from + r.len < Width
       /\ r.len = 0 \/ \E s \in Sectors : s.start_addr = r.from
       /\ \A s \in Sectors : r.from + r.len <= s.start_addr \/ End(s) <= r.from + r.len
AllFit == \A r \in Requests : Fits(r)

Busy == {"command", "finish"} \union Waiting

(* Where the cursor of a read or a write is, and that of an erasure. *)
MoveInv(p) ==
  /\ pc[p] # "sector"
  /\ retlen[p] <= req[p].len
  /\ addr[p] = req[p].from + retlen[p] /\ left[p] = req[p].len - retlen[p]
  /\ pc[p] = "pio" => retlen[p] = 0
  /\ pc[p] \in Busy => cnt[p] <= left[p]
EraseInv(p) ==
  /\ pc[p] \notin {"pio", "chunk"}
  /\ req[p].from <= addr[p] /\ 0 <= left[p]
  /\ addr[p] + left[p] = req[p].from + req[p].len
  /\ left[p] > 0 => \E s \in Sectors : s.start_addr = addr[p]
  /\ pc[p] \in Busy => /\ left[p] > 0
                       /\ \E s \in Sectors : s.start_addr = addr[p] /\ s.size = cnt[p]
CallInv(p) ==
  /\ pc[p] # "idle" => req[p].from + req[p].len <= Size
  /\ pc[p] \notin Inside => retlen[p] = 0 /\ left[p] = 0
  /\ pc[p] \in Inside /\ req[p].op # "erase" => MoveInv(p)
  /\ pc[p] \in Inside /\ req[p].op = "erase" => EraseInv(p)

(* The types without the Boolean one. *)
DataOK ==
  /\ pc \in [Procs -> {"idle", "down"} \union Inside]
  /\ req \in [Procs -> Requests]
  /\ addr \in [Procs -> Nat] /\ left \in [Procs -> Int]
  /\ retlen \in [Procs -> Nat] /\ cnt \in [Procs -> Nat]
  /\ rc \in [Procs -> {"OK", "EIO", "EINVAL", "ERESTARTSYS"}]
  /\ got \in [Procs -> SUBSET Nat]
  /\ sem \in Procs \union {None} /\ ctl \in Procs \union {None}
  /\ intr \in {"none", "ok", "error"}
  /\ flash \in [Cells -> {Erased, Written}]

(* No answer is taken for that of a command that is under way. *)
Quiet == /\ ctl # None => intr = "none"
         /\ \A p \in Procs : pc[p] = "command" => intr = "none"

NorInv == /\ DataOK /\ failed \in [Procs -> BOOLEAN]
          /\ OneCommand /\ Quiet
          /\ \A p \in Procs : CallInv(p)

----------------------------------------------------------------------------
(* Sectors, requests, and what a process leaves to the others *)

(* The fields of a request have their types. *)
LEMMA RequestOK ==
  ASSUME NEW r \in Requests
  PROVE  r.op \in Ops /\ r.from \in Nat /\ r.len \in Nat /\ r.off \in Nat
  BY NorAssumption

(* The fields of a sector have their types. *)
LEMMA SectorOK ==
  ASSUME NEW s \in Sectors
  PROVE  s.start_addr \in Nat /\ s.size \in Nat \ {0} /\ End(s) = s.start_addr + s.size
  BY SectorAssumption DEF End

(* map_sector finds the sector that begins at an address. *)
LEMMA SectorAt ==
  ASSUME NEW s \in Sectors
  PROVE  map_sector(s.start_addr) = {s}
  <1>1. s \in map_sector(s.start_addr)
    BY SectorOK DEF map_sector
  <1>2. ASSUME NEW t \in map_sector(s.start_addr) PROVE t = s
    <2>1. t \in Sectors /\ t.start_addr <= s.start_addr /\ s.start_addr < End(t)
      BY <1>2 DEF map_sector
    <2>2. t.start_addr < End(s)
      BY <2>1, SectorOK
    <2> QED BY <2>1, <2>2, SectorAssumption
  <1> QED BY <1>1, <1>2

(* Steps that leave the cursor of a call alone keep its invariant. *)
LEMMA Frame ==
  ASSUME NEW p \in Procs, CallInv(p),
         pc'[p] = pc[p] \/ (pc[p] \in Waiting /\ pc'[p] \in Waiting),
         req'[p] = req[p], addr'[p] = addr[p],
         left'[p] = left[p], retlen'[p] = retlen[p], cnt'[p] = cnt[p]
  PROVE  CallInv(p)'
  BY DEF CallInv, MoveInv, EraseInv, Inside, Busy, Waiting

----------------------------------------------------------------------------
(* Types *)

(* Every step keeps failed Boolean. *)
LEMMA FlagsNext == failed \in [Procs -> BOOLEAN] /\ Next => failed' \in [Procs -> BOOLEAN]
  <1> SUFFICES ASSUME failed \in [Procs -> BOOLEAN], Next PROVE failed' \in [Procs -> BOOLEAN]
    OBVIOUS
  <1>1. failed' = failed \/ \E p \in Procs, b \in BOOLEAN : failed' = [failed EXCEPT ![p] = b]
    <2>1. CASE Interrupt
      BY <2>1 DEF Interrupt, Set
    <2> QED BY <2>1 DEF Next, Step, Call, Down, Enter, DownSignal, Pio, Chunk, Sector, Command,
                        Wait, Finish, FinishErase, Up, Set, locals
  <1> QED BY <1>1

(* Writing cells keeps the flash a flash. *)
LEMMA FillOK ==
  ASSUME flash \in [Cells -> {Erased, Written}], NEW where, NEW v \in {Erased, Written}
  PROVE  Fill(where, v) \in [Cells -> {Erased, Written}]
  BY DEF Fill

(* A range of cells. *)
LEMMA RangeOK == ASSUME NEW a \in Nat, NEW n \in Nat PROVE Range(a, n) \subseteq Nat
  BY DEF Range

(* A remainder is a number. *)
LEMMA ModOK == ASSUME NEW a \in Int PROVE a % Width \in Nat
  BY NorAssumption

(* What a step of p leaves to the others. *)
Own(p) == Call(p) \/ Down(p) \/ DownSignal(p) \/ Step(p)
Mine(p) == \A q \in Procs \ {p} :
  /\ pc'[q] = pc[q] /\ req'[q] = req[q] /\ addr'[q] = addr[q] /\ left'[q] = left[q]
  /\ retlen'[q] = retlen[q] /\ cnt'[q] = cnt[q]

(* A step of one process leaves the locals of the others alone. *)
LEMMA OthersKeep ==
  ASSUME DataOK, NEW p \in Procs, Own(p)
  PROVE  Mine(p)
  <1> USE DEF DataOK, Mine, Set, locals
  <1>1. CASE Call(p) BY <1>1 DEF Call
  <1>2. CASE Down(p) BY <1>2 DEF Down, Enter
  <1>3. CASE DownSignal(p) BY <1>3 DEF DownSignal
  <1>4. CASE Pio(p) BY <1>4 DEF Pio
  <1>5. CASE Chunk(p) BY <1>5 DEF Chunk
  <1>6. CASE Sector(p) BY <1>6 DEF Sector
  <1>7. CASE Command(p) BY <1>7 DEF Command
  <1>8. CASE Wait(p) BY <1>8 DEF Wait
  <1>9. CASE Finish(p) BY <1>9 DEF Finish
  <1>10. CASE FinishErase(p) BY <1>10 DEF FinishErase
  <1>11. CASE Up(p) BY <1>11 DEF Up
  <1> QED BY <1>1, <1>2, <1>3, <1>4, <1>5, <1>6, <1>7, <1>8, <1>9, <1>10, <1>11 DEF Own, Step

(* Every step keeps the types. *)
LEMMA DataNext ==
  ASSUME DataOK, Next
  PROVE  DataOK'
  <1>1. ASSUME Interrupt PROVE DataOK'
    <2>1. ctl \in Procs
      BY <1>1 DEF Interrupt, DataOK
    <2>2. Target(ctl) \subseteq Nat \/ req[ctl].op # "read"
      BY <2>1, RangeOK DEF Target, Base, DataOK
    <2>3. flash' \in [Cells -> {Erased, Written}]
      BY <1>1, FillOK, ZenonT(30) DEF Interrupt, DataOK
    <2>4. got' \in [Procs -> SUBSET Nat]
      BY <1>1, <2>1, <2>2 DEF Interrupt, DataOK, Set
    <2>5. pc' \in [Procs -> {"idle", "down"} \union Inside]
      BY <1>1 DEF Interrupt, DataOK, Inside, Waiting
    <2>6. intr' \in {"none", "ok", "error"} /\ ctl' = None
      BY <1>1 DEF Interrupt
    <2> QED BY <1>1, <2>3, <2>4, <2>5, <2>6 DEF Interrupt, DataOK
  <1>2. ASSUME NEW p \in Procs, Own(p) PROVE DataOK'
    <2>r. req[p] \in Requests /\ req[p].from \in Nat /\ req[p].len \in Nat /\ req[p].off \in Nat
      BY RequestOK DEF DataOK
    <2> USE DEF DataOK, Set, Inside, Waiting
    <2>1. CASE Call(p) BY <2>1 DEF Call
    <2>2. CASE Down(p)
      <3>1. AsInt(req[p].len) \in Int
        BY <2>r, NorAssumption DEF AsInt
      <3> QED BY <2>2, <2>r, <3>1 DEF Down, Enter
    <2>3. CASE DownSignal(p) BY <2>3 DEF DownSignal
    <2>4. CASE Pio(p)
      <3>1. flash' \in [Cells -> {Erased, Written}]
        BY <2>4, FillOK DEF Pio, PioWrite
      <3>2. Range(addr[p], req[p].off) \subseteq Nat /\ addr[p] + req[p].off \in Nat
        BY <2>r, RangeOK
      <3>3. (left[p] - req[p].off) % Width \in Int
        BY <2>r, ModOK
      <3>4. got' \in [Procs -> SUBSET Nat]
        BY <2>4, <3>2 DEF Pio
      <3>5. /\ addr' \in [Procs -> Nat] /\ left' \in [Procs -> Int]
            /\ retlen' \in [Procs -> Nat] /\ pc' \in [Procs -> {"idle", "down"} \union Inside]
        BY <2>4, <2>r, <3>2, <3>3 DEF Pio
      <3> QED BY <2>4, <3>1, <3>4, <3>5 DEF Pio
    <2>5. CASE Chunk(p)
      <3>1. left[p] > 0 => (IF left[p] > MaxDma THEN MaxDma ELSE left[p]) \in Nat
        BY NorAssumption
      <3> QED BY <2>5, <3>1 DEF Chunk
    <2>6. CASE Sector(p)
      <3>1. \A s \in map_sector(addr[p]) : s.size \in Nat
        BY SectorOK DEF map_sector
      <3> QED BY <2>6, <3>1 DEF Sector
    <2>7. CASE Command(p) BY <2>7 DEF Command, locals
    <2>8. CASE Wait(p) BY <2>8 DEF Wait, locals
    <2>9. CASE Finish(p) BY <2>9 DEF Finish
    <2>10. CASE FinishErase(p)
      <3>1. addr' \in [Procs -> Nat] /\ left' \in [Procs -> Int]
        BY <2>10 DEF FinishErase
      <3>2. pc' \in [Procs -> {"idle", "down"} \union Inside]
        BY <2>10 DEF FinishErase
      <3> QED BY <2>10, <3>1, <3>2 DEF FinishErase
    <2>11. CASE Up(p) BY <2>11 DEF Up
    <2> QED BY <1>2, <2>1, <2>2, <2>3, <2>4, <2>5, <2>6, <2>7, <2>8, <2>9, <2>10, <2>11
            DEF Own, Step
  <1> QED BY <1>1, <1>2 DEF Next, Own

----------------------------------------------------------------------------
(* One command at a time *)

(* Every step keeps one command at a time. *)
LEMMA OneCommandNext ==
  ASSUME DataOK, OneCommand, Quiet, Next
  PROVE  OneCommand' /\ Quiet'
  <1> USE DEF DataOK, OneCommand, Quiet, Set, Inside, Waiting, locals
  <1>n. None \notin Procs
    BY NorAssumption
  <1>1. ASSUME Interrupt PROVE OneCommand' /\ Quiet'
    BY <1>1 DEF Interrupt
  <1>2. ASSUME NEW p \in Procs, Own(p) PROVE OneCommand' /\ Quiet'
    <2>1. CASE Call(p) BY <2>1 DEF Call
    <2>2. CASE Down(p) BY <2>2, <1>n DEF Down, Enter
    <2>3. CASE DownSignal(p) BY <2>3 DEF DownSignal
    <2>4. CASE Pio(p) BY <2>4 DEF Pio
    <2>5. CASE Chunk(p) BY <2>5 DEF Chunk
    <2>6. CASE Sector(p) BY <2>6 DEF Sector
    <2>7. CASE Command(p) BY <2>7 DEF Command
    <2>8. CASE Wait(p) BY <2>8 DEF Wait
    <2>9. CASE Finish(p) BY <2>9 DEF Finish
    <2>10. CASE FinishErase(p) BY <2>10 DEF FinishErase
    <2>11. CASE Up(p) BY <2>11 DEF Up
    <2> QED BY <1>2, <2>1, <2>2, <2>3, <2>4, <2>5, <2>6, <2>7, <2>8, <2>9, <2>10, <2>11
            DEF Own, Step
  <1> QED BY <1>1, <1>2 DEF Next, Own

----------------------------------------------------------------------------
(* The cursor of a call *)

(* A length within the flash does not wrap. *)
LEMMA ModSmall == ASSUME NEW a \in Nat, a <= Size PROVE a % Width = a
  BY NorAssumption

(* A request that fits and is not refused is within the flash, and its length
   is the same as an int. *)
LEMMA WithinFlash ==
  ASSUME NEW r \in Requests, Fits(r), ~PastEnd(r)
  PROVE  r.from + r.len <= Size
  <1>1. r.from \in Nat /\ r.len \in Nat /\ Width \in Nat /\ Size \in Nat /\ Width > 2 * Size
    BY RequestOK, NorAssumption
  <1>2. CASE r.op # "erase"
    BY <1>1, <1>2 DEF PastEnd
  <1>3. CASE r.op = "erase"
    <2>1. r.from + r.len \in Nat /\ r.from + r.len < Width
      BY <1>1, <1>3 DEF Fits
    <2>2. (r.from + r.len) % Width = r.from + r.len
      <3>1. ASSUME NEW a \in Nat, a < Width PROVE a % Width = a
        BY <1>1, <3>1
      <3> QED BY <2>1, <3>1
    <2>3. (r.from + r.len) % Width <= Size
      BY <1>1, <1>3, <2>1, <2>2 DEF PastEnd
    <2> QED BY <2>2, <2>3
  <1> QED BY <1>2, <1>3

(* A length within the flash is the same as an int. *)
LEMMA IntSame == ASSUME NEW k \in Nat, k <= Size PROVE AsInt(k) = k
  BY NorAssumption DEF AsInt

(* Head, piece and the end of a piece keep the cursor of a read or write. *)
LEMMA MoveStep ==
  ASSUME DataOK, AllFit, NEW p \in Procs, CallInv(p), req[p].op # "erase",
         Pio(p) \/ Chunk(p) \/ Finish(p)
  PROVE  CallInv(p)'
  <1> DEFINE r == req[p]
  <1>1. r \in Requests /\ r.from \in Nat /\ r.len \in Nat /\ r.off \in Nat /\ r.off <= r.len
    BY RequestOK DEF DataOK, AllFit, Fits
  <1>2. pc[p] \in Inside /\ pc[p] # "idle" /\ MoveInv(p) /\ r.from + r.len <= Size
    BY DEF Pio, Chunk, Finish, CallInv, Inside
  <1>3. /\ addr[p] \in Nat /\ left[p] \in Int /\ retlen[p] \in Nat /\ cnt[p] \in Nat
        /\ req'[p] = r
    BY DEF DataOK, Pio, Chunk, Finish
  <1>4. CASE Pio(p)
    <2>1. pc[p] = "pio" /\ retlen[p] = 0
      BY <1>2, <1>4 DEF Pio, MoveInv
    <2>2. left'[p] = (left[p] - r.off) % Width /\ addr'[p] = addr[p] + r.off
      BY <1>4 DEF Pio, DataOK, Set
    <2>3. retlen'[p] = r.off /\ pc'[p] = "chunk"
      BY <1>4 DEF Pio, DataOK, Set
    <2>4. left[p] = r.len /\ addr[p] = r.from
      BY <1>1, <1>2, <2>1 DEF MoveInv
    <2>a. r.len - r.off \in Nat /\ r.len - r.off <= Size
      BY <1>1, <1>2, NorAssumption
    <2>b. (r.len - r.off) % Width = r.len - r.off
      BY <2>a, ModSmall
    <2>5. left'[p] = r.len - r.off
      BY <2>2, <2>4, <2>b
    <2>6. MoveInv(p)'
      BY <1>1, <1>3, <2>2, <2>3, <2>4, <2>5 DEF MoveInv, Busy, Waiting
    <2> QED BY <1>2, <1>3, <2>3, <2>6 DEF CallInv, Inside
  <1>5. CASE Chunk(p)
    <2>1. retlen'[p] = retlen[p] /\ addr'[p] = addr[p] /\ left'[p] = left[p]
      BY <1>5 DEF Chunk
    <2>2. \/ pc'[p] = "up"
          \/ pc'[p] = "command" /\ cnt'[p] <= left[p]
      BY <1>3, <1>5, NorAssumption DEF Chunk, DataOK, Set
    <2>3. MoveInv(p)'
      BY <1>2, <1>3, <2>1, <2>2 DEF MoveInv, Busy, Waiting
    <2> QED BY <1>2, <1>3, <2>2, <2>3 DEF CallInv, Inside
  <1>6. CASE Finish(p)
    <2>1. /\ retlen'[p] = retlen[p] + cnt[p] /\ addr'[p] = addr[p] + cnt[p]
          /\ left'[p] = left[p] - cnt[p] /\ pc'[p] = "chunk"
      BY <1>6 DEF Finish, DataOK, Set
    <2>2. cnt[p] <= left[p]
      BY <1>2, <1>6 DEF Finish, MoveInv, Busy
    <2>3. MoveInv(p)'
      BY <1>1, <1>2, <1>3, <2>1, <2>2 DEF MoveInv, Busy, Waiting
    <2> QED BY <1>2, <1>3, <2>1, <2>3 DEF CallInv, Inside
  <1> QED BY <1>4, <1>5, <1>6

(* A sector and its end keep the cursor of an erasure. *)
LEMMA EraseStep ==
  ASSUME DataOK, AllFit, NEW p \in Procs, CallInv(p), req[p].op = "erase",
         Sector(p) \/ FinishErase(p)
  PROVE  CallInv(p)'
  <1> DEFINE r == req[p]
  <1>1. r \in Requests /\ r.from \in Nat /\ r.len \in Nat
    BY RequestOK DEF DataOK
  <1>2. pc[p] \in Inside /\ pc[p] # "idle" /\ EraseInv(p) /\ r.from + r.len <= Size
    BY DEF Sector, FinishErase, CallInv, Inside
  <1>3. addr[p] \in Nat /\ left[p] \in Int /\ cnt[p] \in Nat /\ req'[p] = r
    BY DEF DataOK, Sector, FinishErase
  <1>4. CASE Sector(p)
    <2>1. addr'[p] = addr[p] /\ left'[p] = left[p]
      BY <1>4 DEF Sector
    <2>2. CASE left[p] <= 0
      <3>1. pc'[p] = "up"
        BY <1>3, <1>4, <2>2 DEF Sector, DataOK, Set
      <3>2. EraseInv(p)'
        BY <1>2, <1>3, <2>1, <3>1 DEF EraseInv, Busy, Waiting
      <3> QED BY <1>2, <1>3, <3>1, <3>2 DEF CallInv, Inside
    <2>3. CASE left[p] > 0
      <3>1. PICK s \in map_sector(addr[p]) : cnt' = [cnt EXCEPT ![p] = s.size]
        BY <1>3, <1>4, <2>3 DEF Sector, Set
      <3>2. PICK t \in Sectors : t.start_addr = addr[p]
        BY <1>2, <2>3 DEF EraseInv
      <3>3. s = t
        BY <3>1, <3>2, SectorAt
      <3>4. cnt'[p] = t.size /\ pc'[p] = "command"
        BY <1>3, <1>4, <2>3, <3>1, <3>3 DEF Sector, DataOK, Set
      <3>5. EraseInv(p)'
        BY <1>2, <1>3, <2>1, <2>3, <3>2, <3>4 DEF EraseInv, Busy, Waiting
      <3> QED BY <1>2, <1>3, <3>4, <3>5 DEF CallInv, Inside
    <2> QED BY <1>3, <2>2, <2>3
  <1>5. CASE FinishErase(p)
    <2>1. PICK s \in Sectors : left[p] > 0 /\ s.start_addr = addr[p] /\ s.size = cnt[p]
      BY <1>2, <1>5 DEF FinishErase, EraseInv, Busy
    <2>2. s.start_addr \in Nat /\ s.size \in Nat /\ End(s) = addr[p] + cnt[p]
      BY <2>1, SectorOK
    <2>3. r.from + r.len <= s.start_addr \/ End(s) <= r.from + r.len
      BY <1>1, <2>1 DEF AllFit, Fits
    <2>4. addr[p] + left[p] = r.from + r.len /\ r.from <= addr[p]
      BY <1>2 DEF EraseInv
    <2>5. End(s) <= r.from + r.len /\ cnt[p] <= left[p]
      BY <1>1, <1>3, <2>1, <2>2, <2>3, <2>4
    <2>6. CASE pc'[p] = "up" /\ addr'[p] = addr[p] /\ left'[p] = left[p]
      <3>1. EraseInv(p)'
        BY <1>2, <1>3, <2>6 DEF EraseInv, Busy, Waiting
      <3> QED BY <1>2, <1>3, <2>6, <3>1 DEF CallInv, Inside
    <2>7. CASE /\ addr'[p] = addr[p] + cnt[p] /\ left'[p] = left[p] - cnt[p]
               /\ pc'[p] = "sector"
      <3>1. /\ r.from <= addr'[p] /\ 0 <= left'[p] /\ addr'[p] + left'[p] = r.from + r.len
            /\ left'[p] > 0 => addr'[p] < r.from + r.len
        BY <1>1, <1>3, <2>4, <2>5, <2>7
      <3>2. left'[p] > 0 => End(s) # Size
        BY <1>1, <1>2, <1>3, <2>2, <2>7, <3>1, NorAssumption
      <3>3. left'[p] > 0 => \E t \in Sectors : t.start_addr = addr'[p]
        BY <2>1, <2>2, <2>7, <3>2, SectorAssumption
      <3>4. EraseInv(p)'
        BY <1>3, <2>7, <3>1, <3>3 DEF EraseInv, Busy, Waiting
      <3> QED BY <1>2, <1>3, <2>7, <3>4 DEF CallInv, Inside
    <2> QED BY <1>5, <2>6, <2>7 DEF FinishErase, DataOK, Set
  <1> QED BY <1>4, <1>5

(* A call begins with its cursor at the request. *)
LEMMA DownStep ==
  ASSUME DataOK, AllFit, NEW p \in Procs, CallInv(p), Down(p)
  PROVE  CallInv(p)'
  <1> DEFINE r == req[p]
  <1>1. r \in Requests /\ r.from \in Nat /\ r.len \in Nat /\ Fits(r)
    BY RequestOK DEF DataOK, AllFit
  <1>s. r.from + r.len <= Size /\ Size \in Nat
    BY NorAssumption DEF Down, CallInv
  <1>i. AsInt(r.len) = r.len
    <2>1. r.len <= Size
      BY <1>1, <1>s
    <2> QED BY <1>1, <2>1, IntSame
  <1>2. /\ retlen'[p] = 0 /\ addr'[p] = r.from /\ left'[p] = r.len /\ req'[p] = r
        /\ r.from + r.len <= Size
    BY <1>s, <1>i DEF Down, Enter, CallInv, DataOK, Set, Inside, Waiting
  <1>3. pc'[p] = IF r.op = "erase" THEN "sector" ELSE IF r.off # 0 THEN "pio" ELSE "chunk"
    BY DEF Down, Enter, DataOK, Set
  <1>4. CASE r.op = "erase"
    <2>1. EraseInv(p)'
      BY <1>1, <1>2, <1>3, <1>4 DEF EraseInv, Fits, Busy, Waiting
    <2> QED BY <1>2, <1>3, <1>4, <2>1 DEF CallInv, Inside
  <1>5. CASE r.op # "erase"
    <2>1. MoveInv(p)'
      BY <1>1, <1>2, <1>3, <1>5 DEF MoveInv, Busy, Waiting
    <2> QED BY <1>2, <1>3, <1>5, <2>1 DEF CallInv, Inside
  <1> QED BY <1>4, <1>5

(* Every step keeps the cursors. *)
LEMMA CallInvNext ==
  ASSUME DataOK, AllFit, \A p \in Procs : CallInv(p), Next
  PROVE  \A p \in Procs : CallInv(p)'
  <1>1. ASSUME Interrupt, NEW p \in Procs PROVE CallInv(p)'
    <2>1. pc'[p] = pc[p] \/ (pc[p] \in Waiting /\ pc'[p] \in Waiting)
      BY <1>1 DEF Interrupt, Waiting
    <2>2. /\ req'[p] = req[p] /\ addr'[p] = addr[p] /\ left'[p] = left[p]
          /\ retlen'[p] = retlen[p] /\ cnt'[p] = cnt[p]
      BY <1>1 DEF Interrupt
    <2>3. CallInv(p)
      BY <1>1
    <2> QED BY <2>1, <2>2, <2>3, Frame
  <1>2. ASSUME NEW p \in Procs, Own(p) PROVE CallInv(p)'
    <2>1. CASE Call(p)
      <3>1. PICK r \in Requests :
              /\ req' = [req EXCEPT ![p] = r]
              /\ \/ UNCHANGED pc
                 \/ ~PastEnd(r) /\ pc' = [pc EXCEPT ![p] = "down"]
        BY <2>1 DEF Call, Set
      <3>2. Fits(r)
        BY DEF AllFit
      <3>3. ~PastEnd(r) => r.from + r.len <= Size
        BY <3>2, WithinFlash
      <3>4. pc[p] = "idle" /\ retlen' = retlen /\ left' = left
        BY <2>1 DEF Call
      <3>5. req'[p] = r /\ (pc'[p] = "idle" \/ (pc'[p] = "down" /\ r.from + r.len <= Size))
        BY <3>1, <3>3, <3>4 DEF DataOK
      <3> QED BY <1>2, <3>4, <3>5 DEF CallInv, Inside, Waiting
    <2>2. CASE Down(p) BY <2>2, DownStep
    <2>3. CASE DownSignal(p)
      BY <2>3 DEF DownSignal, CallInv, DataOK, Set, Inside, Waiting
    <2>4. CASE Pio(p) \/ Chunk(p) \/ Finish(p)
      <3>1. req[p].op # "erase"
        BY <2>4 DEF Pio, Chunk, Finish, CallInv, EraseInv, Inside
      <3> QED BY <2>4, <3>1, MoveStep
    <2>5. CASE Sector(p) \/ FinishErase(p)
      <3>1. req[p].op = "erase"
        BY <2>5 DEF Sector, FinishErase, CallInv, MoveInv, Inside
      <3> QED BY <2>5, <3>1, EraseStep
    <2>6. CASE Command(p)
      BY <2>6 DEF Command, CallInv, MoveInv, EraseInv, DataOK, Set, locals, Inside, Busy, Waiting
    <2>7. CASE Wait(p)
      BY <2>7 DEF Wait, CallInv, MoveInv, EraseInv, DataOK, Set, locals, Inside, Busy, Waiting
    <2>8. CASE Up(p)
      BY <2>8 DEF Up, CallInv, DataOK, Set, Inside, Waiting
    <2> QED BY <1>2, <2>1, <2>2, <2>3, <2>4, <2>5, <2>6, <2>7, <2>8 DEF Own, Step
  <1>3. ASSUME NEW p \in Procs, Own(p), NEW q \in Procs \ {p} PROVE CallInv(q)'
    <2>1. q \in Procs /\ CallInv(q)
      BY <1>3
    <2>2. /\ pc'[q] = pc[q] /\ req'[q] = req[q] /\ addr'[q] = addr[q] /\ left'[q] = left[q]
          /\ retlen'[q] = retlen[q] /\ cnt'[q] = cnt[q]
      BY <1>3, OthersKeep DEF Mine
    <2> QED BY <2>1, <2>2, Frame
  <1> QED BY <1>1, <1>2, <1>3 DEF Next, Own

----------------------------------------------------------------------------
(* The invariant, and what follows from it *)

(* The cursor of every call lies where its request and what it has done put it,
   and no answer is left over when a command is given. *)
THEOREM NorInvariant ==
  ASSUME AllFit
  PROVE  Spec => []NorInv
  <1>1. Init => NorInv
    <2> SUFFICES ASSUME Init PROVE NorInv
      OBVIOUS
    <2>1. DataOK
      BY DEF Init, DataOK, Cells
    <2>2. failed \in [Procs -> BOOLEAN]
      BY DEF Init
    <2>3. OneCommand /\ Quiet
      BY DEF Init, OneCommand, Quiet, Inside, Waiting
    <2>4. \A p \in Procs : CallInv(p)
      BY DEF Init, CallInv, Inside, Waiting
    <2> QED BY <2>1, <2>2, <2>3, <2>4 DEF NorInv
  <1>2. NorInv /\ [Next]_vars => NorInv'
    <2> SUFFICES ASSUME NorInv, [Next]_vars PROVE NorInv'
      OBVIOUS
    <2>1. CASE Next
      <3>1. DataOK' /\ OneCommand' /\ Quiet'
        BY <2>1, DataNext, OneCommandNext DEF NorInv
      <3>2. failed' \in [Procs -> BOOLEAN]
        BY <2>1, FlagsNext DEF NorInv
      <3>3. \A p \in Procs : CallInv(p)'
        BY <2>1, CallInvNext DEF NorInv
      <3> QED BY <3>1, <3>2, <3>3 DEF NorInv
    <2>2. CASE UNCHANGED vars
      <3>1. DataOK' /\ OneCommand' /\ Quiet'
        BY <2>2 DEF NorInv, vars, locals, DataOK, OneCommand, Quiet
      <3>2. failed' \in [Procs -> BOOLEAN]
        BY <2>2 DEF NorInv, vars, locals
      <3>3. ASSUME NEW p \in Procs PROVE CallInv(p)'
        BY <2>2 DEF NorInv, vars, locals, CallInv, MoveInv, EraseInv
      <3> QED BY <3>1, <3>2, <3>3 DEF NorInv
    <2> QED BY <2>1, <2>2
  <1> QED BY <1>1, <1>2, PTL DEF Spec

(* Every variable keeps its type; the length that is left of a read or a write
   never wraps. *)
THEOREM TypeCorrect ==
  ASSUME AllFit
  PROVE  Spec => []TypeOK
  <1>1. NorInv => TypeOK
    <2> SUFFICES ASSUME NorInv PROVE TypeOK
      OBVIOUS
    <2>1. DataOK /\ failed \in [Procs -> BOOLEAN]
      BY DEF NorInv
    <2>2. ASSUME NEW p \in Procs, req[p].op # "erase" PROVE left[p] \in 0 .. Width - 1
      <3>1. /\ req[p] \in Requests /\ req[p].from \in Nat /\ req[p].len \in Nat
            /\ left[p] \in Int /\ retlen[p] \in Nat
        BY <2>1, RequestOK DEF DataOK
      <3>2. CallInv(p)
        BY DEF NorInv
      <3>3. CASE pc[p] \in Inside
        <4>1. MoveInv(p) /\ req[p].from + req[p].len <= Size
          BY <2>2, <3>2, <3>3 DEF CallInv, Inside, Waiting
        <4> QED BY <3>1, <4>1, NorAssumption DEF MoveInv
      <3>4. CASE pc[p] \notin Inside
        BY <3>2, <3>4, NorAssumption DEF CallInv
      <3> QED BY <3>3, <3>4
    <2> QED BY <2>1, <2>2 DEF TypeOK, DataOK
  <1> QED BY <1>1, NorInvariant, PTL

(* The controller works for the process that has the semaphore, and has one
   command at a time. *)
THEOREM AloneAtController ==
  ASSUME AllFit
  PROVE  Spec => []OneCommand
  <1>1. NorInv => OneCommand
    BY DEF NorInv
  <1> QED BY <1>1, NorInvariant, PTL

----------------------------------------------------------------------------
(* The cells a step may change *)

(* A command is about cells that were asked. *)
LEMMA TargetAsked ==
  ASSUME AllFit, DataOK, NEW p \in Procs, CallInv(p), pc[p] \in Waiting
  PROVE  Target(p) \subseteq Asked(p)
  <1> DEFINE r == req[p]
  <1>1. r \in Requests /\ r.from \in Nat /\ r.len \in Nat
    BY RequestOK DEF DataOK
  <1>2. addr[p] \in Nat /\ left[p] \in Int /\ cnt[p] \in Nat /\ retlen[p] \in Nat
    BY DEF DataOK
  <1>3. pc[p] \in Inside /\ pc[p] \in Busy
    BY DEF Inside, Busy
  <1>4. CASE r.op # "erase"
    <2>1. MoveInv(p)
      BY <1>3, <1>4 DEF CallInv
    <2>2. r.from <= addr[p] /\ addr[p] + cnt[p] <= r.from + r.len
      BY <1>1, <1>2, <1>3, <2>1 DEF MoveInv
    <2> QED BY <1>1, <1>2, <1>4, <2>2 DEF Target, Base, Asked, Range
  <1>5. CASE r.op = "erase"
    <2>1. EraseInv(p)
      BY <1>3, <1>5 DEF CallInv
    <2>2. PICK s \in Sectors : left[p] > 0 /\ s.start_addr = addr[p] /\ s.size = cnt[p]
      BY <1>3, <2>1 DEF EraseInv
    <2>3. map_sector(addr[p]) = {s}
      BY <2>2, SectorAt
    <2>4. Base(p) = addr[p]
      BY <1>5, <2>2, <2>3 DEF Base
    <2>5. End(s) = addr[p] + cnt[p]
      BY <2>2, SectorOK
    <2>6. r.from + r.len <= addr[p] \/ addr[p] + cnt[p] <= r.from + r.len
      BY <1>1, <1>5, <2>2, <2>5 DEF AllFit, Fits
    <2>7. r.from <= addr[p] /\ addr[p] + left[p] = r.from + r.len
      BY <2>1 DEF EraseInv
    <2>8. addr[p] + cnt[p] <= r.from + r.len
      BY <1>1, <1>2, <2>2, <2>6, <2>7
    <2> QED BY <1>1, <1>2, <2>4, <2>7, <2>8 DEF Target, Asked, Range
  <1> QED BY <1>4, <1>5

(* A head of whole words is written to its end. *)
LEMMA WholeWords ==
  ASSUME NEW n \in Nat, NEW k \in 0 .. n \div Word
  PROVE  Word * k \in Nat /\ Word * k <= n
  <1>1. Word \in Nat /\ Word > 0
    BY NorAssumption
  <1>2. n \div Word \in Nat /\ Word * (n \div Word) <= n
    BY <1>1
  <1>3. Word * k <= Word * (n \div Word)
    BY <1>1, <1>2
  <1> QED BY <1>1, <1>2, <1>3

(* Writing cells leaves the others alone. *)
LEMMA FillOnly ==
  ASSUME NEW where, NEW v, flash' = Fill(where, v), NEW i \in Cells, flash'[i] # flash[i]
  PROVE  i \in where
  BY DEF Fill

Inwards == \A i \in Cells : flash'[i] # flash[i] => sem # None /\ i \in Asked(sem)

(* A step of a call changes no cell outside its request. *)
LEMMA StepInside ==
  ASSUME AllFit, NorInv, Next
  PROVE  Inwards
  <1> SUFFICES ASSUME NEW i \in Cells, flash'[i] # flash[i]
               PROVE  sem # None /\ i \in Asked(sem)
    BY DEF Inwards
  <1>n. None \notin Procs
    BY NorAssumption
  <1>1. CASE Interrupt
    <2>1. ctl \in Procs /\ pc[ctl] \in Waiting /\ CallInv(ctl) /\ DataOK
      BY <1>1 DEF Interrupt, NorInv, DataOK, OneCommand
    <2>2. sem = ctl
      BY <2>1 DEF NorInv, OneCommand, Inside
    <2>3. \E where \in SUBSET Target(ctl), v \in {Erased, Written} :
             flash' = flash \/ flash' = Fill(where, v)
      <3>1. \/ flash' = flash
            \/ flash' = Fill(Target(ctl), Written) \/ flash' = Fill(Target(ctl), Erased)
            \/ \E n \in Torn, v \in {Erased, Written} :
                 flash' = Fill(Target(ctl) \intersect Range(Base(ctl), n), v)
        BY <1>1 DEF Interrupt
      <3> QED BY <3>1
    <2>4. i \in Target(ctl)
      BY <2>3, FillOnly
    <2> QED BY <1>n, <2>1, <2>2, <2>4, TargetAsked
  <1>2. ASSUME NEW p \in Procs, Pio(p) PROVE sem # None /\ i \in Asked(sem)
    <2>1. pc[p] = "pio" /\ sem = p /\ CallInv(p) /\ DataOK
      BY <1>2 DEF Pio, NorInv, OneCommand, Inside
    <2>2. req[p] \in Requests /\ req[p].from \in Nat /\ req[p].len \in Nat /\ req[p].off \in Nat
      BY <2>1, RequestOK DEF DataOK
    <2>3. req[p].op = "write" /\ PioWrite(p)
      BY <1>2 DEF Pio
    <2>4. req[p].off \div Word \in Nat
      BY <2>2, NorAssumption
    <2>5. PICK k \in 0 .. req[p].off \div Word : flash' = Fill(Range(addr[p], Word * k), Written)
      BY <2>3, <2>4 DEF PioWrite
    <2>6. i \in Range(addr[p], Word * k)
      BY <2>5, FillOnly
    <2>7. Word * k \in Nat /\ Word * k <= req[p].off
      BY <2>2, WholeWords
    <2>8. addr[p] = req[p].from /\ req[p].off <= req[p].len
      BY <2>1, <2>2, <2>3 DEF CallInv, MoveInv, Inside, AllFit, Fits
    <2> QED BY <1>n, <2>1, <2>2, <2>6, <2>7, <2>8 DEF Asked, Range
  <1>3. CASE flash' = flash
    BY <1>3
  <1>4. Interrupt \/ (\E p \in Procs : Pio(p)) \/ flash' = flash
    BY DEF Next, Step, Call, Down, Enter, DownSignal, Chunk, Sector, Command, Wait, Finish,
           FinishErase, Up
  <1> QED BY <1>1, <1>2, <1>3, <1>4

(* Reads, writes and erasures that fit change nothing but the cells they were
   asked for, in however many pieces or sectors. *)
THEOREM NothingElseChanges ==
  ASSUME AllFit
  PROVE  Spec => StaysInside
  <1>1. NorInv /\ [Next]_vars => [Inwards]_vars
    BY StepInside
  <1>2. Spec => [][Inwards]_vars
    BY <1>1, NorInvariant, PTL DEF Spec
  <1> QED BY <1>2 DEF StaysInside, Inwards

----------------------------------------------------------------------------
(* What has been done so far.  A command that has been answered counts before
   the process has seen the answer. *)

Answered(p) == pc[p] \in Waiting \union {"finish"} /\ ctl = None
Good(p) == Answered(p) /\ intr = "ok"
Bad(p)  == Answered(p) /\ intr = "error"

Upto(p) == addr[p] - req[p].from + (IF Good(p) THEN cnt[p] ELSE 0)
Sofar(p) == Range(req[p].from, Upto(p))

MovedSo(p) ==
  /\ req[p].op = "read"  => got[p] = Sofar(p)
  /\ req[p].op = "write" => \A i \in Sofar(p) : flash[i] = Written
ErasedSo(p) == failed[p] \/ \A i \in Sofar(p) : flash[i] = Erased

DoneMove(p) ==
  /\ pc[p] = "up" => left[p] = 0
  /\ rc[p] = "OK" /\ ~Bad(p) => MovedSo(p)
DoneErase(p) ==
  /\ rc[p] = "OK" => left[p] = 0
  /\ Bad(p) => failed[p]
  /\ ErasedSo(p)
DoneInv(p) ==
  /\ pc[p] \notin Inside => got[p] = {}
  /\ pc[p] = "finish" => ctl = None
  /\ Answered(p) => intr # "none"
  /\ pc[p] \in Inside /\ req[p].op # "erase" => DoneMove(p)
  /\ pc[p] \in Inside /\ req[p].op = "erase" => DoneErase(p)

(* The head that programmed I/O writes is whole words, and none is refused. *)
WholeHeads == "pio" \notin Faults /\ \A r \in Requests : Word * (r.off \div Word) = r.off

(* Two ranges that meet. *)
LEMMA RangeJoin ==
  ASSUME NEW a \in Nat, NEW n \in Nat, NEW m \in Nat
  PROVE  Range(a, n) \union Range(a + n, m) = Range(a, n + m)
  BY DEF Range

(* A range of no cells. *)
LEMMA RangeEmpty == ASSUME NEW a \in Nat PROVE Range(a, 0) = {}
  BY DEF Range

(* A process outside, or one that nothing happens to, keeps its part. *)
LEMMA DoneFrame ==
  ASSUME NEW p \in Procs, DoneInv(p), UNCHANGED <<addr, left, cnt, failed, got, intr, ctl, flash>>,
         pc'[p] = pc[p], req'[p] = req[p], rc'[p] = rc[p]
  PROVE  DoneInv(p)'
  <1>1. Answered(p)' = Answered(p) /\ Good(p)' = Good(p) /\ Bad(p)' = Bad(p)
    BY DEF Answered, Good, Bad
  <1>2. Sofar(p)' = Sofar(p)
    BY <1>1 DEF Sofar, Upto
  <1> QED BY <1>1, <1>2 DEF DoneInv, DoneMove, DoneErase, MovedSo, ErasedSo

(* A step that moves neither the cursor nor the flash, between places where
   nothing has been answered or the answer is the same. *)
LEMMA DoneSame ==
  ASSUME DataOK, NEW p \in Procs, DoneInv(p), pc[p] \in Inside, pc'[p] \in Inside,
         Good(p)' = Good(p), Bad(p)' = Bad(p),
         UNCHANGED <<req, addr, left, failed, got, flash>>,
         cnt'[p] = cnt[p] \/ ~Good(p)
  PROVE  /\ Sofar(p)' = Sofar(p) /\ MovedSo(p)' = MovedSo(p) /\ ErasedSo(p)' = ErasedSo(p)
  <1>1. Sofar(p)' = Sofar(p)
    BY DEF Sofar, Upto
  <1> QED BY <1>1 DEF MovedSo, ErasedSo

(* The choice of a piece does nothing yet. *)
LEMMA DoneChunk ==
  ASSUME DataOK, NEW p \in Procs, CallInv(p), DoneInv(p), Chunk(p)
  PROVE  DoneInv(p)'
  <1>1. pc[p] = "chunk" /\ pc[p] \in Inside /\ req[p].op # "erase"
    BY DEF Chunk, Inside, CallInv, EraseInv
  <1>2. pc'[p] \in {"up", "command"} /\ (pc'[p] = "up" => left[p] = 0)
    BY DEF Chunk, DataOK, Set
  <1>3. ~Answered(p) /\ ~Answered(p)'
    BY <1>1, <1>2 DEF Answered, Waiting
  <1>4. pc'[p] \in Inside /\ Good(p)' = Good(p) /\ Bad(p)' = Bad(p) /\ ~Good(p)
    BY <1>2, <1>3 DEF Inside, Good, Bad
  <1>5. UNCHANGED <<req, addr, left, failed, got, flash>> /\ rc' = rc
    BY DEF Chunk
  <1>6. MovedSo(p)' = MovedSo(p)
    BY <1>1, <1>4, <1>5, DoneSame
  <1> QED BY <1>1, <1>2, <1>3, <1>4, <1>5, <1>6 DEF DoneInv, DoneMove

(* The choice of a sector does nothing yet. *)
LEMMA DoneSector ==
  ASSUME DataOK, NEW p \in Procs, CallInv(p), DoneInv(p), Sector(p)
  PROVE  DoneInv(p)'
  <1>1. pc[p] = "sector" /\ pc[p] \in Inside /\ req[p].op = "erase" /\ EraseInv(p)
    BY DEF Sector, Inside, CallInv, MoveInv
  <1>2. pc'[p] \in {"up", "command"}
    BY DEF Sector, DataOK, Set
  <1>3. ~Answered(p) /\ ~Answered(p)'
    BY <1>1, <1>2 DEF Answered, Waiting
  <1>4. pc'[p] \in Inside /\ Good(p)' = Good(p) /\ Bad(p)' = Bad(p) /\ ~Good(p) /\ ~Bad(p)'
    BY <1>2, <1>3 DEF Inside, Good, Bad
  <1>5. UNCHANGED <<req, addr, left, failed, got, flash>>
    BY DEF Sector
  <1>6. ErasedSo(p)' = ErasedSo(p)
    BY <1>1, <1>4, <1>5, DoneSame
  <1>7. rc'[p] = rc[p] \/ left[p] = 0
    BY <1>1 DEF Sector, DataOK, EraseInv
  <1> QED BY <1>1, <1>2, <1>3, <1>4, <1>5, <1>6, <1>7 DEF DoneInv, DoneErase

(* Giving a command does nothing yet. *)
LEMMA DoneCommand ==
  ASSUME DataOK, NEW p \in Procs, DoneInv(p), Command(p)
  PROVE  DoneInv(p)'
  <1>1. pc[p] = "command" /\ pc[p] \in Inside /\ pc'[p] = "wait" /\ pc'[p] \in Inside
    BY DEF Command, Inside, Waiting, DataOK, Set
  <1>2. ~Answered(p) /\ ~Answered(p)'
    BY <1>1, NorAssumption DEF Answered, Waiting, Command
  <1>3. Good(p)' = Good(p) /\ Bad(p)' = Bad(p) /\ ~Good(p)
    BY <1>2 DEF Good, Bad
  <1>4. UNCHANGED <<req, addr, left, failed, got, flash>> /\ rc' = rc
    BY DEF Command, locals
  <1>5. MovedSo(p)' = MovedSo(p) /\ ErasedSo(p)' = ErasedSo(p)
    BY <1>1, <1>3, <1>4, DoneSame
  <1> QED BY <1>1, <1>2, <1>3, <1>4, <1>5 DEF DoneInv, DoneMove, DoneErase

(* Waking up finds what the command has done. *)
LEMMA DoneWait ==
  ASSUME DataOK, Quiet, NEW p \in Procs, DoneInv(p), Wait(p)
  PROVE  DoneInv(p)'
  <1>1. pc[p] \in Waiting /\ pc[p] \in Inside
    BY DEF Wait, Waiting, Inside
  <1>2. \/ pc'[p] = "sleep" /\ intr = "none"
        \/ pc'[p] = "finish" /\ intr # "none"
    BY DEF Wait, DataOK, Set
  <1>3. intr' = intr /\ ctl' = ctl /\ cnt' = cnt /\ rc' = rc
    BY DEF Wait, locals
  <1>4. Answered(p)' = Answered(p) /\ (pc'[p] = "finish" => ctl = None)
    BY <1>1, <1>2, <1>3 DEF Answered, Waiting, DoneInv, Quiet
  <1>5. pc'[p] \in Inside /\ Good(p)' = Good(p) /\ Bad(p)' = Bad(p)
    BY <1>2, <1>3, <1>4 DEF Inside, Waiting, Good, Bad
  <1>6. UNCHANGED <<req, addr, left, failed, got, flash>>
    BY DEF Wait, locals
  <1>7. MovedSo(p)' = MovedSo(p) /\ ErasedSo(p)' = ErasedSo(p)
    BY <1>1, <1>3, <1>5, <1>6, DoneSame
  <1> QED BY <1>1, <1>2, <1>3, <1>4, <1>5, <1>6, <1>7 DEF DoneInv, DoneMove, DoneErase

(* Nothing has been done when a call begins. *)
LEMMA DoneDown ==
  ASSUME DataOK, NEW p \in Procs, DoneInv(p), Down(p)
  PROVE  DoneInv(p)'
  <1>1. req[p].from \in Nat /\ pc[p] = "down" /\ got[p] = {}
    BY RequestOK DEF DataOK, Down, DoneInv, Inside, Waiting
  <1>2. pc'[p] \in {"sector", "pio", "chunk"} /\ pc'[p] \in Inside
    BY DEF Down, Enter, DataOK, Set, Inside
  <1>3. ~Answered(p)' /\ ~Good(p)' /\ ~Bad(p)'
    BY <1>2 DEF Answered, Good, Bad, Waiting
  <1>4. addr'[p] = req[p].from /\ req' = req /\ got' = got
    BY DEF Down, Enter, DataOK, Set
  <1>5. Upto(p)' = 0
    BY <1>1, <1>3, <1>4 DEF Upto
  <1>6. Sofar(p)' = {}
    BY <1>1, <1>4, <1>5, RangeEmpty DEF Sofar
  <1>7. MovedSo(p)' /\ ErasedSo(p)'
    BY <1>1, <1>4, <1>6 DEF MovedSo, ErasedSo
  <1>8. req[p].op = "erase" => rc'[p] = "EINVAL"
    BY DEF Down, Enter, DataOK, Set
  <1> QED BY <1>2, <1>3, <1>4, <1>7, <1>8 DEF DoneInv, DoneMove, DoneErase

(* The head has been done. *)
LEMMA DonePio ==
  ASSUME DataOK, AllFit, WholeHeads, NEW p \in Procs, CallInv(p), DoneInv(p), Pio(p)
  PROVE  DoneInv(p)'
  <1> DEFINE r == req[p]
  <1>1. r \in Requests /\ r.from \in Nat /\ r.len \in Nat /\ r.off \in Nat
    BY RequestOK DEF DataOK
  <1>2. pc[p] = "pio" /\ pc[p] \in Inside /\ r.op \in {"read", "write"} /\ req' = req
    BY DEF Pio, Inside
  <1>3. addr[p] = r.from
    BY <1>1, <1>2 DEF CallInv, MoveInv
  <1>4. pc'[p] = "chunk" /\ addr'[p] = r.from + r.off
    BY <1>3 DEF Pio, DataOK, Set
  <1>5. ~Answered(p)' /\ ~Good(p)' /\ ~Bad(p)' /\ pc'[p] \in Inside
    BY <1>4 DEF Answered, Good, Bad, Waiting, Inside
  <1>6. Upto(p)' = r.off
    BY <1>1, <1>2, <1>4, <1>5 DEF Upto
  <1>7. Sofar(p)' = Range(r.from, r.off)
    BY <1>2, <1>6 DEF Sofar
  <1>8. r.op = "read" => got'[p] = Range(r.from, r.off)
    BY <1>3 DEF Pio, DataOK, Set
  <1>9. ASSUME r.op = "write", NEW i \in Range(r.from, r.off) PROVE flash'[i] = Written
    <2>1. flash' = Fill(Range(r.from, r.off), Written)
      BY <1>1, <1>3, <1>9 DEF Pio, PioWrite, WholeHeads
    <2>2. r.off <= r.len /\ r.from + r.len <= Size
      BY <1>1, <1>2 DEF CallInv, AllFit, Fits
    <2>3. i \in Cells
      BY <1>1, <1>9, <2>2, NorAssumption DEF Cells, Range
    <2> QED BY <1>9, <2>1, <2>3 DEF Fill
  <1>10. MovedSo(p)'
    BY <1>2, <1>7, <1>8, <1>9 DEF MovedSo
  <1> QED BY <1>2, <1>4, <1>5, <1>10 DEF DoneInv, DoneMove

(* The end of a piece counts what was done. *)
LEMMA DoneFinish ==
  ASSUME DataOK, NEW p \in Procs, DoneInv(p), Finish(p)
  PROVE  DoneInv(p)'
  <1> DEFINE r == req[p]
  <1>1. r.from \in Nat /\ addr[p] \in Nat /\ cnt[p] \in Nat
    BY RequestOK DEF DataOK
  <1>2. pc[p] = "finish" /\ pc[p] \in Inside /\ r.op # "erase" /\ ctl = None
    BY DEF Finish, Inside, DoneInv
  <1>3. Answered(p) /\ intr \in {"ok", "error"}
    BY <1>2 DEF Answered, DoneInv, DataOK
  <1>4. pc'[p] = "chunk" /\ addr'[p] = addr[p] + cnt[p]
    BY DEF Finish, DataOK, Set
  <1>5. UNCHANGED <<req, got, flash>>
    BY DEF Finish
  <1>6. ~Answered(p)' /\ ~Good(p)' /\ ~Bad(p)' /\ pc'[p] \in Inside
    BY <1>4 DEF Answered, Good, Bad, Waiting, Inside
  <1>7. rc'[p] = "OK" => rc[p] = "OK" /\ intr = "ok"
    BY <1>3 DEF Finish, DataOK, Set
  <1>8. ASSUME rc'[p] = "OK" PROVE MovedSo(p)'
    <2>1. Good(p) /\ ~Bad(p) /\ MovedSo(p)
      BY <1>2, <1>3, <1>7, <1>8 DEF Good, Bad, DoneInv, DoneMove
    <2>2. Upto(p)' = Upto(p)
      BY <1>1, <1>4, <1>5, <1>6, <2>1 DEF Upto
    <2>3. Sofar(p)' = Sofar(p)
      BY <1>5, <2>2 DEF Sofar
    <2> QED BY <1>5, <2>1, <2>3 DEF MovedSo
  <1> QED BY <1>2, <1>4, <1>5, <1>6, <1>8 DEF DoneInv, DoneMove

(* The end of a sector counts what was done. *)
LEMMA DoneFinishErase ==
  ASSUME DataOK, NEW p \in Procs, CallInv(p), DoneInv(p), FinishErase(p)
  PROVE  DoneInv(p)'
  <1> DEFINE r == req[p]
  <1>1. r.from \in Nat /\ addr[p] \in Nat /\ cnt[p] \in Nat /\ left[p] \in Int
    BY RequestOK DEF DataOK
  <1>2. pc[p] = "finish" /\ pc[p] \in Inside /\ r.op = "erase" /\ ctl = None
    BY DEF FinishErase, Inside, DoneInv
  <1>3. Answered(p) /\ intr \in {"ok", "error"} /\ DoneErase(p) /\ EraseInv(p)
    BY <1>2 DEF Answered, DoneInv, DataOK, CallInv
  <1>4. \/ pc'[p] = "sector" /\ addr'[p] = addr[p] + cnt[p]
        \/ pc'[p] = "up" /\ addr'[p] = addr[p]
    BY DEF FinishErase, DataOK, Set
  <1>5. UNCHANGED <<req, got, flash, rc, failed>>
    BY DEF FinishErase
  <1>6. ~Answered(p)' /\ ~Good(p)' /\ ~Bad(p)' /\ pc'[p] \in Inside
    BY <1>4 DEF Answered, Good, Bad, Waiting, Inside
  <1>7. rc[p] # "OK"
    BY <1>1, <1>2, <1>3 DEF DoneErase, EraseInv, Busy
  <1>8. ErasedSo(p)'
    <2>1. CASE failed[p]
      BY <1>5, <2>1 DEF ErasedSo
    <2>2. CASE ~failed[p]
      <3>1. Good(p) /\ \A i \in Sofar(p) : flash[i] = Erased
        BY <1>3, <2>2 DEF DoneErase, ErasedSo, Good, Bad
      <3>2. Upto(p)' \in Int /\ Upto(p) \in Int /\ Upto(p)' <= Upto(p)
        BY <1>1, <1>4, <1>5, <1>6, <3>1 DEF Upto
      <3>3. Sofar(p)' \subseteq Sofar(p)
        BY <1>1, <1>5, <3>2 DEF Sofar, Range
      <3> QED BY <1>5, <3>1, <3>3 DEF ErasedSo
    <2> QED BY <2>1, <2>2
  <1> QED BY <1>2, <1>5, <1>6, <1>4, <1>7, <1>8 DEF DoneInv, DoneErase

(* A command that succeeds has done its cells. *)
LEMMA DoneInterrupt ==
  ASSUME AllFit, NorInv, Interrupt, NEW p \in Procs, p = ctl, DoneInv(p)
  PROVE  DoneInv(p)'
  <1> DEFINE r == req[p]
  <1>1. DataOK /\ CallInv(p) /\ pc[p] \in Waiting /\ pc[p] \in Inside /\ ctl # None
    BY DEF NorInv, OneCommand, Interrupt, Inside
  <1>2. r \in Requests /\ r.from \in Nat /\ r.len \in Nat /\ r.op \in Ops
        /\ addr[p] \in Nat /\ cnt[p] \in Nat
    BY <1>1, RequestOK DEF DataOK
  <1>3. pc'[p] \in Waiting /\ pc'[p] \in Inside
    BY <1>1 DEF Interrupt, Waiting, Inside
  <1>4. ~Answered(p) /\ Answered(p)' /\ UNCHANGED <<req, addr, left, cnt, rc>> /\ ctl' = None
    BY <1>1, <1>3 DEF Answered, Interrupt
  <1>6. r.from <= addr[p] /\ Base(p) = addr[p]
    <2>1. CASE r.op # "erase"
      BY <1>1, <1>2, <2>1 DEF CallInv, MoveInv, Base, DataOK
    <2>2. CASE r.op = "erase"
      <3>1. PICK s \in Sectors : s.start_addr = addr[p]
        BY <1>1, <2>2 DEF CallInv, EraseInv, Busy
      <3>2. map_sector(addr[p]) = {s}
        BY <3>1, SectorAt
      <3> QED BY <1>1, <2>2, <3>1, <3>2 DEF CallInv, EraseInv, Base
    <2> QED BY <2>1, <2>2
  <1> DEFINE n == addr[p] - r.from
  <1>7. n \in Nat /\ r.from + n = addr[p]
    BY <1>2, <1>6
  <1>8. Sofar(p) = Range(r.from, n) /\ Target(p) = Range(addr[p], cnt[p])
    BY <1>2, <1>4, <1>6 DEF Sofar, Upto, Good, Target
  <1>c. Sofar(p) \subseteq Cells
    <2>1. addr[p] <= r.from + r.len /\ r.from + r.len <= Size
      BY <1>1, <1>2 DEF CallInv, MoveInv, EraseInv, DataOK, Waiting
    <2>2. Range(r.from, n) \subseteq 0 .. Size - 1
      <3>1. /\ r.from \in Nat /\ n \in Nat /\ addr[p] \in Nat /\ Size \in Nat
            /\ r.from + n = addr[p] /\ addr[p] <= Size
        BY <1>2, <1>7, <2>1, NorAssumption
      <3> HIDE DEF r, n
      <3> QED BY ONLY <3>1 DEF Range
    <2> QED BY <1>8, <2>2 DEF Cells
  <1>9. CASE intr' = "ok"
    <2>1. Good(p)' /\ ~Bad(p)'
      BY <1>4, <1>9 DEF Good, Bad
    <2>2. Sofar(p)' = Range(r.from, n + cnt[p])
      BY <1>4, <2>1 DEF Sofar, Upto
    <2>3. Sofar(p)' = Sofar(p) \union Target(p)
      <3>1. Range(r.from, n) \union Range(r.from + n, cnt[p]) = Range(r.from, n + cnt[p])
        <4>1. r.from \in Nat /\ n \in Nat /\ cnt[p] \in Nat
          BY <1>2, <1>7
        <4> HIDE DEF n, r
        <4> QED BY ONLY <4>1, RangeJoin
      <3> HIDE DEF n, r
      <3> QED BY <1>7, <1>8, <2>2, <3>1
    <2>4. Target(p) \subseteq Cells
      <3>1. Target(p) \subseteq Asked(p)
        BY <1>1, TargetAsked
      <3>2. r.from + r.len <= Size
        BY <1>1 DEF CallInv, Waiting
      <3>3. Asked(p) \subseteq Cells
        BY <1>2, <3>2, NorAssumption DEF Asked, Range, Cells
      <3> QED BY <3>1, <3>3
    <2>5. failed' = failed
      BY <1>9 DEF Interrupt
    <2>6. /\ r.op = "read"  => got'[p] = got[p] \union Target(p)
          /\ r.op = "write" => flash' = Fill(Target(p), Written)
          /\ r.op = "erase" => flash' = Fill(Target(p), Erased)
      BY <1>1, <1>9 DEF Interrupt, DataOK, Set
    <2>7. ~Bad(p)
      BY <1>4 DEF Bad
    <2>8. CASE r.op = "read"
      BY <1>1, <1>3, <1>4, <1>9, <2>1, <2>3, <2>6, <2>7, <2>8
         DEF DoneInv, DoneMove, MovedSo, Waiting
    <2>9. CASE r.op = "write"
      <3>1. ASSUME rc[p] = "OK", NEW i \in Sofar(p)' PROVE flash'[i] = Written
        <4>1. \A j \in Sofar(p) : flash[j] = Written
          BY <1>1, <2>7, <2>9, <3>1 DEF DoneInv, DoneMove, MovedSo
        <4>2. CASE i \in Target(p)
          BY <2>4, <2>6, <2>9, <4>2 DEF Fill
        <4>3. CASE i \in Sofar(p)
          BY <1>c, <2>6, <2>9, <4>1, <4>3 DEF Fill
        <4> QED BY <2>3, <3>1, <4>2, <4>3
      <3>2. rc'[p] = "OK" => MovedSo(p)'
        BY <1>4, <2>9, <3>1 DEF MovedSo
      <3> QED BY <1>1, <1>3, <1>4, <1>9, <2>1, <2>9, <3>2 DEF DoneInv, DoneMove, Waiting
    <2>10. CASE r.op = "erase"
      <3>1. ErasedSo(p)'
        <4>1. CASE failed[p]
          BY <2>5, <4>1 DEF ErasedSo
        <4>2. CASE ~failed[p]
          <5>1. \A j \in Sofar(p) : flash[j] = Erased
            BY <1>1, <2>10, <4>2 DEF DoneInv, DoneErase, ErasedSo
          <5>2. ASSUME NEW i \in Sofar(p)' PROVE flash'[i] = Erased
            <6>1. CASE i \in Target(p)
              BY <2>4, <2>6, <2>10, <6>1 DEF Fill
            <6>2. CASE i \in Sofar(p)
              BY <1>c, <2>6, <2>10, <5>1, <6>2 DEF Fill
            <6> QED BY <2>3, <5>2, <6>1, <6>2
          <5> QED BY <5>2 DEF ErasedSo
        <4> QED BY <4>1, <4>2
      <3>2. DoneErase(p)'
        BY <1>1, <1>4, <2>1, <2>10, <3>1 DEF DoneErase, DoneInv
      <3> QED BY <1>3, <1>4, <1>9, <2>10, <3>2 DEF DoneInv, Waiting
    <2> QED BY <1>2, <2>8, <2>9, <2>10 DEF Ops
  <1>10. CASE intr' = "error"
    <2>1. ~Good(p)' /\ Bad(p)'
      BY <1>4, <1>10 DEF Good, Bad
    <2>2. r.op # "erase" => DoneMove(p)'
      BY <1>3, <2>1 DEF DoneMove, Waiting
    <2>3. failed'[p]
      BY <1>10 DEF Interrupt, NorInv, Set
    <2>4. r.op = "erase" => DoneErase(p)'
      BY <1>1, <1>4, <2>3 DEF DoneErase, DoneInv, ErasedSo
    <2> QED BY <1>3, <1>4, <1>10, <2>2, <2>4 DEF DoneInv, Waiting
  <1> QED BY <1>9, <1>10 DEF Interrupt

(* A process that is not inside keeps an empty hand. *)
LEMMA DoneOutside ==
  ASSUME NEW q \in Procs, DoneInv(q), pc[q] \notin Inside, pc'[q] = pc[q], got'[q] = got[q]
  PROVE  DoneInv(q)'
  BY DEF DoneInv, Answered, Inside, Waiting

(* Every step keeps DoneInv. *)
LEMMA DoneNext ==
  ASSUME AllFit, WholeHeads, NorInv, \A p \in Procs : DoneInv(p), Next
  PROVE  \A p \in Procs : DoneInv(p)'
  <1>d. DataOK /\ OneCommand /\ Quiet /\ None \notin Procs
    BY NorAssumption DEF NorInv
  <1>1. ASSUME Interrupt, NEW q \in Procs PROVE DoneInv(q)'
    <2>1. CASE q = ctl
      BY <1>1, <2>1, DoneInterrupt
    <2>2. CASE q # ctl
      <3>1. ctl \in Procs /\ pc[ctl] \in Inside /\ sem = ctl
        BY <1>1, <1>d DEF Interrupt, DataOK, OneCommand, Inside
      <3>2. pc[q] \notin Inside
        BY <1>1, <1>d, <2>2, <3>1 DEF OneCommand
      <3>3. pc'[q] = pc[q] /\ got'[q] = got[q]
        BY <1>1, <1>d, <2>2, <3>2 DEF Interrupt, DataOK, Set, Inside, Waiting
      <3> QED BY <1>1, <3>2, <3>3, DoneOutside
    <2> QED BY <2>1, <2>2
  <1>2. ASSUME NEW p \in Procs, Own(p) PROVE DoneInv(p)'
    <2>0. CallInv(p) /\ DoneInv(p)
      BY <1>2 DEF NorInv
    <2>1. CASE Call(p) \/ DownSignal(p)
      <3>1. pc[p] \notin Inside /\ pc'[p] \notin Inside /\ pc'[p] \in {"idle", "down"} /\ got' = got
        BY <1>d, <2>1 DEF Call, DownSignal, DataOK, Set, Inside, Waiting
      <3> QED BY <2>0, <3>1 DEF DoneInv, Answered, Inside, Waiting
    <2>2. CASE Down(p) BY <1>d, <2>0, <2>2, DoneDown
    <2>3. CASE Pio(p) BY <1>d, <2>0, <2>3, DonePio
    <2>4. CASE Chunk(p) BY <1>d, <2>0, <2>4, DoneChunk
    <2>5. CASE Sector(p) BY <1>d, <2>0, <2>5, DoneSector
    <2>6. CASE Command(p) BY <1>d, <2>0, <2>6, DoneCommand
    <2>7. CASE Wait(p) BY <1>d, <2>0, <2>7, DoneWait
    <2>8. CASE Finish(p) BY <1>d, <2>0, <2>8, DoneFinish
    <2>9. CASE FinishErase(p) BY <1>d, <2>0, <2>9, DoneFinishErase
    <2>10. CASE Up(p)
      <3>1. pc'[p] = "idle" /\ got'[p] = {}
        BY <1>d, <2>10 DEF Up, DataOK, Set
      <3> QED BY <3>1 DEF DoneInv, Answered, Inside, Waiting
    <2> QED BY <1>2, <2>1, <2>2, <2>3, <2>4, <2>5, <2>6, <2>7, <2>8, <2>9, <2>10 DEF Own, Step
  <1>3. ASSUME NEW p \in Procs, Own(p), NEW q \in Procs, q # p PROVE DoneInv(q)'
    <2>0. DoneInv(q)
      BY <1>3
    <2>1. CASE Call(p) \/ DownSignal(p)
      <3>1. UNCHANGED <<addr, left, cnt, failed, got, intr, ctl, flash>>
        BY <2>1 DEF Call, DownSignal
      <3>2. pc'[q] = pc[q] /\ req'[q] = req[q] /\ rc'[q] = rc[q]
        BY <1>3, <1>d, <2>1 DEF Call, DownSignal, DataOK, Set
      <3> QED BY <2>0, <3>1, <3>2, DoneFrame
    <2>2. CASE ~(Call(p) \/ DownSignal(p))
      <3>1. sem = None \/ pc[p] \in Inside
        BY <1>3, <2>2 DEF Own, Step, Down, Pio, Chunk, Sector, Command, Wait, Finish,
                          FinishErase, Up, Inside, Waiting
      <3>2. pc[q] \notin Inside
        BY <1>3, <1>d, <3>1 DEF OneCommand
      <3>3. pc'[q] = pc[q]
        BY <1>3, <1>d, OthersKeep DEF Mine
      <3>4. got'[q] = got[q]
        BY <1>3, <1>d, <2>2 DEF Own, Step, Down, Enter, Pio, Chunk, Sector, Command, Wait, Finish,
                                FinishErase, Up, DataOK, Set, locals
      <3> QED BY <2>0, <3>2, <3>3, <3>4, DoneOutside
    <2> QED BY <2>1, <2>2
  <1> QED BY <1>1, <1>2, <1>3 DEF Next, Own

(* For requests that fit and heads of whole words that are not refused: a read
   or a write that says OK has done all it was asked, so that an error in one
   piece is not lost in the next, and so has an erasure that says OK, unless one
   of its commands was reported failed. *)
THEOREM OkIsComplete ==
  ASSUME AllFit, WholeHeads
  PROVE  Spec => []CompleteOrError
  <1> DEFINE D == \A p \in Procs : DoneInv(p)
  <1>1. Init => D
    BY DEF Init, DoneInv, Answered, Inside, Waiting
  <1>2. NorInv /\ D /\ [Next]_vars => D'
    <2> SUFFICES ASSUME NorInv, D, [Next]_vars, NEW p \in Procs PROVE DoneInv(p)'
      OBVIOUS
    <2>1. CASE Next
      BY <2>1, DoneNext
    <2>2. CASE UNCHANGED vars
      BY <2>2, DoneFrame DEF vars, locals
    <2> QED BY <2>1, <2>2
  <1>3. NorInv /\ D => CompleteOrError
    <2> SUFFICES ASSUME NorInv, D, NEW p \in Procs, pc[p] = "up", rc[p] = "OK" PROVE Done(p)
      BY DEF CompleteOrError
    <2>1. DataOK /\ CallInv(p) /\ DoneInv(p) /\ pc[p] \in Inside
      BY DEF NorInv, Inside
    <2>2. /\ req[p] \in Requests /\ req[p].from \in Nat /\ req[p].len \in Nat
          /\ addr[p] \in Nat /\ left[p] \in Int /\ retlen[p] \in Nat
      BY <2>1, RequestOK DEF DataOK
    <2>3. ~Answered(p) /\ ~Good(p) /\ ~Bad(p)
      BY DEF Answered, Good, Bad, Waiting
    <2>4. left[p] = 0
      BY <2>1, <2>3 DEF DoneInv, DoneMove, DoneErase
    <2>5. addr[p] = req[p].from + req[p].len /\ (req[p].op # "erase" => retlen[p] = req[p].len)
      BY <2>1, <2>2, <2>4 DEF CallInv, MoveInv, EraseInv
    <2>6. Upto(p) = req[p].len
      BY <2>2, <2>3, <2>5 DEF Upto
    <2>7. Sofar(p) = Asked(p)
      BY <2>6 DEF Sofar, Asked
    <2>8. CASE req[p].op # "erase"
      BY <2>1, <2>3, <2>5, <2>7, <2>8 DEF Done, DoneInv, DoneMove, MovedSo
    <2>9. CASE req[p].op = "erase"
      BY <2>1, <2>7, <2>9 DEF Done, DoneInv, DoneErase, ErasedSo
    <2> QED BY <2>8, <2>9
  <1> HIDE DEF D
  <1> QED BY <1>1, <1>2, <1>3, NorInvariant, PTL DEF Spec

============================================================================
