--------------------------- MODULE Ac97OutProofs ---------------------------
(***************************************************************************)
(* Proofs about Ac97Out for rings of every size, every choice of numbers of *)
(* slots and any number of calls while upset.                              *)
(***************************************************************************)
EXTENDS Ac97Out, TLAPS

(* While clean_buffer runs the indices are zero already, and the handler has no
   work left. *)
Cleaning ==
  pc = "clean" => ihw = 0 /\ ihead = 0 /\ itail = 0 /\ todo = 0

(* The order of the indices. *)
Ordered == InOrder /\ IssuesAlways /\ Cleaning

(* A drain has put its last slot and has not returned. *)
Draining ==
  \/ pc \in {"drain", "drainsleep"}
  \/ pc \in {"test", "disable", "issue"} /\ ret = "drain"

(* A write is under way. *)
Writing ==
  \/ pc \in {"full", "sleep"}
  \/ pc \in {"test", "disable", "issue"} /\ ret = "full"

(* What holds whatever has happened: a packet is delivered after it is enabled, a
   write is made in state RW, and RESET finds the hardware at rest and keeps it
   so. *)
Steady ==
  /\ fed <= pend
  /\ Writing => state = "RW"
  /\ goal = "reset" => ~start /\ ~dma /\ pend = 0 /\ (Draining \/ pc = "clean")

(* Indices out of order put the engine out of step. *)
SpoiledUpsets == spoiled => upset

RingInv == TypeOK /\ Steady /\ SpoiledUpsets /\ (spoiled \/ Ordered)
-----------------------------------------------------------------------------
(* The ring has between 4 and MaxSlots slots. *)
LEMMA SlotsBound ==
    ASSUME NEW n \in SlotChoices
    PROVE  n \in Nat /\ 4 <= n /\ n <= MaxSlots /\ MaxSlots \in Nat
  BY SlotsAssumption

(* One slot further at the end of a stretch of the ring. *)
LEMMA DistGrows ==
    ASSUME slots \in Nat, 4 <= slots,
           NEW a \in 0 .. 2 * slots - 1, NEW b \in 0 .. 2 * slots - 1,
           Dist(a, b) < slots
    PROVE  /\ advance_idx(b) \in 0 .. 2 * slots - 1
           /\ Dist(a, advance_idx(b)) = Dist(a, b) + 1
  BY DEF Dist, advance_idx

(* One slot further at the beginning of two stretches of the ring. *)
LEMMA DistShrinks ==
    ASSUME slots \in Nat, 4 <= slots,
           NEW a \in 0 .. 2 * slots - 1, NEW h \in 0 .. 2 * slots - 1,
           NEW t \in 0 .. 2 * slots - 1,
           0 < Dist(a, h), Dist(a, h) <= Dist(a, t)
    PROVE  /\ advance_idx(a) \in 0 .. 2 * slots - 1
           /\ Dist(advance_idx(a), h) = Dist(a, h) - 1
           /\ Dist(advance_idx(a), t) = Dist(a, t) - 1
  BY DEF Dist, advance_idx

(* The test for a full ring: one whole round between ihw and itail. *)
LEMMA FullIsFull ==
    ASSUME slots \in Nat, 4 <= slots,
           ihw \in 0 .. 2 * slots - 1, itail \in 0 .. 2 * slots - 1
    PROVE  Full <=> Dist(ihw, itail) = slots
  BY DEF Full, ABS, Dist

(* What the invariant says of the indices. *)
LEMMA Indices ==
    ASSUME DataOK, InOrder
    PROVE  /\ slots \in Nat /\ 4 <= slots /\ slots <= MaxSlots /\ MaxSlots \in Nat
           /\ ihw \in 0 .. 2 * slots - 1 /\ ihead \in 0 .. 2 * slots - 1
           /\ itail \in 0 .. 2 * slots - 1
           /\ regular_idx(ihw) \in Entries
           /\ regular_idx(ihead) \in Entries
           /\ regular_idx(itail) \in Entries
           /\ issues \in 0 .. 2 /\ pend \in 0 .. 2 /\ dmaidx \in Entries
<1>1. slots \in Nat /\ 4 <= slots /\ slots <= MaxSlots /\ MaxSlots \in Nat
  BY SlotsBound DEF DataOK
<1> QED
  BY <1>1 DEF DataOK, InOrder, regular_idx, Entries

(* issue_out hands over the slot at ihead if there is one. *)
LEMMA IssueRing ==
    ASSUME DataOK, InOrder, issues = Dist(ihw, ihead), NEW err, Issue(err),
           UNCHANGED <<slots, ihw, itail>>
    PROVE  /\ InOrder' /\ (issues = Dist(ihw, ihead))'
           /\ ihead' \in 0 .. 2 * MaxSlots - 1 /\ issues' \in 0 .. 2
           /\ dmaidx' \in Entries
           /\ pend' \in 0 .. 2 /\ pend <= pend'
<1>1. CASE UNCHANGED <<issues, pend, ihead, dma, dmaidx>>
  BY <1>1 DEF InOrder, Dist, DataOK
<1>2. CASE /\ ihead # itail /\ issues < 2
           /\ issues' = issues + 1
           /\ pend' = IF pend = 2 THEN 2 ELSE pend + 1
           /\ ihead' = advance_idx(ihead)
           /\ dmaidx' = IF dma THEN dmaidx ELSE regular_idx(ihead)
  <2>1. Dist(ihw, ihead) < Dist(ihw, itail)
    <3>1. Dist(ihw, ihead) <= Dist(ihw, itail)
      BY DEF InOrder
    <3> QED
      BY <1>2, <3>1, Indices DEF Dist
  <2>2. Dist(ihw, ihead') = Dist(ihw, ihead) + 1 /\ ihead' \in 0 .. 2 * slots - 1
    <3>1. Dist(ihw, ihead) \in Int /\ Dist(ihw, itail) \in Int
      BY Indices DEF Dist
    <3>2. Dist(ihw, ihead) < slots
      BY <2>1, <3>1, Indices DEF InOrder
    <3> QED
      BY <1>2, <3>2, Indices, DistGrows
  <2>3. InOrder' /\ (issues = Dist(ihw, ihead))'
    BY <1>2, <2>1, <2>2, Indices DEF InOrder, Dist
  <2> QED
    <3>1. ihead' \in 0 .. 2 * MaxSlots - 1 /\ dmaidx' \in Entries
      BY <1>2, <2>2, Indices
    <3>2. issues' \in 0 .. 2 /\ pend' \in 0 .. 2 /\ pend <= pend'
      BY <1>2, Indices
    <3> QED
      BY <2>3, <3>1, <3>2
<1> QED
  BY <1>1, <1>2 DEF Issue

(* A slot is added behind itail when the ring is not full. *)
LEMMA PutRing ==
    ASSUME DataOK, InOrder, ~Full, itail' = advance_idx(itail),
           UNCHANGED <<slots, ihw, ihead>>
    PROVE  InOrder' /\ itail' \in 0 .. 2 * MaxSlots - 1
<1>1. Dist(ihw, itail) < slots
  BY Indices, FullIsFull DEF InOrder, Dist
<1>2. Dist(ihw, itail') = Dist(ihw, itail) + 1 /\ itail' \in 0 .. 2 * slots - 1
  BY <1>1, Indices, DistGrows
<1> QED
  BY <1>1, <1>2, Indices DEF InOrder, Dist

(* The ring is in order if ihw has come k slots nearer to ihead and itail. *)
LEMMA Retired ==
    ASSUME DataOK, InOrder, issues = Dist(ihw, ihead),
           NEW k \in 1 .. 2, k <= issues, issues' = issues - k,
           ihw' \in 0 .. 2 * slots - 1,
           Dist(ihw', ihead) = Dist(ihw, ihead) - k,
           Dist(ihw', itail) = Dist(ihw, itail) - k,
           UNCHANGED <<slots, ihead, itail>>
    PROVE  /\ InOrder' /\ (issues = Dist(ihw, ihead))'
           /\ ihw' \in 0 .. 2 * MaxSlots - 1 /\ issues' \in 0 .. 2
<1>1. Dist(ihw, ihead) \in Int /\ Dist(ihw, itail) \in Int
  BY Indices DEF Dist
<1>2. (Dist(ihw, ihead))' = Dist(ihw', ihead) /\ (Dist(ihw, itail))' = Dist(ihw', itail)
  BY DEF Dist
<1>3. InOrder' /\ (issues = Dist(ihw, ihead))'
  <2>1. ihw' < 2 * slots' /\ ihead' < 2 * slots' /\ itail' < 2 * slots'
    BY Indices
  <2>2. Dist(ihw', ihead) = Dist(ihw, ihead) - k /\ Dist(ihw', itail) <= slots
        /\ Dist(ihw', ihead) <= Dist(ihw', itail)
    BY <1>1, Indices DEF InOrder
  <2> QED
    BY <1>2, <2>1, <2>2 DEF InOrder
<1>4. ihw' \in 0 .. 2 * MaxSlots - 1 /\ issues' \in 0 .. 2
  BY Indices
<1> QED
  BY <1>3, <1>4

(* Retired slots are taken off at ihw. *)
LEMMA HandlerRing ==
    ASSUME DataOK, InOrder, issues = Dist(ihw, ihead),
           NEW k \in 0 .. 2, k <= issues,
           issues' = issues - k,
           ihw' = (IF k = 0 THEN ihw ELSE IF k = 1 THEN advance_idx(ihw)
                   ELSE advance_idx(advance_idx(ihw))),
           UNCHANGED <<slots, ihead, itail>>
    PROVE  /\ InOrder' /\ (issues = Dist(ihw, ihead))'
           /\ ihw' \in 0 .. 2 * MaxSlots - 1 /\ issues' \in 0 .. 2
<1> DEFINE one == advance_idx(ihw)
           two == advance_idx(advance_idx(ihw))
<1>1. CASE k = 0
  BY <1>1 DEF InOrder, Dist, DataOK
<1>2. k # 0 => /\ one \in 0 .. 2 * slots - 1
               /\ Dist(one, ihead) = Dist(ihw, ihead) - 1
               /\ Dist(one, itail) = Dist(ihw, itail) - 1
  <2>1. k # 0 => 0 < Dist(ihw, ihead)
    BY DEF DataOK
  <2>2. Dist(ihw, ihead) <= Dist(ihw, itail)
    BY DEF InOrder
  <2> QED
    BY <2>1, <2>2, Indices, DistShrinks
<1>3. k = 2 => /\ two \in 0 .. 2 * slots - 1
               /\ Dist(two, ihead) = Dist(one, ihead) - 1
               /\ Dist(two, itail) = Dist(one, itail) - 1
  <2> HIDE DEF one
  <2>1. k = 2 => two = advance_idx(one)
    BY DEF one
  <2>2. Dist(ihw, ihead) \in Int /\ Dist(ihw, itail) \in Int
    BY Indices DEF Dist
  <2>3. k = 2 => 0 < Dist(one, ihead) /\ Dist(one, ihead) <= Dist(one, itail)
    BY <1>2, <2>2, SMTT(30) DEF DataOK, InOrder
  <2> HIDE DEF two
  <2> QED
    BY <1>2, <2>1, <2>3, Indices, DistShrinks
<1> HIDE DEF one, two
<1>4. CASE k = 1
  <2>1. ihw' = one
    BY <1>4 DEF one
  <2> QED
    <3>1. Dist(ihw', ihead) = Dist(ihw, ihead) - k
          /\ Dist(ihw', itail) = Dist(ihw, itail) - k
      BY <1>2, <1>4, <2>1
    <3> QED
      BY <1>2, <1>4, <2>1, <3>1, Retired
<1>5. CASE k = 2
  <2>1. ihw' = two
    BY <1>5 DEF two
  <2> QED
    <3>1. Dist(ihw, ihead) \in Int /\ Dist(ihw, itail) \in Int
      BY Indices DEF Dist
    <3>2. Dist(ihw', ihead) = Dist(ihw, ihead) - k
          /\ Dist(ihw', itail) = Dist(ihw, itail) - k
      BY <1>2, <1>3, <1>5, <2>1, <3>1
    <3> QED
      BY <1>3, <1>5, <2>1, <3>2, Retired
<1> QED
  BY <1>1, <1>4, <1>5
-----------------------------------------------------------------------------
(* The driver starts with an empty ring. *)
LEMMA InvInit == Init => RingInv
<1> SUFFICES ASSUME Init PROVE RingInv
  OBVIOUS
<1>1. FlagsOK
  BY Zenon DEF Init, FlagsOK
<1>2. slots \in Nat /\ 4 <= slots /\ slots <= MaxSlots /\ MaxSlots \in Nat
  BY SlotsBound DEF Init
<1>3. DataOK
  BY <1>2, WriteAssumption, LateAssumption DEF Init, DataOK, Entries
<1>4. Ordered
  BY <1>2 DEF Init, Ordered, InOrder, IssuesAlways, Cleaning, Dist
<1>5. Steady /\ SpoiledUpsets
  BY DEF Init, Steady, SpoiledUpsets, Writing
<1> QED
  BY <1>1, <1>3, <1>4, <1>5 DEF RingInv, TypeOK

(* issue_out keeps dma Boolean. *)
LEMMA IssueFlags ==
    ASSUME NEW err, Issue(err), dma \in BOOLEAN
    PROVE  dma' \in BOOLEAN
<1>1. dma' = TRUE \/ dma' = dma
  BY Zenon DEF Issue
<1> QED
  BY <1>1, Zenon

(* Every action keeps the flags Boolean. *)
LEMMA FlagsNext == FlagsOK /\ [Next]_vars => FlagsOK'
<1> SUFFICES ASSUME FlagsOK, [Next]_vars
             PROVE  FlagsOK'
  OBVIOUS
<1> USE DEF FlagsOK, hwVars, ringVars, procVars, histVars
<1>1. CASE IssueTest \/ IssueDisable
  BY <1>1, Zenon DEF IssueTest, IssueDisable
<1>2. CASE IssueSlot
  <2>1. dma' \in BOOLEAN
    BY <1>2, IssueFlags, Zenon DEF IssueSlot
  <2> QED
    BY <1>2, <2>1, Zenon DEF IssueSlot
<1>3. CASE WriteDone \/ WriteSlot \/ DrainWait \/ WriteSignal
  BY <1>3, Zenon DEF WriteDone, WriteSlot, DrainWait, WriteSignal
<1>4. ASSUME NEW next, WriteFull(next) PROVE FlagsOK'
  BY <1>4, Zenon DEF WriteFull
<1>5. CASE DrainEnd
  <2>1. upset' \in BOOLEAN /\ spoiled' \in BOOLEAN
    BY <1>5, Zenon DEF DrainEnd
  <2> QED
    BY <1>5, <2>1, Zenon DEF DrainEnd
<1>6. CASE Clean
  BY <1>6, Zenon DEF Clean
<1>7. CASE Open \/ SetTrigger \/ Post
  BY <1>7, Zenon DEF Open, SetTrigger, Post
<1>8. ASSUME NEW m, SetFragment(m) \/ Write(m) PROVE FlagsOK'
  <2>1. upset' \in BOOLEAN /\ spoiled' \in BOOLEAN
    BY <1>8, Zenon DEF SetFragment, Write
  <2> QED
    BY <1>8, <2>1, Zenon DEF SetFragment, Write
<1>9. ASSUME NEW why, Drain(why) PROVE FlagsOK'
  <2>1. start' \in BOOLEAN /\ dma' \in BOOLEAN
    BY <1>9, Zenon DEF Drain
  <2> QED
    BY <1>9, <2>1, Zenon DEF Drain
<1>10. CASE Handler
  <2>1. upset' \in BOOLEAN /\ spoiled' \in BOOLEAN
    BY <1>10, Zenon DEF Handler
  <2> QED
    BY <1>10, <2>1, Zenon DEF Handler
<1>11. CASE HandlerIssue
  <2>1. dma' \in BOOLEAN
    BY <1>11, IssueFlags, Zenon DEF HandlerIssue
  <2> QED
    BY <1>11, <2>1, Zenon DEF HandlerIssue
<1>12. CASE HwFetch
  BY <1>12, Zenon DEF HwFetch
<1>13. CASE HwStop
  BY <1>13, Zenon DEF HwStop
<1>14. CASE HwPlay
  <2>1. unf' \in BOOLEAN
    BY <1>14, Zenon DEF HwPlay
  <2> QED
    BY <1>14, <2>1, Zenon DEF HwPlay
<1>15. CASE UNCHANGED vars
  BY <1>15, Zenon DEF vars
<1> QED
  BY <1>1, <1>2, <1>3, <1>4, <1>5, <1>6, <1>7, <1>8, <1>9, <1>10, <1>11, <1>12,
     <1>13, <1>14, <1>15, Zenon DEF Next, ProcessStep, UserStep, HwStep
-----------------------------------------------------------------------------
(* What every step keeps, whatever has happened before *)

(* Indices of the doubled ring lead to entries. *)
LEMMA IndexTypes ==
    ASSUME DataOK, NEW x \in 0 .. 2 * MaxSlots - 1
    PROVE  /\ advance_idx(x) \in 0 .. 2 * MaxSlots - 1
           /\ regular_idx(x) \in Entries
           /\ slots \in Nat /\ 4 <= slots /\ slots <= MaxSlots /\ MaxSlots \in Nat
<1>1. slots \in Nat /\ 4 <= slots /\ slots <= MaxSlots /\ MaxSlots \in Nat
  BY SlotsBound DEF DataOK
<1> QED
  BY <1>1 DEF advance_idx, regular_idx, Entries

(* issue_out keeps the types of what it changes. *)
LEMMA IssueTypes ==
    ASSUME DataOK, NEW err, Issue(err)
    PROVE  /\ issues' \in 0 .. 2 /\ pend' \in 0 .. 2 /\ pend <= pend'
           /\ ihead' \in 0 .. 2 * MaxSlots - 1 /\ dmaidx' \in Entries
           /\ ~start => UNCHANGED <<dma, pend>>
<1>1. /\ issues \in 0 .. 2 /\ pend \in 0 .. 2
      /\ ihead \in 0 .. 2 * MaxSlots - 1 /\ dmaidx \in Entries
  BY DEF DataOK
<1>2. advance_idx(ihead) \in 0 .. 2 * MaxSlots - 1 /\ regular_idx(ihead) \in Entries
  BY <1>1, IndexTypes
<1> QED
  BY <1>1, <1>2 DEF Issue

(* A call counts itself. *)
LEMMA CallsBounded ==
    ASSUME DataOK, Calls
    PROVE  late' \in 0 .. MaxLate /\ pc = "user" /\ todo = 0 /\ ~irq
  BY LateAssumption DEF DataOK, Calls, ProcessRuns

(* Steps of the process that leave ring and hardware alone. *)
LEMMA QuietTypes ==
    ASSUME DataOK, Steady,
           \/ IssueTest \/ IssueDisable \/ Open \/ SetTrigger \/ Post \/ WriteSignal
           \/ WriteDone \/ DrainWait
           \/ \E next \in {"sleep", "user"} : WriteFull(next)
           \/ \E m \in 1 .. MaxWrite : Write(m)
    PROVE  DataOK' /\ Steady'
<1>1. /\ UNCHANGED <<slots, ihw, ihead, itail, issues, mde, dmaidx, pend, fed, todo, goal>>
      /\ pc' \in {"user", "test", "disable", "issue", "full", "sleep", "drain",
                  "drainsleep"}
      /\ pc # "clean"
      /\ ret' \in {"user", "full", "drain"}
      /\ state' \in {"CLOSE", "OPEN", "RW"}
      /\ count' \in 0 .. MaxWrite
      /\ late' \in 0 .. MaxLate
  <2> USE WriteAssumption DEF DataOK, hwVars, ringVars, histVars
  <2>1. CASE IssueTest \/ IssueDisable
    BY <2>1 DEF IssueTest, IssueDisable, Goto
  <2>2. CASE Open \/ SetTrigger
    <3>1. late' \in 0 .. MaxLate /\ pc = "user"
      BY <2>2, CallsBounded DEF Open, SetTrigger
    <3> QED
      BY <2>2, <3>1 DEF Open, SetTrigger
  <2>3. CASE Post
    <3>1. late' \in 0 .. MaxLate /\ pc = "user"
      BY <2>3, CallsBounded DEF Post
    <3> QED
      BY <2>3, <3>1 DEF Post, CallIssue, Goto
  <2>4. CASE WriteSignal \/ WriteDone \/ DrainWait
    BY <2>4 DEF WriteSignal, WriteDone, DrainWait, Goto
  <2>5. CASE \E next \in {"sleep", "user"} : WriteFull(next)
    BY <2>5 DEF WriteFull, Goto
  <2>6. CASE \E m \in 1 .. MaxWrite : Write(m)
    <3>1. late' \in 0 .. MaxLate /\ pc = "user"
      BY <2>6, CallsBounded DEF Write
    <3> QED
      BY <2>6, <3>1 DEF Write, CallIssue, Goto
  <2> QED
    BY <2>1, <2>2, <2>3, <2>4, <2>5, <2>6
<1>2. DataOK'
  BY <1>1 DEF DataOK
<1>3. Writing' => state' = "RW"
  <2>1. CASE \E m \in 1 .. MaxWrite : Write(m)
    BY <2>1 DEF Write
  <2>2. CASE Open \/ SetTrigger \/ Post
    <3>1. pc = "user"
      BY <2>2 DEF Open, SetTrigger, Post, Calls
    <3> QED
      BY <2>2, <3>1 DEF Open, SetTrigger, Post, CallIssue, Goto, Writing
  <2>3. CASE \/ IssueTest \/ IssueDisable \/ WriteSignal \/ WriteDone \/ DrainWait
             \/ \E next \in {"sleep", "user"} : WriteFull(next)
    <3>1. state' = state /\ (Writing' => Writing)
      BY <2>3 DEF IssueTest, IssueDisable, WriteSignal, WriteDone, DrainWait, WriteFull,
                  Goto, Writing
    <3> QED
      BY <3>1 DEF Steady
  <2> QED
    BY <2>1, <2>2, <2>3
<1>4. goal = "reset" => start' = start /\ Draining'
  <2>1. goal = "reset" => pc \notin {"user", "full", "sleep"} /\ Draining
    BY <1>1 DEF Steady, Draining
  <2>2. CASE \/ Open \/ SetTrigger \/ Post \/ WriteSignal \/ WriteDone
             \/ \E next \in {"sleep", "user"} : WriteFull(next)
             \/ \E m \in 1 .. MaxWrite : Write(m)
    BY <2>1, <2>2 DEF Open, SetTrigger, Post, WriteSignal, WriteDone, WriteFull, Write, Calls
  <2>3. CASE IssueTest \/ IssueDisable \/ DrainWait
    BY <2>1, <2>3 DEF IssueTest, IssueDisable, DrainWait, Goto, Draining
  <2> QED
    BY <2>2, <2>3
<1>5. ~dma => ~dma'
  <2>1. CASE IssueDisable
    BY <2>1 DEF IssueDisable
  <2> QED
    BY <2>1 DEF IssueTest, Open, SetTrigger, Post, WriteSignal, WriteDone, DrainWait,
                WriteFull, Write, hwVars
<1>6. Steady'
  BY <1>1, <1>3, <1>4, <1>5 DEF Steady
<1> QED
  BY <1>2, <1>6

(* issue_out, called by the process or by the handler. *)
LEMMA IssueStepTypes ==
    ASSUME DataOK, Steady, IssueSlot \/ HandlerIssue
    PROVE  DataOK' /\ Steady'
<1>1. PICK err : Issue(err)
  BY Zenon DEF IssueSlot, HandlerIssue
<1>2. /\ UNCHANGED <<state, start, goal, count, slots, ihw, itail, mde, fed, late>>
      /\ pc' \in {"user", "test", "disable", "issue", "full", "sleep", "drain",
                  "drainsleep", "clean"}
      /\ ret' \in {"user", "full", "drain"} /\ todo' \in 0 .. 2
      /\ (Writing' => Writing) /\ (Draining => Draining') /\ (pc = "clean" => pc' = "clean")
  <2>1. CASE IssueSlot
    BY <2>1 DEF IssueSlot, Goto, DataOK, Writing, Draining, histVars
  <2>2. CASE HandlerIssue
    <3>1. /\ pc' = Awakened /\ ret' = ret /\ todo' = todo - 1 /\ todo > 0
          /\ UNCHANGED <<state, start, goal, count, slots, ihw, itail, mde, fed, late>>
      BY <2>2 DEF HandlerIssue, Goto, histVars
    <3> QED
      BY <3>1 DEF Awakened, DataOK, Writing, Draining
  <2> QED
    BY <2>1, <2>2
<1>3. /\ issues' \in 0 .. 2 /\ pend' \in 0 .. 2 /\ pend <= pend'
      /\ ihead' \in 0 .. 2 * MaxSlots - 1 /\ dmaidx' \in Entries
      /\ ~start => UNCHANGED <<dma, pend>>
  BY <1>1, IssueTypes
<1>4. DataOK'
  BY <1>2, <1>3 DEF DataOK
<1>5. (fed <= pend)'
  BY <1>2, <1>3 DEF DataOK, Steady
<1>6. Steady'
  BY <1>2, <1>3, <1>5 DEF Steady
<1> QED
  BY <1>4, <1>6

(* A slot is put into the ring by write or by a drain. *)
LEMMA PutTypes ==
    ASSUME DataOK, Steady,
           WriteSlot \/ \E why \in {"sync", "close", "reset"} : Drain(why)
    PROVE  DataOK' /\ Steady'
<1>1. itail \in 0 .. 2 * MaxSlots - 1
  BY DEF DataOK
<1>2. advance_idx(itail) \in 0 .. 2 * MaxSlots - 1 /\ regular_idx(itail) \in Entries
  BY <1>1, IndexTypes
<1>3. CASE WriteSlot
  <2>1. /\ itail' = advance_idx(itail) /\ pc = "full" /\ pc' = "test" /\ ret' = "full"
        /\ mde' = [mde EXCEPT ![regular_idx(itail)] = "ready"]
        /\ UNCHANGED <<state, goal, slots, ihw, ihead, issues, dma, dmaidx, pend, fed, todo, late>>
        /\ count' \in 0 .. MaxWrite
    BY <1>3, WriteAssumption DEF WriteSlot, PutSlot, CallIssue, Goto, DataOK, hwVars, histVars
  <2>2. DataOK'
    BY <1>2, <2>1 DEF DataOK
  <2>3. Steady'
    BY <2>1 DEF Steady, Writing, Draining
  <2> QED
    BY <2>2, <2>3
<1>4. ASSUME NEW why \in {"sync", "close", "reset"}, Drain(why)
      PROVE  DataOK' /\ Steady'
  <2>1. /\ itail' = advance_idx(itail) /\ pc' = "test" /\ ret' = "drain" /\ goal' = why
        /\ mde' = [mde EXCEPT ![regular_idx(itail)] = "end"]
        /\ UNCHANGED <<state, slots, ihw, ihead, issues, dmaidx, todo, count>>
    BY <1>4 DEF Drain, PutSlot, CallIssue, Goto
  <2>2. late' \in 0 .. MaxLate /\ pc = "user"
    <3>1. CASE why = "sync"
      BY <1>4, <3>1, CallsBounded DEF Drain
    <3>2. CASE why # "sync"
      BY <1>4, <3>2 DEF Drain, DataOK
    <3> QED
      BY <3>1, <3>2
  <2>3. /\ UNCHANGED <<start, dma, pend, fed>> \/ (pend' = 0 /\ fed' = 0)
        /\ why = "reset" => start' = FALSE /\ dma' = FALSE /\ pend' = 0
    BY <1>4 DEF Drain
  <2>4. DataOK'
    BY <1>2, <2>1, <2>2, <2>3 DEF DataOK
  <2>5. Steady'
    BY <2>1, <2>3 DEF Steady, Writing, Draining
  <2> QED
    BY <2>4, <2>5
<1> QED
  BY <1>3, <1>4

(* SETFRAGMENT. *)
LEMMA FragmentTypes ==
    ASSUME DataOK, Steady, NEW m \in SlotChoices, SetFragment(m)
    PROVE  DataOK' /\ Steady'
<1>1. /\ pc = "user" /\ slots' = m
      /\ mde' = [i \in Entries |-> IF i < m THEN "free" ELSE mde[i]]
      /\ UNCHANGED <<procVars, ihw, ihead, itail, issues, hwVars, todo>>
      /\ late' \in 0 .. MaxLate
  BY CallsBounded DEF SetFragment
<1>2. DataOK'
  BY <1>1 DEF DataOK, procVars, hwVars
<1>3. Steady'
  BY <1>1 DEF Steady, Writing, Draining, procVars, hwVars
<1> QED
  BY <1>2, <1>3

(* The end of a drain, and clean_buffer. *)
LEMMA CleanTypes ==
    ASSUME DataOK, Steady, DrainEnd \/ Clean
    PROVE  DataOK' /\ Steady'
<1>0. slots \in Nat /\ 4 <= slots /\ slots <= MaxSlots /\ MaxSlots \in Nat
  BY SlotsBound DEF DataOK
<1>1. CASE DrainEnd
  <2>1. /\ UNCHANGED <<start, ret, count, slots, issues, mde, dma, dmaidx, todo>>
        /\ UNCHANGED <<pend, fed>> \/ (pend' = 0 /\ fed' = 0)
        /\ pc \in {"drain", "drainsleep"}
    BY <1>1 DEF DrainEnd
  <2>2. /\ pc' \in {"user", "clean"} /\ goal' \in {"close", "reset"}
        /\ goal' = "reset" => goal = "reset" /\ pc' = "clean"
        /\ state' \in {"CLOSE", "OPEN", "RW"}
        /\ ihw' \in 0 .. 2 * MaxSlots - 1 /\ ihead' \in 0 .. 2 * MaxSlots - 1
        /\ itail' \in 0 .. 2 * MaxSlots - 1 /\ late' \in 0 .. MaxLate
    <3>1. CASE goal = "sync"
      BY <1>1, <3>1 DEF DrainEnd, Goto, DataOK
    <3>2. CASE goal # "sync"
      BY <1>0, <1>1, <3>2, LateAssumption DEF DrainEnd, Goto, DataOK
    <3> QED
      BY <3>1, <3>2
  <2>3. DataOK'
    BY <2>1, <2>2 DEF DataOK
  <2>4. Steady'
    BY <2>1, <2>2 DEF Steady, Writing
  <2> QED
    BY <2>3, <2>4
<1>2. CASE Clean
  <2>1. /\ pc' = "user" /\ issues' = 0 /\ goal' = "close"
        /\ state' \in {"CLOSE", "OPEN", "RW"}
        /\ UNCHANGED <<ret, count, slots, ihw, ihead, itail, mde, hwVars, todo, late>>
    BY <1>2 DEF Clean, Goto, DataOK, histVars
  <2> QED
    BY <2>1 DEF DataOK, Steady, Writing, hwVars
<1> QED
  BY <1>1, <1>2

(* The handler retires no more slots than were issued. *)
LEMMA ConsumedBound ==
    ASSUME DataOK
    PROVE  Consumed \in 0 .. 2 /\ Consumed <= issues
  BY DEF Consumed, DataOK

(* pl_audio_handler up to its loop. *)
LEMMA HandlerTypes ==
    ASSUME DataOK, Steady, Handler
    PROVE  DataOK' /\ Steady'
<1>1. /\ issues' = issues - Consumed
      /\ ihw' = (IF Consumed = 0 THEN ihw ELSE IF Consumed = 1 THEN advance_idx(ihw)
                 ELSE advance_idx(advance_idx(ihw)))
      /\ todo' = Consumed
      /\ UNCHANGED <<procVars, slots, ihead, itail, dma, dmaidx, pend, fed, late>>
  BY Zenon DEF Handler
<1>2. mde' \in [Entries -> {"free", "ready", "end"}]
  <2>1. \E gone : mde' = [k \in DOMAIN mde |-> IF k \in gone THEN "free" ELSE mde[k]]
    BY Zenon DEF Handler
  <2> QED
    BY <2>1 DEF DataOK
<1>3. ihw' \in 0 .. 2 * MaxSlots - 1 /\ issues' \in 0 .. 2
  <2>1. ihw \in 0 .. 2 * MaxSlots - 1 /\ issues \in 0 .. 2
    BY DEF DataOK
  <2>2. advance_idx(ihw) \in 0 .. 2 * MaxSlots - 1
    BY <2>1, IndexTypes
  <2>3. advance_idx(advance_idx(ihw)) \in 0 .. 2 * MaxSlots - 1
    BY <2>2, IndexTypes
  <2> QED
    BY <1>1, <2>1, <2>2, <2>3, ConsumedBound
<1>4. DataOK'
  BY <1>1, <1>2, <1>3, ConsumedBound DEF DataOK, procVars
<1>5. Steady'
  BY <1>1 DEF Steady, Writing, Draining, procVars
<1> QED
  BY <1>4, <1>5

(* The DMA engine and the audio module. *)
LEMMA HwTypes ==
    ASSUME DataOK, Steady, HwStep
    PROVE  DataOK' /\ Steady'
<1>0. /\ slots \in Nat /\ 4 <= slots /\ slots <= MaxSlots /\ MaxSlots \in Nat
      /\ dmaidx \in Entries /\ pend \in 0 .. 2 /\ fed \in 0 .. 2 /\ fed <= pend
  BY SlotsBound DEF DataOK, Steady
<1>1. /\ UNCHANGED <<procVars, ringVars, todo, late>>
      /\ dmaidx' \in Entries
      /\ pend' \in 0 .. 2 /\ fed' \in 0 .. 2 /\ fed' <= pend'
      /\ pend = 0 /\ ~dma => pend' = 0 /\ ~dma'
  <2>1. CASE HwFetch
    <3>1. dmaidx' \in Entries
      BY <1>0, <2>1 DEF HwFetch, NextEntry, Entries
    <3> QED
      BY <1>0, <2>1, <3>1 DEF HwFetch, histVars
  <2>2. CASE HwStop
    BY <1>0, <2>2 DEF HwStop, histVars
  <2>3. CASE HwPlay
    BY <1>0, <2>3 DEF HwPlay, histVars
  <2> QED
    BY <2>1, <2>2, <2>3 DEF HwStep
<1>2. DataOK'
  BY <1>1 DEF DataOK, procVars, ringVars
<1>3. Steady'
  BY <1>1 DEF Steady, Writing, Draining, procVars
<1> QED
  BY <1>2, <1>3

(* Every step keeps the types and what is steady. *)
LEMMA TypesNext ==
    ASSUME TypeOK, Steady, [Next]_vars
    PROVE  TypeOK' /\ Steady'
<1>1. FlagsOK'
  BY FlagsNext DEF TypeOK
<1>2. DataOK
  BY DEF TypeOK
<1>3. CASE ProcessStep
  BY <1>1, <1>2, <1>3, QuietTypes, IssueStepTypes, PutTypes, CleanTypes
     DEF ProcessStep, TypeOK
<1>4. CASE UserStep
  BY <1>1, <1>2, <1>4, QuietTypes, FragmentTypes, PutTypes DEF UserStep, TypeOK
<1>5. CASE Handler \/ HandlerIssue
  BY <1>1, <1>2, <1>5, HandlerTypes, IssueStepTypes DEF TypeOK
<1>6. CASE HwStep
  BY <1>1, <1>2, <1>6, HwTypes DEF TypeOK
<1>7. CASE UNCHANGED vars
  <2>1. UNCHANGED <<procVars, ringVars, hwVars, todo, late>>
    BY <1>7 DEF vars, histVars
  <2>2. DataOK' /\ Steady'
    BY <1>2, <2>1 DEF DataOK, Steady, Writing, Draining, procVars, ringVars, hwVars
  <2> QED
    BY <1>1, <2>2 DEF TypeOK
<1> QED
  BY <1>3, <1>4, <1>5, <1>6, <1>7 DEF Next

(* What puts the indices out of order puts the engine out of step. *)
LEMMA SpoiledNext ==
    ASSUME SpoiledUpsets, [Next]_vars
    PROVE  SpoiledUpsets'
<1> USE DEF SpoiledUpsets, histVars
<1>1. CASE ProcessStep
  <2>1. CASE IssueDisable
    BY <2>1, Zenon DEF IssueDisable
  <2>2. CASE DrainEnd
    <3>1. CASE goal = "sync"
      BY <2>2, <3>1, Zenon DEF DrainEnd
    <3>2. CASE goal # "sync"
      BY <2>2, <3>2, Zenon DEF DrainEnd
    <3> QED
      BY <3>1, <3>2
  <2>3. CASE IssueTest \/ IssueSlot \/ WriteDone \/ WriteSlot \/ WriteFull("sleep")
             \/ DrainWait \/ Clean
    BY <2>3 DEF IssueTest, IssueSlot, WriteDone, WriteSlot, WriteFull, DrainWait, Clean
  <2> QED
    BY <1>1, <2>1, <2>2, <2>3 DEF ProcessStep
<1>2. CASE UserStep
  <2>1. ASSUME NEW n, SetFragment(n) PROVE SpoiledUpsets'
    BY <2>1, Zenon DEF SetFragment
  <2>2. ASSUME NEW why, Drain(why) PROVE SpoiledUpsets'
    BY <2>2, Zenon DEF Drain
  <2>3. ASSUME NEW n, \/ Open \/ SetTrigger \/ Post \/ WriteSignal \/ WriteFull("user")
                      \/ Write(n)
        PROVE  SpoiledUpsets'
    BY <2>3 DEF Open, SetTrigger, Post, WriteSignal, WriteFull, Write
  <2> QED
    BY <1>2, <2>1, <2>2, <2>3 DEF UserStep
<1>3. CASE Handler
  BY <1>3, Zenon DEF Handler
<1>4. CASE HandlerIssue \/ HwStep \/ UNCHANGED vars
  BY <1>4 DEF HandlerIssue, HwStep, HwFetch, HwStop, HwPlay, vars
<1> QED
  BY <1>1, <1>2, <1>3, <1>4 DEF Next
-----------------------------------------------------------------------------
(* The order of the indices *)

(* Steps that leave the indices alone keep their order. *)
LEMMA SameRing ==
    ASSUME Ordered, UNCHANGED <<slots, ihw, ihead, itail, issues>>,
           pc # "clean", pc' # "clean"
    PROVE  Ordered'
  BY DEF Ordered, InOrder, IssuesAlways, Cleaning, Dist

(* Steps of the process that leave ring and hardware alone. *)
LEMMA QuietSteps ==
    ASSUME Ordered,
           \/ IssueTest \/ IssueDisable \/ Open \/ SetTrigger \/ Post \/ WriteSignal
           \/ WriteDone \/ DrainWait
           \/ \E next \in {"sleep", "user"} : WriteFull(next)
           \/ \E m \in 1 .. MaxWrite : Write(m)
    PROVE  Ordered'
<1>1. UNCHANGED <<slots, ihw, ihead, itail, issues>> /\ pc # "clean" /\ pc' # "clean"
  BY DEF IssueTest, IssueDisable, Open, SetTrigger, Post, WriteSignal, WriteDone, DrainWait,
         WriteFull, Write, Calls, CallIssue, Goto, ringVars
<1> QED
  BY <1>1, SameRing

(* issue_out, called by the process or by the handler. *)
LEMMA IssueSteps ==
    ASSUME DataOK, Ordered, IssueSlot \/ HandlerIssue
    PROVE  Ordered'
<1>1. PICK err : Issue(err)
  BY Zenon DEF IssueSlot, HandlerIssue
<1>2. UNCHANGED <<slots, ihw, itail>> /\ pc # "clean" /\ pc' # "clean"
  <2>1. CASE IssueSlot
    BY <2>1 DEF IssueSlot, Goto, DataOK
  <2>2. CASE HandlerIssue
    <3>1. pc # "clean"
      BY <2>2 DEF HandlerIssue, Ordered, Cleaning
    <3> QED
      BY <2>2, <3>1 DEF HandlerIssue, Goto, Awakened
  <2> QED
    BY <2>1, <2>2
<1>3. InOrder /\ issues = Dist(ihw, ihead)
  BY <1>2 DEF Ordered, IssuesAlways
<1>4. InOrder' /\ (issues = Dist(ihw, ihead))'
  BY <1>1, <1>2, <1>3, IssueRing
<1> QED
  BY <1>2, <1>4 DEF Ordered, IssuesAlways, Cleaning

(* A slot is put into the ring by write, or by a drain that finds one free. *)
LEMMA PutSteps ==
    ASSUME DataOK, Ordered, ~spoiled',
           WriteSlot \/ \E why \in {"sync", "close", "reset"} : Drain(why)
    PROVE  Ordered'
<1>1. /\ ~Full /\ itail' = advance_idx(itail)
      /\ UNCHANGED <<slots, ihw, ihead, issues>>
      /\ pc # "clean" /\ pc' = "test"
  <2>1. CASE WriteSlot
    BY <2>1 DEF WriteSlot, PutSlot, CallIssue, Goto
  <2>2. ASSUME NEW why, Drain(why)
        PROVE  ~Full /\ itail' = advance_idx(itail)
               /\ UNCHANGED <<slots, ihw, ihead, issues>> /\ pc # "clean" /\ pc' = "test"
    <3>1. ~Full
      BY <2>2, Zenon DEF Drain
    <3>2. pc = "user"
      BY <2>2 DEF Drain, Calls
    <3> QED
      BY <2>2, <3>1, <3>2 DEF Drain, PutSlot, CallIssue, Goto
  <2> QED
    BY <2>1, <2>2
<1>2. InOrder'
  BY <1>1, PutRing DEF Ordered
<1> QED
  BY <1>1, <1>2 DEF Ordered, IssuesAlways, Cleaning, Dist

(* SETFRAGMENT keeps the number of slots or resizes a ring that is not in use. *)
LEMMA FragmentStep ==
    ASSUME DataOK, Ordered, ~spoiled', NEW m \in SlotChoices, SetFragment(m)
    PROVE  Ordered'
<1>1. /\ pc = "user" /\ slots' = m
      /\ UNCHANGED <<pc, ihw, ihead, itail, issues>>
  BY DEF SetFragment, Calls, procVars
<1>2. m = slots \/ (ihw = 0 /\ itail = 0)
  BY Zenon DEF SetFragment
<1>3. CASE m = slots
  BY <1>1, <1>3, SameRing
<1>4. CASE ihw = 0 /\ itail = 0
  <2>1. ihead = 0 /\ issues = 0
    BY <1>1, <1>4, Indices DEF Ordered, InOrder, IssuesAlways, Dist
  <2>2. m \in Nat /\ 4 <= m
    BY SlotsBound
  <2> QED
    BY <1>1, <1>4, <2>1, <2>2 DEF Ordered, InOrder, IssuesAlways, Cleaning, Dist
<1> QED
  BY <1>2, <1>3, <1>4

(* The end of a drain by close or RESET puts the indices in order, whatever they
   were. *)
LEMMA DrainMends ==
    ASSUME DataOK, DrainEnd, goal # "sync"
    PROVE  Ordered'
<1>1. slots \in Nat /\ 4 <= slots
  BY SlotsBound DEF DataOK
<1>2. pc' = "clean" /\ ihw' = 0 /\ ihead' = 0 /\ itail' = 0 /\ todo' = 0 /\ slots' = slots
  BY DEF DrainEnd, Goto, ProcessRuns
<1> QED
  BY <1>1, <1>2 DEF Ordered, InOrder, IssuesAlways, Cleaning, Dist

(* The end of a drain, and clean_buffer. *)
LEMMA CleanSteps ==
    ASSUME DataOK, spoiled \/ Ordered, ~spoiled', DrainEnd \/ Clean
    PROVE  Ordered'
<1>1. CASE DrainEnd /\ goal # "sync"
  BY <1>1, DrainMends
<1>2. CASE DrainEnd /\ goal = "sync"
  <2>1. /\ pc # "clean" /\ pc' = "user"
        /\ UNCHANGED <<slots, ihw, ihead, itail, issues, spoiled>>
    BY <1>2 DEF DrainEnd, Goto
  <2> QED
    BY <2>1, SameRing
<1>3. CASE Clean
  <2>0. slots \in Nat /\ 4 <= slots
    BY SlotsBound DEF DataOK
  <2>1. /\ pc = "clean" /\ pc' = "user" /\ issues' = 0
        /\ UNCHANGED <<slots, ihw, ihead, itail, spoiled>>
    BY <1>3 DEF Clean, Goto, histVars
  <2>2. ihw = 0 /\ ihead = 0 /\ itail = 0
    BY <2>1 DEF Ordered, Cleaning
  <2> QED
    BY <2>0, <2>1, <2>2 DEF Ordered, InOrder, IssuesAlways, Cleaning, Dist
<1> QED
  BY <1>1, <1>2, <1>3

(* pl_audio_handler up to its loop. *)
LEMMA HandlerStep ==
    ASSUME DataOK, Ordered, ~spoiled', Handler
    PROVE  Ordered'
<1>1. /\ issues' = issues - Consumed
      /\ ihw' = (IF Consumed = 0 THEN ihw ELSE IF Consumed = 1 THEN advance_idx(ihw)
                 ELSE advance_idx(advance_idx(ihw)))
      /\ todo' = Consumed
      /\ UNCHANGED <<procVars, slots, ihead, itail>>
  BY Zenon DEF Handler
<1>2. pc = "clean" => ~(Consumed > 0)
  BY Zenon DEF Handler
<1>3. CASE pc = "clean"
  <2>1. Consumed = 0
    BY <1>2, <1>3, ConsumedBound
  <2>2. UNCHANGED <<slots, ihw, ihead, itail, pc>> /\ todo' = 0
    BY <1>1, <2>1 DEF procVars
  <2> QED
    BY <1>3, <2>2 DEF Ordered, InOrder, IssuesAlways, Cleaning, Dist
<1>4. CASE pc # "clean"
  <2>1. InOrder /\ issues = Dist(ihw, ihead)
    BY <1>4 DEF Ordered, IssuesAlways
  <2>2. InOrder' /\ (issues = Dist(ihw, ihead))'
    BY <1>1, <2>1, ConsumedBound, HandlerRing
  <2> QED
    BY <1>1, <1>4, <2>2 DEF Ordered, IssuesAlways, Cleaning, procVars
<1> QED
  BY <1>3, <1>4

(* The DMA engine and the audio module. *)
LEMMA HwSteps ==
    ASSUME Ordered, HwStep
    PROVE  Ordered'
<1>1. UNCHANGED <<slots, ihw, ihead, itail, issues, pc, todo>>
  BY DEF HwStep, HwFetch, HwStop, HwPlay, procVars, ringVars
<1> QED
  BY <1>1 DEF Ordered, InOrder, IssuesAlways, Cleaning, Dist

(* Only close and RESET clear spoiled. *)
LEMMA SpoiledStays ==
    ASSUME spoiled, ~spoiled', [Next]_vars
    PROVE  DrainEnd /\ goal # "sync"
<1> USE DEF histVars
<1>1. CASE ProcessStep
  <2>1. CASE IssueTest \/ IssueDisable \/ IssueSlot \/ WriteDone \/ WriteSlot
             \/ WriteFull("sleep") \/ DrainWait \/ Clean
    BY <2>1 DEF IssueTest, IssueDisable, IssueSlot, WriteDone, WriteSlot, WriteFull,
                DrainWait, Clean
  <2>2. CASE DrainEnd
    BY <2>2 DEF DrainEnd
  <2> QED
    BY <1>1, <2>1, <2>2 DEF ProcessStep
<1>2. CASE UserStep
  <2>1. ASSUME NEW n, SetFragment(n) PROVE FALSE
    BY <2>1, Zenon DEF SetFragment
  <2>2. ASSUME NEW why, Drain(why) PROVE FALSE
    BY <2>2, Zenon DEF Drain
  <2>3. ASSUME NEW n, \/ Open \/ SetTrigger \/ Post \/ WriteSignal \/ WriteFull("user")
                      \/ Write(n)
        PROVE  FALSE
    BY <2>3 DEF Open, SetTrigger, Post, WriteSignal, WriteFull, Write
  <2> QED
    BY <1>2, <2>1, <2>2, <2>3 DEF UserStep
<1>3. CASE Handler
  BY <1>3, Zenon DEF Handler
<1>4. CASE HandlerIssue \/ HwStep \/ UNCHANGED vars
  BY <1>4 DEF HandlerIssue, HwStep, HwFetch, HwStop, HwPlay, vars
<1> QED
  BY <1>1, <1>2, <1>3, <1>4 DEF Next

(* Every step keeps the order unless it spoils it, and close and RESET mend it. *)
LEMMA OrderedNext ==
    ASSUME RingInv, ~spoiled', [Next]_vars
    PROVE  Ordered'
<1>1. DataOK /\ (spoiled \/ Ordered)
  BY DEF RingInv, TypeOK
<1>2. CASE spoiled
  BY <1>1, <1>2, SpoiledStays, DrainMends
<1>3. CASE ~spoiled
  <2>1. CASE ProcessStep
    BY <1>1, <1>3, <2>1, QuietSteps, IssueSteps, PutSteps, CleanSteps DEF ProcessStep
  <2>2. CASE UserStep
    BY <1>1, <1>3, <2>2, QuietSteps, FragmentStep, PutSteps DEF UserStep
  <2>3. CASE Handler \/ HandlerIssue
    BY <1>1, <1>3, <2>3, HandlerStep, IssueSteps
  <2>4. CASE HwStep
    BY <1>1, <1>3, <2>4, HwSteps
  <2>5. CASE UNCHANGED vars
    <3>1. UNCHANGED <<slots, ihw, ihead, itail, issues, pc, todo>>
      BY <2>5 DEF vars, procVars, ringVars
    <3> QED
      BY <1>1, <1>3, <3>1 DEF Ordered, InOrder, IssuesAlways, Cleaning, Dist
  <2> QED
    BY <2>1, <2>2, <2>3, <2>4, <2>5 DEF Next
<1> QED
  BY <1>2, <1>3
-----------------------------------------------------------------------------
(* The inductive invariant of the ring. *)
THEOREM RingInvariant == Spec => []RingInv
<1>1. RingInv /\ [Next]_vars => RingInv'
  <2> SUFFICES ASSUME RingInv, [Next]_vars
               PROVE  RingInv'
    OBVIOUS
  <2>1. TypeOK' /\ Steady'
    BY TypesNext DEF RingInv
  <2>2. SpoiledUpsets'
    BY SpoiledNext DEF RingInv
  <2>3. ~spoiled' => Ordered'
    BY OrderedNext
  <2> QED
    BY <2>1, <2>2, <2>3 DEF RingInv
<1> QED
  BY InvInit, <1>1, PTL DEF Spec

(* Every variable keeps its type, whatever happens: no index leads further than
   the doubled ring and no entry further than twice the array. *)
THEOREM TypeCorrect == Spec => []TypeOK
<1>1. RingInv => TypeOK
  BY DEF RingInv
<1> QED
  BY RingInvariant, <1>1, PTL

(* The drawing above issue_out is true at every step of writer, handler and
   hardware, for a ring of any size, unless a drain has found the ring full, a
   slot was retired inside clean_buffer or the ring was resized in use since the
   last close or RESET. *)
THEOREM RingIsOrdered == Spec => []RingOrder
<1>1. RingInv => RingOrder
  BY DEF RingInv, Ordered, RingOrder
<1> QED
  BY RingInvariant, <1>1, PTL

(* issues is the number of slots between ihw and ihead, under the same
   exceptions. *)
THEOREM IssuesAreCounted == Spec => []IssuesCounted
<1>1. RingInv => IssuesCounted
  BY DEF RingInv, Ordered, IssuesAlways, IssuesCounted
<1> QED
  BY RingInvariant, <1>1, PTL

(* GETOSPACE computes from indices reduced to one round what the doubled ones
   say, and tells a full ring from an empty one, under the same exceptions. *)
THEOREM OspaceIsTrue == Spec => []OspaceIsFree
<1>1. RingInv => OspaceIsFree
  <2> SUFFICES ASSUME RingInv, ~spoiled PROVE Ospace = slots - Dist(ihw, itail)
    BY DEF OspaceIsFree
  <2>1. DataOK /\ InOrder
    BY DEF RingInv, TypeOK, Ordered
  <2>2. Dist(ihw, itail) <= slots
    BY <2>1 DEF InOrder
  <2>3. slots \in Nat /\ 4 <= slots /\ ihw \in 0 .. 2 * slots - 1 /\ itail \in 0 .. 2 * slots - 1
    BY <2>1, Indices
  <2> QED
    BY <2>2, <2>3 DEF Ospace, regular_idx, Dist
<1> QED
  BY RingInvariant, <1>1, PTL
-----------------------------------------------------------------------------
(* The DMA engine is in step with the driver *)

(* The entry of the slot k places after index a. *)
EntryAt(a, k) ==
  IF regular_idx(a) + k >= slots THEN regular_idx(a) + k - slots ELSE regular_idx(a) + k

(* The slots from ihw to itail have valid entries, and the engine is told to
   stop after none but the last one, which a drain has put there. *)
Filled ==
  \A k \in 0 .. Dist(ihw, itail) - 1 :
    /\ mde[EntryAt(ihw, k)] # "free"
    /\ mde[EntryAt(ihw, k)] = "end" => Draining /\ k = Dist(ihw, itail) - 1

(* A stopped engine has delivered all that was enabled; what has been played
   and not been retired is announced by an interrupt. *)
Flow ==
  /\ ~(hwerr /\ dma)
  /\ ~dma => fed = pend
  /\ pend <= issues
  /\ pend < issues => irq \/ goal = "reset" \/ pc = "clean"

(* clean_buffer finds the hardware at rest. *)
Rests == pc = "clean" => ~dma /\ pend = 0

(* Out of state RW the ring is empty, but for what a drain has put there. *)
Idle == state # "RW" => Draining \/ ihw = itail

(* HwInStep without the remainder. *)
AtEntry == dma => dmaidx = EntryAt(ihw, issues - pend + fed)

StepInv == upset \/ (Flow /\ Rests /\ AtEntry /\ Filled /\ Idle)

(* The remainder by the number of slots, over the first two rounds. *)
LEMMA Remainder ==
    ASSUME NEW s \in Nat \ {0}, NEW x \in Nat, x < 3 * s
    PROVE  x % s = (IF x < s THEN x ELSE IF x < 2 * s THEN x - s ELSE x - 2 * s)
  OBVIOUS

(* The entry of a slot is the remainder of its index. *)
LEMMA EntryIsRemainder ==
    ASSUME slots \in Nat, 4 <= slots, NEW a \in 0 .. 2 * slots - 1, NEW k \in 0 .. slots - 1
    PROVE  EntryAt(a, k) = (a + k) % slots
<1> DEFINE x == a + k
<1>1. x \in Nat /\ x < 3 * slots /\ slots \in Nat \ {0}
  OBVIOUS
<1> HIDE DEF x
<1>2. x % slots = IF x < slots THEN x ELSE IF x < 2 * slots THEN x - slots ELSE x - 2 * slots
  BY <1>1, Remainder
<1> QED
  BY <1>2 DEF EntryAt, regular_idx, x

(* The entry of a slot is one of the ring. *)
LEMMA EntryInRing ==
    ASSUME slots \in Nat, 4 <= slots, NEW a \in 0 .. 2 * slots - 1, NEW k \in 0 .. slots - 1
    PROVE  EntryAt(a, k) \in 0 .. slots - 1
  BY DEF EntryAt, regular_idx

(* Within one round no entry is met twice. *)
LEMMA EntriesDiffer ==
    ASSUME slots \in Nat, 4 <= slots, NEW a \in 0 .. 2 * slots - 1,
           NEW j \in 0 .. slots - 1, NEW k \in 0 .. slots - 1, j # k
    PROVE  EntryAt(a, j) # EntryAt(a, k)
  BY DEF EntryAt, regular_idx

(* The slot to issue next is as far from ihw as Dist says. *)
LEMMA EntryOfIndex ==
    ASSUME slots \in Nat, 4 <= slots, NEW a \in 0 .. 2 * slots - 1, NEW b \in 0 .. 2 * slots - 1,
           Dist(a, b) < slots
    PROVE  EntryAt(a, Dist(a, b)) = regular_idx(b)
  BY DEF EntryAt, regular_idx, Dist

(* Steps that leave the ring alone keep its entries. *)
LEMMA SameFilled ==
    ASSUME Filled, UNCHANGED <<slots, ihw, itail, mde>>, Draining => Draining'
    PROVE  Filled'
  BY DEF Filled, EntryAt, regular_idx, Dist

(* As long as nothing upsets the engine the indices are in order. *)
LEMMA InStepOrdered ==
    ASSUME RingInv, ~upset
    PROVE  ~spoiled /\ TypeOK /\ DataOK /\ Steady /\ Ordered /\ InOrder
  BY DEF RingInv, SpoiledUpsets, TypeOK, Ordered

(* What RingInv and Flow say of the place of the engine. *)
LEMMA Place ==
    ASSUME RingInv, ~spoiled, pend <= issues
    PROVE  /\ slots \in Nat /\ 4 <= slots /\ slots <= MaxSlots
           /\ ihw \in 0 .. 2 * slots - 1 /\ ihead \in 0 .. 2 * slots - 1
           /\ itail \in 0 .. 2 * slots - 1
           /\ issues \in 0 .. 2 /\ pend \in 0 .. 2 /\ fed \in 0 .. 2
           /\ issues - pend + fed \in 0 .. 2 /\ fed <= pend
           /\ dmaidx \in Entries
           /\ Dist(ihw, itail) \in 0 .. slots /\ Dist(ihw, ihead) \in 0 .. slots
           /\ Dist(ihw, ihead) <= Dist(ihw, itail)
<1>1. DataOK /\ InOrder /\ fed <= pend
  BY DEF RingInv, TypeOK, Ordered, Steady
<1>2. fed \in 0 .. 2
  BY <1>1 DEF DataOK
<1>3. Dist(ihw, itail) \in 0 .. slots /\ Dist(ihw, ihead) \in 0 .. slots
      /\ Dist(ihw, ihead) <= Dist(ihw, itail)
  BY <1>1, Indices DEF InOrder, Dist
<1> QED
  BY <1>1, <1>2, <1>3, Indices

(* issue_out enables one packet more for one slot more; a channel that it starts
   begins at that slot. *)
LEMMA IssueInStep ==
    ASSUME RingInv, ~spoiled, pc # "clean", NEW err, Issue(err), UNCHANGED <<slots, ihw, fed>>,
           ~dma => fed = pend, pend <= issues, AtEntry
    PROVE  /\ (~dma => fed = pend)' /\ AtEntry'
           /\ pend' <= issues' /\ (pend' < issues' => pend < issues)
<1>1. CASE UNCHANGED <<issues, pend, ihead, dma, dmaidx>>
  BY <1>1 DEF AtEntry, EntryAt, regular_idx
<1>2. CASE /\ issues < 2
           /\ issues' = issues + 1
           /\ pend' = IF pend = 2 THEN 2 ELSE pend + 1
           /\ dma' = TRUE
           /\ dmaidx' = IF dma THEN dmaidx ELSE regular_idx(ihead)
  <2>1. pend' = pend + 1 /\ issues' - pend' = issues - pend
    BY <1>2, Place
  <2>2. \A k : EntryAt(ihw, k)' = EntryAt(ihw, k)
    BY DEF EntryAt, regular_idx
  <2>3. issues' - pend' + fed' = issues - pend + fed
    BY <2>1
  <2>4. dmaidx' = EntryAt(ihw, issues - pend + fed)
    <3>1. CASE dma
      BY <1>2, <3>1 DEF AtEntry
    <3>2. CASE ~dma
      <4>1. issues - pend + fed = Dist(ihw, ihead) /\ Dist(ihw, ihead) < slots
        BY <1>2, <3>2, Place DEF RingInv, Ordered, IssuesAlways
      <4>2. EntryAt(ihw, Dist(ihw, ihead)) = regular_idx(ihead)
        BY <4>1, Place, EntryOfIndex
      <4> QED
        BY <1>2, <3>2, <4>1, <4>2
    <3> QED
      BY <3>1, <3>2
  <2>5. dmaidx' = EntryAt(ihw, issues - pend + fed)'
    BY <2>2, <2>3, <2>4 DEF EntryAt, regular_idx
  <2>6. pend' <= issues' /\ (pend' < issues' => pend < issues)
    <3>1. pend \in 0 .. 2 /\ issues \in 0 .. 2
      BY Place
    <3>2. issues' = issues + 1 /\ pend' = pend + 1
      BY <1>2, <2>1
    <3> QED
      BY <3>1, <3>2
  <2> QED
    BY <1>2, <2>5, <2>6 DEF AtEntry
<1> QED
  BY <1>1, <1>2 DEF Issue

(* The handler retires the slots that have been played. *)
LEMMA ConsumedIsPlayed ==
    ASSUME DataOK, pend <= issues
    PROVE  Consumed = issues - pend
  BY DEF Consumed, DataOK

(* Steps of the process that leave ring and hardware alone. *)
LEMMA QuietInStep ==
    ASSUME RingInv, StepInv, ~upset, ~upset',
           \/ IssueTest \/ IssueDisable \/ Open \/ SetTrigger \/ Post \/ WriteSignal
           \/ WriteDone \/ DrainWait
           \/ \E next \in {"sleep", "user"} : WriteFull(next)
           \/ \E m \in 1 .. MaxWrite : Write(m)
    PROVE  StepInv'
<1>1. /\ UNCHANGED <<slots, ihw, itail, mde, issues, pend, fed, dmaidx, irq, goal>>
      /\ pc # "clean" /\ pc' # "clean"
  <2> USE DEF ringVars, hwVars, Goto, CallIssue, Calls
  <2>1. CASE IssueTest \/ Open \/ SetTrigger \/ Post
    BY <2>1 DEF IssueTest, Open, SetTrigger, Post
  <2>5. CASE IssueDisable
    BY <2>5 DEF IssueDisable
  <2>2. CASE WriteSignal \/ WriteDone \/ DrainWait
    BY <2>2 DEF WriteSignal, WriteDone, DrainWait
  <2>3. CASE \E next \in {"sleep", "user"} : WriteFull(next)
    BY <2>3 DEF WriteFull
  <2>4. CASE \E m \in 1 .. MaxWrite : Write(m)
    BY <2>4 DEF Write
  <2> QED
    BY <2>1, <2>2, <2>3, <2>4, <2>5
<1>2. (dma' <=> dma) /\ (hwerr' => hwerr)
  <2>1. CASE IssueTest
    <3>1. dma' = dma
      BY <2>1 DEF IssueTest, hwVars
    <3> QED
      BY <2>1, <3>1, Zenon DEF IssueTest
  <2>2. CASE IssueDisable
    <3>1. hwerr' = hwerr
      BY <2>2 DEF IssueDisable, ringVars
    <3> QED
      BY <2>2, <3>1, Zenon DEF IssueDisable
  <2>3. (dma' = dma /\ hwerr' = hwerr) \/ IssueTest \/ IssueDisable
    BY DEF Open, SetTrigger, Post, WriteSignal, WriteDone, DrainWait, WriteFull, Write,
           hwVars, ringVars
  <2> QED
    BY <2>1, <2>2, <2>3
<1>3. Draining => Draining'
  BY DEF Draining, IssueTest, IssueDisable, Open, SetTrigger, Post, WriteSignal, WriteDone,
         DrainWait, WriteFull, Write, Goto, CallIssue, Calls
<1>4. state' # "RW" => state # "RW"
  <2>1. CASE \E m \in 1 .. MaxWrite : Write(m)
    BY <2>1 DEF Write
  <2>2. CASE Open
    BY <2>2 DEF Open
  <2> QED
    BY <2>1, <2>2 DEF IssueTest, IssueDisable, SetTrigger, Post, WriteSignal, WriteDone,
           DrainWait, WriteFull
<1>5. Flow'
  BY <1>1, <1>2 DEF StepInv, Flow
<1>6. Rests'
  BY <1>1 DEF Rests
<1>7. AtEntry'
  BY <1>1, <1>2 DEF StepInv, AtEntry, EntryAt, regular_idx
<1>8. Filled'
  BY <1>1, <1>3, SameFilled DEF StepInv
<1>9. Idle'
  BY <1>1, <1>3, <1>4 DEF StepInv, Idle
<1> QED
  BY <1>5, <1>6, <1>7, <1>8, <1>9 DEF StepInv

(* issue_out, called by the process or by the handler. *)
LEMMA IssuesInStep ==
    ASSUME RingInv, StepInv, ~upset, ~upset', IssueSlot \/ HandlerIssue
    PROVE  StepInv'
<1>0. ~spoiled /\ DataOK /\ Ordered
  BY InStepOrdered
<1>1. /\ UNCHANGED <<slots, ihw, itail, mde, fed, irq, goal, state>>
      /\ pc # "clean" /\ pc' # "clean" /\ (Draining => Draining')
  <2>1. CASE IssueSlot
    BY <1>0, <2>1 DEF IssueSlot, Goto, Draining, DataOK
  <2>2. CASE HandlerIssue
    <3>1. pc # "clean"
      BY <1>0, <2>2 DEF HandlerIssue, Ordered, Cleaning
    <3> QED
      BY <2>2, <3>1 DEF HandlerIssue, Goto, Awakened, Draining
  <2> QED
    BY <2>1, <2>2
<1>2. PICK err : Issue(err) /\ (hwerr' <=> err)
  <2>1. CASE IssueSlot
    <3>1. Issue(hwerr) /\ hwerr' = hwerr
      BY <2>1, Zenon DEF IssueSlot
    <3> WITNESS hwerr
    <3> QED
      BY <3>1, Zenon
  <2>2. CASE HandlerIssue
    <3>1. Issue(hwerr /\ dma) /\ (hwerr' <=> (hwerr /\ dma))
      BY <2>2, Zenon DEF HandlerIssue
    <3> WITNESS hwerr /\ dma
    <3> QED
      BY <3>1, Zenon
  <2> QED
    BY <2>1, <2>2
<1>3. Flow /\ Rests /\ AtEntry /\ Filled /\ Idle
  BY DEF StepInv
<1>4. (~dma => fed = pend)' /\ AtEntry'
      /\ pend' <= issues' /\ (pend' < issues' => pend < issues)
  BY <1>0, <1>1, <1>2, <1>3, IssueInStep DEF Flow
<1>5. ~(hwerr' /\ dma')
  <2>1. hwerr' => hwerr
    BY Zenon DEF IssueSlot, HandlerIssue
  <2>2. CASE dma' = dma
    BY <1>3, <2>1, <2>2 DEF Flow
  <2>3. CASE ~err
    BY <1>2, <2>3
  <2> QED
    BY <1>2, <2>2, <2>3 DEF Issue
<1>7. Flow'
  <2>2. pend' < issues' => irq' \/ goal' = "reset"
    BY <1>1, <1>3, <1>4 DEF Flow
  <2> QED
    BY <1>4, <1>5, <2>2 DEF Flow
<1>8. Rests' /\ Idle'
  BY <1>1, <1>3 DEF Rests, Idle
<1>9. Filled'
  BY <1>1, <1>3, SameFilled
<1> QED
  BY <1>4, <1>7, <1>8, <1>9 DEF StepInv

(* A slot put behind the others, while no drain is under way. *)
LEMMA PutFilled ==
    ASSUME RingInv, ~spoiled, Filled, ~Draining, ~Full, NEW kind \in {"ready", "end"},
           mde' = [mde EXCEPT ![regular_idx(itail)] = kind],
           itail' = advance_idx(itail), UNCHANGED <<slots, ihw>>,
           kind = "end" => Draining'
    PROVE  Filled'
<1>1. /\ slots \in Nat /\ 4 <= slots /\ slots <= MaxSlots /\ MaxSlots \in Nat
      /\ ihw \in 0 .. 2 * slots - 1 /\ itail \in 0 .. 2 * slots - 1
      /\ mde \in [Entries -> {"free", "ready", "end"}]
  BY Indices DEF RingInv, TypeOK, Ordered, DataOK
<1> DEFINE d == Dist(ihw, itail)
<1>2. d \in 0 .. slots - 1
  BY <1>1, FullIsFull DEF RingInv, Ordered, InOrder, Dist
<1>3. Dist(ihw, itail)' = d + 1
  <2>1. Dist(ihw, advance_idx(itail)) = d + 1
    BY <1>1, <1>2, DistGrows
  <2> QED
    BY <2>1 DEF Dist
<1>4. EntryAt(ihw, d) = regular_idx(itail)
  BY <1>1, <1>2, EntryOfIndex
<1> HIDE DEF d
<1>5. ASSUME NEW k \in 0 .. d
      PROVE  /\ mde'[EntryAt(ihw, k)'] # "free"
             /\ mde'[EntryAt(ihw, k)'] = "end" => Draining' /\ k = d
  <2>1. EntryAt(ihw, k)' = EntryAt(ihw, k)
    BY DEF EntryAt, regular_idx
  <2>2. EntryAt(ihw, k) \in Entries
    <3>0. k \in 0 .. slots - 1
      BY <1>1, <1>2
    <3>1. EntryAt(ihw, k) \in 0 .. slots - 1
      BY <1>1, <3>0, EntryInRing
    <3> QED
      BY <1>1, <3>1 DEF Entries
  <2>3. CASE k = d
    BY <1>1, <1>4, <2>1, <2>2, <2>3
  <2>4. CASE k # d
    <3>1. EntryAt(ihw, k) # regular_idx(itail)
      BY <1>1, <1>2, <1>4, <2>4, EntriesDiffer
    <3>2. mde'[EntryAt(ihw, k)'] = mde[EntryAt(ihw, k)]
      BY <1>1, <2>1, <2>2, <3>1
    <3>3. k \in 0 .. Dist(ihw, itail) - 1
      BY <1>2, <2>4 DEF d
    <3> QED
      BY <3>2, <3>3 DEF Filled
  <2> QED
    BY <2>3, <2>4
<1> QED
  BY <1>2, <1>3, <1>5 DEF Filled

(* A slot is put into the ring by write or by a drain. *)
LEMMA PutInStep ==
    ASSUME RingInv, StepInv, ~upset, ~upset',
           WriteSlot \/ \E why \in {"sync", "close", "reset"} : Drain(why)
    PROVE  StepInv'
<1>0. ~spoiled /\ Steady
  BY InStepOrdered
<1>1. UNCHANGED <<slots, ihw, issues, hwerr, dmaidx, irq, state>>
      /\ pc \in {"user", "full"} /\ pc' = "test"
  BY DEF WriteSlot, Drain, Calls, PutSlot, CallIssue, Goto, hwVars
<1>2. Flow /\ Rests /\ AtEntry /\ Filled /\ Idle /\ ~Draining /\ goal # "reset"
  BY <1>0, <1>1 DEF StepInv, Steady, Draining
<1>3. CASE WriteSlot
  <2>1. /\ UNCHANGED <<dma, pend, fed, goal, start>> /\ ~Full
        /\ mde' = [mde EXCEPT ![regular_idx(itail)] = "ready"] /\ itail' = advance_idx(itail)
    BY <1>3 DEF WriteSlot, PutSlot, hwVars
  <2>2. Filled'
    BY <1>0, <1>1, <1>2, <2>1, PutFilled
  <2>3. state = "RW"
    BY <1>0, <1>3 DEF WriteSlot, Steady, Writing
  <2> QED
    BY <1>1, <1>2, <2>1, <2>2, <2>3
       DEF StepInv, Flow, Rests, Idle, AtEntry, EntryAt, regular_idx
<1>4. ASSUME NEW why \in {"sync", "close", "reset"}, Drain(why)
      PROVE  StepInv'
  <2>1. /\ ~Full /\ goal' = why /\ ret' = "drain"
        /\ mde' = [mde EXCEPT ![regular_idx(itail)] = "end"] /\ itail' = advance_idx(itail)
    <3>1. ~Full
      BY <1>4, Zenon DEF Drain
    <3> QED
      BY <1>4, <3>1 DEF Drain, PutSlot, CallIssue
  <2>2. Draining'
    BY <1>1, <2>1 DEF Draining
  <2>3. Filled'
    BY <1>0, <1>1, <1>2, <2>1, <2>2, PutFilled
  <2>4. CASE why = "reset"
    <3>1. start' = FALSE /\ dma' = FALSE /\ pend' = 0 /\ fed' = 0
      BY <1>4, <2>4 DEF Drain
    <3> QED
      BY <1>0, <1>1, <2>1, <2>2, <2>3, <2>4, <3>1, Place, <1>2
         DEF StepInv, Flow, Rests, Idle, AtEntry
  <2>5. CASE why # "reset"
    <3>1. UNCHANGED <<start, dma, pend, fed>>
      BY <1>4, <2>5 DEF Drain
    <3> QED
      BY <1>1, <1>2, <2>1, <2>2, <2>3, <2>5, <3>1
         DEF StepInv, Flow, Rests, Idle, AtEntry, EntryAt, regular_idx
  <2> QED
    BY <2>4, <2>5
<1> QED
  BY <1>3, <1>4

(* SETFRAGMENT finds the ring empty, and resizes it only with zero indices. *)
LEMMA FragmentInStep ==
    ASSUME RingInv, StepInv, ~upset, ~upset', NEW m \in SlotChoices, SetFragment(m)
    PROVE  StepInv'
<1>0. ~spoiled /\ Ordered /\ DataOK
  BY InStepOrdered
<1>1. /\ pc = "user" /\ state = "OPEN" /\ slots' = m
      /\ UNCHANGED <<procVars, ihw, itail, issues, hwerr, hwVars>>
  BY DEF SetFragment, Calls
<1>2. m = slots \/ (ihw = 0 /\ itail = 0)
  BY Zenon DEF SetFragment
<1>3. Flow /\ Rests /\ AtEntry /\ Idle /\ ihw = itail
  BY <1>1 DEF StepInv, Idle, Draining
<1>4. issues = 0 /\ pend = 0 /\ fed = 0
  BY <1>0, <1>1, <1>3, Place DEF Flow, Ordered, IssuesAlways, InOrder, Dist
<1>5. m \in Nat /\ 4 <= m /\ slots \in Nat /\ 4 <= slots
  BY <1>0, SlotsBound DEF DataOK
<1>6. EntryAt(ihw, issues - pend + fed)' = EntryAt(ihw, issues - pend + fed)
  BY <1>1, <1>2, <1>4, <1>5 DEF EntryAt, regular_idx, hwVars
<1>7. Flow' /\ Rests' /\ AtEntry' /\ Idle'
  BY <1>1, <1>3, <1>6 DEF Flow, Rests, AtEntry, Idle, Draining, procVars, hwVars
<1>8. Filled'
  <2>1. ihw \in Nat
    BY <1>0 DEF DataOK
  <2>2. Dist(ihw, itail)' = 0
    BY <1>1, <1>3, <2>1 DEF Dist
  <2> QED
    BY <2>2 DEF Filled
<1> QED
  BY <1>7, <1>8 DEF StepInv

(* The end of a drain by close or RESET that finds the hardware at rest puts the
   engine in step, wherever it was. *)
LEMMA DrainMendsStep ==
    ASSUME RingInv, ~upset', DrainEnd, goal # "sync"
    PROVE  StepInv'
<1>1. ~dma /\ ~(pend' > 0)
  BY Zenon DEF DrainEnd
<1>2. /\ pc' = "clean" /\ ihw' = 0 /\ itail' = 0 /\ dma' = dma /\ issues' = issues
      /\ (pend' = 0 /\ fed' = 0) \/ UNCHANGED <<pend, fed>>
  BY DEF DrainEnd, Goto
<1>3. pend' = 0 /\ fed' = 0 /\ 0 <= issues'
  BY <1>1, <1>2 DEF RingInv, TypeOK, DataOK, Steady
<1> QED
  BY <1>1, <1>2, <1>3 DEF StepInv, Flow, Rests, AtEntry, Filled, Idle, Dist

(* SYNC has played all that was in the ring, or counts as cut short. *)
LEMMA SyncInStep ==
    ASSUME RingInv, StepInv, ~upset, ~upset', DrainEnd, goal = "sync"
    PROVE  StepInv'
<1>0. ~spoiled /\ Ordered
  BY InStepOrdered
<1>1. ~dma /\ ~(pend > 0) /\ ~(ihead # itail)
  BY Zenon DEF DrainEnd
<1>2. /\ Flow /\ pc \in {"drain", "drainsleep"} /\ ~irq
      /\ pc' = "user" /\ goal' = "close"
      /\ UNCHANGED <<slots, ihw, itail, issues, mde, dma, irq>>
      /\ (pend' = 0 /\ fed' = 0) \/ UNCHANGED <<pend, fed>>
  BY DEF StepInv, DrainEnd, ProcessRuns, Goto
<1>3. pend = 0 /\ fed = 0 /\ pend' = 0 /\ fed' = 0 /\ issues = 0
  <2>1. /\ pend \in Nat /\ issues \in Nat /\ fed = pend /\ pend <= issues
        /\ ~(pend < issues)
    BY <1>0, <1>1, <1>2, Place DEF Flow
  <2> QED
    BY <1>1, <1>2, <2>1
<1>4. Dist(ihw, itail) = 0 /\ ihw = itail
  <2>1. Dist(ihw, ihead) = 0 /\ ihead = itail
    BY <1>0, <1>1, <1>2, <1>3 DEF Ordered, IssuesAlways
  <2>2. slots \in Nat /\ ihw \in 0 .. 2 * slots - 1 /\ itail \in 0 .. 2 * slots - 1
    BY <1>0, <1>3, Place
  <2> QED
    BY <2>1, <2>2 DEF Dist
<1>5. Dist(ihw, itail)' = 0
  BY <1>2, <1>4 DEF Dist
<1> QED
  BY <1>1, <1>2, <1>3, <1>4, <1>5 DEF StepInv, Flow, Rests, AtEntry, Filled, Idle

(* clean_buffer ends with an empty ring and idle hardware. *)
LEMMA CleanInStep ==
    ASSUME RingInv, StepInv, ~upset, ~upset', Clean
    PROVE  StepInv'
<1>1. /\ pc = "clean" /\ pc' = "user" /\ issues' = 0 /\ hwerr' = FALSE /\ goal' = "close"
      /\ UNCHANGED <<slots, ihw, itail, mde, dma, dmaidx, pend, fed, irq>>
  BY DEF Clean, Goto, hwVars
<1>2. Flow /\ Rests /\ ihw = 0 /\ itail = 0
  BY <1>1, InStepOrdered DEF StepInv, Ordered, Cleaning
<1>3. ~dma /\ pend = 0 /\ fed = 0
  BY <1>1, <1>2 DEF Rests, Flow
<1>4. Filled'
  BY <1>1, <1>2 DEF Filled, Dist
<1> QED
  BY <1>1, <1>2, <1>3, <1>4 DEF StepInv, Flow, Rests, AtEntry, Idle

(* The entries seen from ihw after the handler has retired n slots. *)
LEMMA RetiredEntries ==
    ASSUME slots \in Nat, 4 <= slots, ihw \in 0 .. 2 * slots - 1, NEW n \in 0 .. 2,
           slots' = slots,
           ihw' = (IF n = 0 THEN ihw ELSE IF n = 1 THEN advance_idx(ihw)
                   ELSE advance_idx(advance_idx(ihw))),
           NEW k \in 0 .. slots - 1, k + n \in 0 .. slots - 1
    PROVE  EntryAt(ihw', k) = EntryAt(ihw, k + n)
  BY DEF EntryAt, regular_idx, advance_idx

(* An interrupt inside clean_buffer that finds nothing to retire. *)
LEMMA HandlerInClean ==
    ASSUME RingInv, StepInv, ~upset, ~upset', Handler, pc = "clean"
    PROVE  StepInv'
<1>1. Flow /\ Rests /\ ~spoiled /\ DataOK /\ ihw = 0 /\ itail = 0
  BY InStepOrdered DEF StepInv, Ordered, Cleaning
<1>2. ~(Consumed > 0) /\ Consumed \in 0 .. 2
  BY <1>1, ConsumedBound, Zenon DEF Handler
<1>3. Consumed = 0
  BY <1>2
<1>4. /\ issues' = issues - Consumed
      /\ ihw' = (IF Consumed = 0 THEN ihw ELSE IF Consumed = 1 THEN advance_idx(ihw)
                 ELSE advance_idx(advance_idx(ihw)))
      /\ UNCHANGED <<procVars, slots, itail, dma, pend, fed>>
  BY Zenon DEF Handler
<1>5. issues' = issues /\ ihw' = 0 /\ itail' = 0 /\ pc' = "clean"
  BY <1>1, <1>3, <1>4 DEF DataOK, procVars
<1> QED
  BY <1>1, <1>4, <1>5 DEF StepInv, Flow, Rests, AtEntry, Filled, Idle, Dist

(* pl_audio_handler up to its loop. *)
LEMMA HandlerInStep ==
    ASSUME RingInv, StepInv, ~upset, ~upset', Handler, pc # "clean"
    PROVE  StepInv'
<1>0. ~spoiled /\ TypeOK /\ Ordered /\ DataOK /\ InOrder
  BY InStepOrdered
<1>1. ~(unf /\ dma)
  BY Zenon DEF Handler
<1>2. Flow /\ Rests /\ AtEntry /\ Filled /\ Idle
  BY DEF StepInv
<1>3. pend <= issues
  BY <1>2 DEF Flow
<1> DEFINE n == issues - pend
           gone == {regular_idx(ihw) : j \in 1 .. n}
                     \cup {regular_idx(advance_idx(ihw)) : j \in 2 .. n}
<1>4. n \in 0 .. 2 /\ n <= issues
  BY <1>0, <1>3, Place
<1>5. Consumed = n
  BY <1>0, <1>3, ConsumedIsPlayed
<1>6. /\ issues' = issues - n
      /\ ihw' = (IF n = 0 THEN ihw ELSE IF n = 1 THEN advance_idx(ihw)
                 ELSE advance_idx(advance_idx(ihw)))
      /\ mde' = [i \in DOMAIN mde |-> IF i \in gone THEN "free" ELSE mde[i]]
      /\ UNCHANGED <<procVars, slots, ihead, itail, dma, dmaidx, pend, fed>>
  BY <1>5, Zenon DEF Handler
<1>7. hwerr' <=> hwerr \/ unf
  BY Zenon DEF Handler
<1>8. Flow'
  <2>1. issues' = pend /\ pend \in 0 .. 2 /\ pend' = pend /\ fed' = fed /\ dma' = dma
    BY <1>0, <1>3, <1>6, Place
  <2>2. ~(hwerr' /\ dma')
    BY <1>1, <1>2, <1>7, <2>1 DEF Flow
  <2> QED
    BY <1>2, <2>1, <2>2 DEF Flow
<1>9. Rests'
  BY <1>2, <1>6 DEF Rests, procVars
<1>10. /\ slots \in Nat /\ 4 <= slots /\ slots <= MaxSlots /\ MaxSlots \in Nat
       /\ ihw \in 0 .. 2 * slots - 1
       /\ mde \in [Entries -> {"free", "ready", "end"}]
  BY <1>0, Indices DEF DataOK
<1>11. ASSUME NEW k \in 0 .. slots - 1, k + n \in 0 .. slots - 1
       PROVE  EntryAt(ihw', k) = EntryAt(ihw, k + n)
  <2> HIDE DEF n
  <2> QED
    BY <1>4, <1>6, <1>10, <1>11, RetiredEntries
<1>12. AtEntry'
  <2>1. issues \in 0 .. 2 /\ pend \in 0 .. 2 /\ fed \in 0 .. 2 /\ fed <= pend
    BY <1>0, <1>3, Place
  <2>2. fed \in 0 .. slots - 1 /\ fed + n \in 0 .. slots - 1 /\ fed + n = issues - pend + fed
        /\ issues - n - pend + fed = fed
    BY <1>3, <1>10, <2>1
  <2>3. EntryAt(ihw', fed) = EntryAt(ihw, issues - pend + fed)
    <3>1. EntryAt(ihw', fed) = EntryAt(ihw, fed + n)
      BY <1>11, <2>2
    <3> QED
      BY <2>2, <3>1
  <2>4. (issues - pend + fed)' = fed
    BY <1>6, <2>2
  <2>5. (EntryAt(ihw, issues - pend + fed))' = EntryAt(ihw', fed)
    BY <1>6, <2>4 DEF EntryAt, regular_idx
  <2> QED
    BY <1>2, <1>6, <2>3, <2>5 DEF AtEntry
<1> DEFINE d == Dist(ihw, itail)
<1>13. d \in 0 .. slots /\ n <= d /\ Dist(ihw, itail)' = d - n
  <2>1. d \in 0 .. slots /\ Dist(ihw, ihead) <= d /\ Dist(ihw, ihead) \in Int
    BY <1>0, <1>3, Place
  <2>2. issues = Dist(ihw, ihead)
    BY <1>0, <1>6 DEF Ordered, IssuesAlways
  <2>3. n <= d
    BY <1>4, <2>1, <2>2
  <2>4. itail \in 0 .. 2 * slots - 1
    BY <1>0, <1>3, Place
  <2>5. Dist(ihw', itail) = d - n
    <3> HIDE DEF n
    <3> QED
      BY <1>4, <1>6, <1>10, <2>1, <2>3, <2>4 DEF Dist, advance_idx
  <2> QED
    BY <1>6, <2>1, <2>3, <2>5 DEF Dist
<1>14. n >= 1 => regular_idx(ihw) = EntryAt(ihw, 0)
  BY <1>10 DEF EntryAt, regular_idx
<1>15. regular_idx(advance_idx(ihw)) = EntryAt(ihw, 1)
  BY <1>10 DEF EntryAt, regular_idx, advance_idx
<1>16. ASSUME NEW k \in 0 .. d - n - 1
       PROVE  /\ mde'[EntryAt(ihw', k)] # "free"
              /\ mde'[EntryAt(ihw', k)] = "end" => Draining' /\ k = d - n - 1
  <2>1. k + n \in 0 .. d - 1 /\ k + n \in 0 .. slots - 1 /\ k \in 0 .. slots - 1
    BY <1>4, <1>10, <1>13
  <2>2. EntryAt(ihw', k) = EntryAt(ihw, k + n)
    BY <1>11, <2>1
  <2>3. EntryAt(ihw, k + n) \notin gone
    <3> HIDE DEF n, d
    <3>1. ASSUME n >= 1 PROVE EntryAt(ihw, k + n) # EntryAt(ihw, 0)
      <4>1. k + n # 0 /\ 0 \in 0 .. slots - 1
        BY <1>4, <1>10, <2>1, <3>1
      <4> QED
        BY <1>10, <2>1, <4>1, EntriesDiffer
    <3>2. ASSUME n >= 2 PROVE EntryAt(ihw, k + n) # EntryAt(ihw, 1)
      <4>1. k + n # 1 /\ 1 \in 0 .. slots - 1
        BY <1>4, <1>10, <2>1, <3>2
      <4> QED
        BY <1>10, <2>1, <4>1, EntriesDiffer
    <3> QED
      BY <1>4, <1>14, <1>15, <3>1, <3>2
  <2>4. EntryAt(ihw, k + n) \in Entries
    <3>1. EntryAt(ihw, k + n) \in 0 .. slots - 1
      <4> HIDE DEF n
      <4> QED
        BY <1>10, <2>1, EntryInRing
    <3> QED
      BY <1>10, <3>1 DEF Entries
  <2>5. mde'[EntryAt(ihw', k)] = mde[EntryAt(ihw, k + n)]
    <3> HIDE DEF n, gone
    <3> QED
      BY <1>6, <1>10, <2>2, <2>3, <2>4
  <2>6. Draining' <=> Draining
    BY <1>6 DEF Draining, procVars
  <2>7. k + n = d - 1 => k = d - n - 1
    BY <1>4, <1>13
  <2> QED
    BY <1>2, <2>1, <2>5, <2>6, <2>7 DEF Filled
<1>17. Filled'
  <2> HIDE DEF n, d
  <2>1. \A k : EntryAt(ihw, k)' = EntryAt(ihw', k)
    BY <1>6 DEF EntryAt, regular_idx
  <2> QED
    BY <1>13, <1>16, <2>1 DEF Filled
<1>18. Idle'
  <2>1. CASE ihw = itail
    <3> HIDE DEF n
    <3>1. n = 0
      BY <1>4, <1>10, <1>13, <2>1 DEF d, Dist
    <3> QED
      BY <1>6, <2>1, <3>1 DEF Idle
  <2>2. CASE ihw # itail
    BY <1>2, <1>6, <2>2 DEF Idle, Draining, procVars
  <2> QED
    BY <2>1, <2>2
<1> QED
  BY <1>8, <1>9, <1>12, <1>17, <1>18 DEF StepInv

(* The engine takes entries that are issued, and stops when it has taken all. *)
LEMMA FetchInStep ==
    ASSUME RingInv, StepInv, ~upset, ~upset', HwFetch
    PROVE  StepInv'
<1>0. ~spoiled /\ DataOK /\ Ordered
  BY InStepOrdered
<1>1. /\ UNCHANGED <<procVars, ringVars, pend, irq>>
      /\ dma /\ fed < pend /\ fed' = fed + 1
      /\ dmaidx' \in NextEntry(dmaidx)
  BY DEF HwFetch
<1>2. Flow /\ Rests /\ AtEntry /\ Filled /\ Idle
  BY DEF StepInv
<1> DEFINE k == issues - pend + fed
<1>3. /\ k \in 0 .. 2 /\ k < issues /\ issues = Dist(ihw, ihead) /\ pend <= issues
      /\ k \in 0 .. Dist(ihw, itail) - 1
  <2>1. pend <= issues /\ issues = Dist(ihw, ihead)
    BY <1>0, <1>1, <1>2 DEF Flow, Rests, Ordered, IssuesAlways
  <2>2. /\ issues \in 0 .. 2 /\ pend \in 0 .. 2 /\ fed \in 0 .. 2
        /\ Dist(ihw, itail) \in Int /\ Dist(ihw, ihead) <= Dist(ihw, itail)
    BY <2>1, Place, <1>0
  <2> QED
    BY <1>1, <2>1, <2>2
<1>4. dmaidx = EntryAt(ihw, k)
  BY <1>1, <1>2 DEF AtEntry
<1>5. mde[dmaidx] = "end" => fed + 1 = pend
  <2>1. mde[dmaidx] = "end" => k = Dist(ihw, itail) - 1
    BY <1>2, <1>3, <1>4 DEF Filled
  <2> HIDE DEF k
  <2>2. mde[dmaidx] = "end" => k + 1 >= issues
    BY <1>3, <2>1, Place, <1>0
  <2> QED
    BY <1>1, <1>3, <2>2, Place, <1>0 DEF k
<1>6. dma' <=> mde[dmaidx] # "end"
  <2>1. mde[dmaidx] \in {"ready", "end"}
    <3>1. mde[dmaidx] # "free"
      BY DEF HwFetch
    <3> QED
      BY <1>0, <3>1 DEF DataOK
  <2>2. dma' <=> mde[dmaidx] = "ready"
    BY Zenon DEF HwFetch
  <2> QED
    BY <2>1, <2>2
<1>7. Flow'
  BY <1>1, <1>2, <1>5, <1>6 DEF Flow, ringVars, procVars
<1>8. Rests' /\ Idle'
  BY <1>1, <1>2, <1>6 DEF Rests, Idle, Draining, ringVars, procVars
<1>9. AtEntry'
  <2>1. (issues - pend + fed)' = k + 1
    BY <1>1, <1>3, Place, <1>0 DEF ringVars
  <2>2. EntryAt(ihw, k + 1) = IF EntryAt(ihw, k) + 1 >= slots THEN 0 ELSE EntryAt(ihw, k) + 1
    <3> HIDE DEF k
    <3> QED
      BY <1>3, Place, <1>0 DEF EntryAt, regular_idx
  <2>4. EntryAt(ihw, k) \in 0 .. slots - 1 /\ slots \in Nat
    <3> HIDE DEF k
    <3>1. slots \in Nat /\ 4 <= slots /\ ihw \in 0 .. 2 * slots - 1
      BY <1>0, <1>3, Place
    <3>2. k \in 0 .. slots - 1
      BY <1>3, <3>1
    <3> QED
      BY <3>1, <3>2, EntryInRing
  <2>5. dmaidx' = IF dmaidx + 1 >= slots THEN 0 ELSE dmaidx + 1
    <3> HIDE DEF k
    <3> QED
      BY <1>1, <1>4, <2>4 DEF NextEntry
  <2> HIDE DEF k
  <2>3. (EntryAt(ihw, issues - pend + fed))' = EntryAt(ihw, k + 1)
    BY <1>1, <2>1 DEF EntryAt, regular_idx, ringVars
  <2> QED
    BY <1>1, <1>4, <2>2, <2>3, <2>5 DEF AtEntry
<1>10. Filled'
  BY <1>1, <1>2, SameFilled DEF ringVars, procVars, Draining
<1> QED
  BY <1>7, <1>8, <1>9, <1>10 DEF StepInv

(* The engine stops only when nothing is left to deliver. *)
LEMMA StopInStep ==
    ASSUME RingInv, StepInv, ~upset, ~upset', HwStop
    PROVE  StepInv'
<1>0. ~spoiled /\ Ordered
  BY InStepOrdered
<1>1. /\ UNCHANGED <<procVars, ringVars, pend, fed, irq>>
      /\ dma /\ dma' = FALSE /\ (mde[dmaidx] = "free" \/ hwerr)
  BY DEF HwStop
<1>2. Flow /\ Rests /\ AtEntry /\ Filled /\ Idle
  BY DEF StepInv
<1>3. mde[dmaidx] = "free" /\ pc # "clean" /\ pend <= issues
  BY <1>1, <1>2 DEF Flow, Rests
<1>4. fed = pend
  <2> SUFFICES ASSUME fed < pend PROVE FALSE
    BY <1>3, Place, <1>0
  <2> DEFINE k == issues - pend + fed
  <2>1. k \in 0 .. Dist(ihw, itail) - 1
    <3>1. issues = Dist(ihw, ihead)
      BY <1>0, <1>3 DEF Ordered, IssuesAlways
    <3> QED
      BY <1>3, <3>1, Place, <1>0
  <2>2. dmaidx = EntryAt(ihw, k)
    BY <1>1, <1>2 DEF AtEntry
  <2> QED
    BY <1>2, <1>3, <2>1, <2>2 DEF Filled
<1>5. Flow' /\ Rests' /\ AtEntry' /\ Idle'
  BY <1>1, <1>2, <1>4 DEF Flow, Rests, Idle, AtEntry, Draining, ringVars, procVars
<1>6. Filled'
  BY <1>1, <1>2, SameFilled DEF ringVars, procVars, Draining
<1> QED
  BY <1>5, <1>6 DEF StepInv

(* A packet played is one enabled and one delivered less, and an interrupt. *)
LEMMA PlayInStep ==
    ASSUME RingInv, StepInv, ~upset, ~upset', HwPlay
    PROVE  StepInv'
<1>0. ~spoiled
  BY InStepOrdered
<1>1. /\ UNCHANGED <<procVars, ringVars, dma, dmaidx>> /\ irq' = TRUE
      /\ fed > 0 /\ fed' = fed - 1 /\ pend' = pend - 1
  BY DEF HwPlay
<1>2. Flow /\ Rests /\ AtEntry /\ Filled /\ Idle
  BY DEF StepInv
<1>3. /\ pend \in 0 .. 2 /\ fed \in 0 .. 2 /\ issues \in 0 .. 2 /\ pend <= issues /\ fed <= pend
  BY <1>2, Place, <1>0 DEF Flow
<1>4. pend > 0 /\ pend' <= issues /\ (issues - pend + fed)' = issues - pend + fed
  BY <1>1, <1>3 DEF ringVars
<1>5. Flow'
  BY <1>1, <1>2, <1>3, <1>4 DEF Flow, ringVars, procVars
<1>6. Rests' /\ Idle'
  BY <1>1, <1>2, <1>3, <1>4 DEF Rests, Idle, Draining, ringVars, procVars
<1>7. AtEntry'
  BY <1>1, <1>2, <1>4 DEF AtEntry, EntryAt, regular_idx, ringVars
<1>8. Filled'
  BY <1>1, <1>2, SameFilled DEF ringVars, procVars, Draining
<1> QED
  BY <1>5, <1>6, <1>7, <1>8 DEF StepInv

(* Only close and RESET clear upset. *)
LEMMA UpsetStays ==
    ASSUME upset, ~upset', [Next]_vars
    PROVE  DrainEnd /\ goal # "sync"
<1> USE DEF histVars
<1>1. CASE ProcessStep
  <2>1. CASE IssueTest \/ IssueSlot \/ WriteDone \/ WriteSlot \/ WriteFull("sleep")
             \/ DrainWait \/ Clean
    BY <2>1 DEF IssueTest, IssueSlot, WriteDone, WriteSlot, WriteFull, DrainWait, Clean
  <2>2. CASE DrainEnd
    <3>1. goal # "sync"
      BY <2>2, Zenon DEF DrainEnd
    <3> QED
      BY <2>2, <3>1
  <2>3. CASE IssueDisable
    BY <2>3, Zenon DEF IssueDisable
  <2> QED
    BY <1>1, <2>1, <2>2, <2>3 DEF ProcessStep
<1>2. CASE UserStep
  <2>1. ASSUME NEW n, SetFragment(n) PROVE FALSE
    BY <2>1, Zenon DEF SetFragment
  <2>2. ASSUME NEW why, Drain(why) PROVE FALSE
    BY <2>2, Zenon DEF Drain
  <2>3. ASSUME NEW n, \/ Open \/ SetTrigger \/ Post \/ WriteSignal \/ WriteFull("user")
                      \/ Write(n)
        PROVE  FALSE
    BY <2>3 DEF Open, SetTrigger, Post, WriteSignal, WriteFull, Write
  <2> QED
    BY <1>2, <2>1, <2>2, <2>3 DEF UserStep
<1>3. CASE Handler
  BY <1>3, Zenon DEF Handler
<1>4. CASE HandlerIssue \/ HwStep \/ UNCHANGED vars
  BY <1>4 DEF HandlerIssue, HwStep, HwFetch, HwStop, HwPlay, vars
<1> QED
  BY <1>1, <1>2, <1>3, <1>4 DEF Next

(* The inductive invariant of the DMA engine, on top of the one of the ring. *)
THEOREM StepInvariant == Spec => [](RingInv /\ StepInv)
<1>1. Init => StepInv
  <2> SUFFICES ASSUME Init PROVE StepInv
    OBVIOUS
  <2>1. Dist(ihw, itail) = 0
    BY DEF Init, Dist
  <2> QED
    BY <2>1 DEF Init, StepInv, Flow, Rests, AtEntry, Filled, Idle
<1>2. RingInv /\ StepInv /\ [Next]_vars => StepInv'
  <2> SUFFICES ASSUME RingInv, StepInv, [Next]_vars, ~upset'
               PROVE  StepInv'
    BY DEF StepInv
  <2>0. CASE upset
    BY <2>0, UpsetStays, DrainMendsStep
  <2> SUFFICES ASSUME ~upset PROVE StepInv'
    BY <2>0
  <2>1. CASE ProcessStep
    BY <2>1, QuietInStep, IssuesInStep, PutInStep, SyncInStep, DrainMendsStep, CleanInStep
       DEF ProcessStep
  <2>2. CASE UserStep
    BY <2>2, QuietInStep, FragmentInStep, PutInStep DEF UserStep
  <2>3. CASE Handler \/ HandlerIssue
    BY <2>3, HandlerInStep, HandlerInClean, IssuesInStep
  <2>4. CASE HwStep
    BY <2>4, FetchInStep, StopInStep, PlayInStep DEF HwStep
  <2>5. CASE UNCHANGED vars
    <3>1. UNCHANGED <<procVars, ringVars, hwVars>>
      BY <2>5 DEF vars
    <3>2. Flow /\ Rests /\ AtEntry /\ Filled /\ Idle
      BY DEF StepInv
    <3>3. Filled'
      BY <3>1, <3>2, SameFilled DEF Draining, procVars, ringVars
    <3> QED
      BY <3>1, <3>2, <3>3 DEF StepInv, Flow, Rests, AtEntry, Idle, Draining, EntryAt,
                              regular_idx, procVars, ringVars, hwVars
  <2> QED
    BY <2>1, <2>2, <2>3, <2>4, <2>5 DEF Next
<1> QED
  BY RingInvariant, <1>1, <1>2, PTL DEF Spec

(* The entry that the DMA fetches next is the first one issued and not delivered,
   at every step of process, handler and hardware and for a ring of any size,
   unless one of the six events has come since the last close or RESET that found
   the hardware at rest. *)
THEOREM EngineInStep == Spec => []InStepUnlessUpset
<1>1. RingInv /\ StepInv => InStepUnlessUpset
  <2> SUFFICES ASSUME RingInv, StepInv, ~upset, dma
               PROVE  dmaidx = (ihw + (issues - pend) + fed) % slots
    BY DEF InStepUnlessUpset, HwInStep
  <2> DEFINE k == issues - pend + fed
  <2>0. ~spoiled
    BY InStepOrdered
  <2>1. dmaidx = EntryAt(ihw, k) /\ pend <= issues
    BY DEF StepInv, AtEntry, Flow
  <2>2. /\ issues \in 0 .. 2 /\ pend \in 0 .. 2 /\ fed \in 0 .. 2 /\ k \in 0 .. 2
        /\ slots \in Nat /\ 4 <= slots /\ ihw \in 0 .. 2 * slots - 1
    BY <2>0, <2>1, Place
  <2>3. ihw + (issues - pend) + fed = ihw + k /\ k \in 0 .. slots - 1
    BY <2>2
  <2> HIDE DEF k
  <2>4. EntryAt(ihw, k) = (ihw + k) % slots
    BY <2>2, <2>3, EntryIsRemainder
  <2> QED
    BY <2>1, <2>3, <2>4
<1> QED
  BY StepInvariant, <1>1, PTL
=============================================================================
