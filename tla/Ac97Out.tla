------------------------------ MODULE Ac97Out ------------------------------
(***************************************************************************)
(* Playback side of the AC'97 driver of the PL1029 (pl_ac97.c): a ring of  *)
(* slots that a process fills with write(2), that the interrupt handler    *)
(* and the process hand to the audio module two at a time, and that a DMA  *)
(* engine walks on its own.                                                *)
(*                                                                         *)
(* The kernel is uniprocessor and not preemptive: the process is           *)
(* interrupted only by the handler, which runs to its end while the        *)
(* hardware goes on.  A pending interrupt is taken before the next step of *)
(* the process.  Indices run over two rounds of the ring, as in the code.  *)
(*                                                                         *)
(* Six events the driver does not protect itself against are steps like    *)
(* any other.  Three of them disturb the indices, and spoiled records that *)
(* one has happened:                                                       *)
(*   - drain_out called while no slot is free;                             *)
(*   - an interrupt that retires slots between the stores of clean_buffer; *)
(*   - SETFRAGMENT with another number of slots while the indices are not  *)
(*     zero.                                                               *)
(* The others put the DMA engine out of step with the indices, as those    *)
(* three do, and upset records it:                                         *)
(*   - an interrupt between the test of the DMA residue and disable_dma in *)
(*     issue_out called by the process;                                    *)
(*   - a drain that ends, by a signal or because nothing runs, before all  *)
(*     that was put into the ring is played;                               *)
(*   - an underflow reported before the DMA has stopped.                   *)
(* Both are history: they guard nothing.  The end of a drain by close or   *)
(* RESET clears them, because it zeroes the indices (and finds the         *)
(* hardware at rest, or upset remains).                                    *)
(***************************************************************************)
EXTENDS Integers

CONSTANTS
  MaxSlots,    \* MAX_SLOTS
  SlotChoices, \* numbers of slots an application may ask for
  MaxWrite,    \* most slots a write(2) fills
  MaxLate      \* bound: calls other than close and RESET while upset

\* pl_dsp_setfragment accepts no other numbers.
ASSUME SlotsAssumption ==
  MaxSlots \in Nat /\ SlotChoices \subseteq 4 .. MaxSlots /\ SlotChoices # {}
ASSUME WriteAssumption == MaxWrite \in Nat \ {0}
ASSUME LateAssumption == MaxLate \in Nat

VARIABLES
  state,   \* out.state: "CLOSE", "OPEN" or "RW"
  start,   \* out.start: issuing is not forbidden by pause or trigger
  slots,   \* out.slots
  ihw,     \* out.ihw: the slot the hardware is at
  ihead,   \* out.ihead: the next slot to issue
  itail,   \* out.itail: the next free slot
  issues,  \* out.issues
  mde,     \* the entries of the DMA engine: "free" (v = 0), "ready" (v = 1)
           \* or "end" (v = 1, e = 1: the engine stops after it); those from
           \* MaxSlots on are the memory behind the array, where the indices
           \* lead after the ring was made smaller
  hwerr,   \* out.hw_error # 0
  pc,      \* where the process is
  ret,     \* where issue_out returns to
  goal,    \* the call that drains: "sync", "close" or "reset"
  count,   \* slots the write(2) has left to fill
  dma,     \* the DMA channel is enabled
  dmaidx,  \* the entry the DMA fetches next
  pend,    \* packets enabled in the audio module (ENBO, SEMA_ENBO)
  fed,     \* of these, the packets the DMA has delivered
  unf,     \* the underflow bit of the status register
  irq,     \* an interrupt is pending
  todo,    \* issue_out calls the handler has left to make
  upset,   \* history: the engine may be out of step
  spoiled, \* history: the indices may be out of order
  late     \* calls made while upset, counted for MaxLate

ringVars == <<slots, ihw, ihead, itail, issues, mde, hwerr>>
procVars == <<state, start, pc, ret, goal, count>>
hwVars   == <<dma, dmaidx, pend, fed, unf, irq>>
histVars == <<upset, spoiled, late>>
vars == <<ringVars, procVars, hwVars, todo, histVars>>

----------------------------------------------------------------------------
(* Indices *)

advance_idx(i) == IF i + 1 >= 2 * slots THEN 0 ELSE i + 1

regular_idx(i) == IF i >= slots THEN i - slots ELSE i

ABS(x) == IF x < 0 THEN -x ELSE x

(* Mutant of Full: the difference is taken as it is. *)
FullSigned == itail - ihw = slots

Full == ABS(itail - ihw) = slots

\* Slots from index a up to index b, over the two rounds.
Dist(a, b) == IF b >= a THEN b - a ELSE b - a + 2 * slots

(* Mutant of Ospace: a difference of zero is taken for an empty ring. *)
OspaceOfFull ==
  LET d == regular_idx(ihw) - regular_idx(itail)
  IN  IF d <= 0 THEN slots + d ELSE d

\* SNDCTL_DSP_GETOSPACE: the number of free slots told to the application.
Ospace ==
  IF ihw = itail THEN slots
  ELSE LET d == regular_idx(ihw) - regular_idx(itail)
       IN  IF d < 0 THEN slots + d ELSE d

Entries == 0 .. 2 * MaxSlots - 1

Init ==
  /\ state = "CLOSE" /\ start = FALSE
  /\ slots \in SlotChoices
  /\ ihw = 0 /\ ihead = 0 /\ itail = 0 /\ issues = 0
  /\ mde = [i \in Entries |-> "free"]
  /\ hwerr = FALSE
  /\ pc = "user" /\ ret = "user" /\ goal = "close" /\ count = 0
  /\ dma = FALSE /\ dmaidx = 0 /\ pend = 0 /\ fed = 0
  /\ unf = FALSE /\ irq = FALSE
  /\ todo = 0 /\ upset = FALSE /\ spoiled = FALSE /\ late = 0

----------------------------------------------------------------------------
(* The process and the handler take turns *)

\* A pending interrupt is taken first.
ProcessRuns == todo = 0 /\ ~irq

\* The application makes a call.
Calls ==
  /\ ProcessRuns /\ pc = "user"
  /\ upset => late < MaxLate
  /\ late' = IF upset THEN late + 1 ELSE 0

Goto(next) == pc' = next

----------------------------------------------------------------------------
(* issue_out: hand the next ready slot to the hardware *)

(* Mutant of Issue: the channel is started at the slot after the head. *)
IssueAhead(err) ==
  IF start /\ ihead # itail /\ ~err /\ issues < 2
  THEN /\ issues' = issues + 1
       /\ pend' = IF pend = 2 THEN 2 ELSE pend + 1
       /\ ihead' = advance_idx(ihead)
       /\ dma' = TRUE
       /\ dmaidx' = IF dma THEN dmaidx ELSE regular_idx(advance_idx(ihead))
  ELSE UNCHANGED <<issues, pend, ihead, dma, dmaidx>>

\* From the checks to the end of the critical section.
Issue(err) ==
  IF start /\ ihead # itail /\ ~err /\ issues < 2
  THEN /\ issues' = issues + 1
       /\ pend' = IF pend = 2 THEN 2 ELSE pend + 1
       /\ ihead' = advance_idx(ihead)
       /\ dma' = TRUE
       /\ dmaidx' = IF dma THEN dmaidx ELSE regular_idx(ihead)
  ELSE UNCHANGED <<issues, pend, ihead, dma, dmaidx>>

\* The process reads the DMA residue ...
IssueTest ==
  /\ ProcessRuns /\ pc = "test"
  /\ Goto(IF dma THEN "issue" ELSE "disable")
  /\ hwerr' = (hwerr /\ dma)
  /\ UNCHANGED <<state, start, ret, goal, count, slots, ihw, ihead, itail,
                 issues, mde, hwVars, todo, histVars>>

\* ... and, if the channel had stopped, disables it.
IssueDisable ==
  /\ ProcessRuns /\ pc = "disable"
  /\ dma' = FALSE
  /\ upset' = (upset \/ dma)
  /\ Goto("issue")
  /\ UNCHANGED <<state, start, ret, goal, count, ringVars,
                 dmaidx, pend, fed, unf, irq, todo, spoiled, late>>

IssueSlot ==
  /\ ProcessRuns /\ pc = "issue"
  /\ Issue(hwerr)
  /\ Goto(ret) /\ ret' = "user"
  /\ UNCHANGED <<state, start, goal, count, slots, ihw, itail, mde, hwerr, fed,
                 unf, irq, todo, histVars>>

CallIssue(back) == Goto("test") /\ ret' = back

----------------------------------------------------------------------------
(* System calls *)

Open ==
  /\ Calls /\ state = "CLOSE"
  /\ state' = "OPEN" /\ start' = TRUE
  /\ UNCHANGED <<pc, ret, goal, count, ringVars, hwVars, todo, upset, spoiled>>

\* SNDCTL_DSP_SETFRAGMENT, accepted only in state OPEN: another number or
\* another size of slots, whatever the indices are.
SetFragment(n) ==
  /\ Calls /\ state = "OPEN"
  /\ slots' = n
  /\ mde' = [i \in Entries |-> IF i < n THEN "free" ELSE mde[i]]
  /\ LET inUse == n # slots /\ (ihw # 0 \/ itail # 0)
     IN  spoiled' = (spoiled \/ inUse) /\ upset' = (upset \/ inUse)
  /\ UNCHANGED <<procVars, ihw, ihead, itail, issues, hwerr, hwVars, todo>>

\* SNDCTL_DSP_SETTRIGGER: start_issue issues nothing outside state RW.
SetTrigger ==
  /\ Calls /\ state = "OPEN"
  /\ start' \in BOOLEAN
  /\ UNCHANGED <<state, pc, ret, goal, count, ringVars, hwVars, todo, upset, spoiled>>

\* SNDCTL_DSP_POST: pause_issue toggles.
Post ==
  /\ Calls /\ state # "CLOSE"
  /\ start' = ~start
  /\ IF ~start /\ state = "RW" THEN CallIssue("user") ELSE UNCHANGED <<pc, ret>>
  /\ UNCHANGED <<state, goal, count, ringVars, hwVars, todo, upset, spoiled>>

Write(n) ==
  /\ Calls /\ state # "CLOSE"
  /\ state' = "RW" /\ start' = TRUE
  /\ count' = n
  /\ CallIssue("full")
  /\ UNCHANGED <<goal, ringVars, hwVars, todo, upset, spoiled>>

WriteDone ==
  /\ ProcessRuns /\ pc = "full" /\ count = 0
  /\ Goto("user")
  /\ UNCHANGED <<state, start, ret, goal, count, ringVars, hwVars, todo, histVars>>

\* No free slot: sleep, or return at once with O_NONBLOCK.
WriteFull(next) ==
  /\ ProcessRuns /\ pc = "full" /\ count > 0 /\ Full
  /\ Goto(next)
  /\ count' = IF next = "user" THEN 0 ELSE count
  /\ UNCHANGED <<state, start, ret, goal, ringVars, hwVars, todo, histVars>>

WriteSignal ==
  /\ ProcessRuns /\ pc = "sleep"
  /\ Goto("user") /\ count' = 0
  /\ UNCHANGED <<state, start, ret, goal, ringVars, hwVars, todo, histVars>>

\* Put slot itail into the ring and issue it.
PutSlot(kind, back) ==
  /\ mde' = [mde EXCEPT ![regular_idx(itail)] = kind]
  /\ itail' = advance_idx(itail)
  /\ CallIssue(back)

WriteSlot ==
  /\ ProcessRuns /\ pc = "full" /\ count > 0 /\ ~Full
  /\ PutSlot("ready", "full")
  /\ count' = count - 1
  /\ UNCHANGED <<state, start, goal, slots, ihw, ihead, issues, hwerr, hwVars,
                 todo, histVars>>

\* drain_out, called by SYNC, close and RESET: it takes slot itail without
\* asking whether it is free.  RESET first forbids issuing and resets the
\* downstream module.
Drain(why) ==
  /\ IF why = "sync" THEN Calls ELSE ProcessRuns /\ pc = "user" /\ late' = late
  /\ IF why = "reset" THEN state = "RW" ELSE state # "CLOSE"
  /\ goal' = why
  /\ spoiled' = (spoiled \/ Full) /\ upset' = (upset \/ Full)
  /\ PutSlot("end", "drain")
  /\ IF why = "reset"
     THEN start' = FALSE /\ dma' = FALSE /\ pend' = 0 /\ fed' = 0
     ELSE UNCHANGED <<start, dma, pend, fed>>
  /\ UNCHANGED <<state, count, slots, ihw, ihead, issues, hwerr, dmaidx, unf,
                 irq, todo>>

DrainWait ==
  /\ ProcessRuns /\ pc = "drain" /\ dma
  /\ Goto("drainsleep")
  /\ UNCHANGED <<state, start, ret, goal, count, ringVars, hwVars, todo, histVars>>

\* After the wait, which a signal may end: SYNC returns, close and RESET clean
\* the buffer.
DrainEnd ==
  /\ ProcessRuns
  /\ (pc = "drain" /\ ~dma) \/ pc = "drainsleep"
  /\ \/ pend' = 0 /\ fed' = 0     \* COMMAND_3 may or may not drop what is left
     \/ UNCHANGED <<pend, fed>>
  /\ IF goal = "sync"
     THEN /\ state' = "OPEN"
          /\ Goto("user") /\ goal' = "close"
          /\ upset' = (upset \/ dma \/ pend > 0 \/ ihead # itail)
          /\ UNCHANGED <<ihw, ihead, itail, spoiled, late>>
     ELSE /\ state' = IF goal = "close" THEN "CLOSE" ELSE state
          /\ Goto("clean") /\ UNCHANGED goal
          /\ ihw' = 0 /\ ihead' = 0 /\ itail' = 0
          /\ upset' = (dma \/ pend' > 0) /\ spoiled' = FALSE /\ late' = 0
  /\ UNCHANGED <<start, ret, count, slots, issues, mde, hwerr,
                 dma, dmaidx, unf, irq, todo>>

(* Mutant of Clean: the count of issued slots is kept. *)
CleanKeepsIssues ==
  /\ ProcessRuns /\ pc = "clean"
  /\ hwerr' = FALSE
  /\ state' = IF goal = "reset" THEN "OPEN" ELSE state
  /\ Goto("user") /\ goal' = "close"
  /\ UNCHANGED <<start, ret, count, slots, ihw, ihead, itail, issues, mde,
                 hwVars, todo, histVars>>

\* The rest of clean_buffer.
Clean ==
  /\ ProcessRuns /\ pc = "clean"
  /\ issues' = 0 /\ hwerr' = FALSE
  /\ state' = IF goal = "reset" THEN "OPEN" ELSE state
  /\ Goto("user") /\ goal' = "close"
  /\ UNCHANGED <<start, ret, count, slots, ihw, ihead, itail, mde,
                 hwVars, todo, histVars>>

----------------------------------------------------------------------------
(* pl_audio_handler *)

\* Compare issues with the status: the slots consumed since the last time.
Consumed ==
  LET one == IF issues = 2 /\ pend < 2 THEN 1 ELSE issues
      two == IF one = 1 /\ pend = 0 THEN 0 ELSE one
  IN  issues - two

Handler ==
  /\ irq /\ todo = 0
  /\ LET n    == Consumed
         next == IF n = 0 THEN ihw
                 ELSE IF n = 1 THEN advance_idx(ihw)
                 ELSE advance_idx(advance_idx(ihw))
         gone == {regular_idx(ihw) : i \in 1 .. n}
                   \cup {regular_idx(advance_idx(ihw)) : i \in 2 .. n}
     IN  /\ issues' = issues - n
         /\ ihw' = next
         /\ mde' = [i \in DOMAIN mde |-> IF i \in gone THEN "free" ELSE mde[i]]
         /\ todo' = n
         /\ spoiled' = (spoiled \/ (pc = "clean" /\ n > 0))
         /\ upset' = (upset \/ (unf /\ dma) \/ (pc = "clean" /\ n > 0))
  /\ late' = late
  /\ hwerr' = (hwerr \/ unf)
  /\ irq' = FALSE /\ unf' = FALSE
  /\ UNCHANGED <<procVars, slots, ihead, itail, dma, dmaidx, pend, fed>>

(* Mutant of Awakened: a sleeping writer is not woken. *)
AwakenedNoWriter == IF pc = "drainsleep" /\ ~dma THEN "drain" ELSE pc

(* Mutant of Awakened: a drain is not woken when the DMA has stopped. *)
AwakenedNoDrain == IF pc = "sleep" THEN "full" ELSE pc

\* Where the process is after wake_up: a writer always wakes, a drain when the
\* DMA has stopped.
Awakened ==
  IF pc = "sleep" THEN "full"
  ELSE IF pc = "drainsleep" /\ ~dma THEN "drain"
  ELSE pc

\* One turn of the loop: issue_out (whose DMA test wakes a drain) and
\* wake_up of a sleeping writer.
HandlerIssue ==
  /\ todo > 0
  /\ hwerr' = (hwerr /\ dma)
  /\ Issue(hwerr /\ dma)
  /\ Goto(Awakened)
  /\ todo' = todo - 1
  /\ UNCHANGED <<state, start, ret, goal, count, slots, ihw, itail, mde, fed,
                 unf, irq, histVars>>

----------------------------------------------------------------------------
(* The DMA engine and the audio module (hardware) *)

\* The chain of entries (nxt) is closed at the last slot; behind it an earlier
\* ring has left its own.
NextEntry(i) ==
  IF i + 1 < slots THEN {i + 1}
  ELSE IF i + 1 = slots \/ i + 1 = 2 * MaxSlots THEN {0}
  ELSE {0, i + 1}

\* The engine delivers the next entry to a packet that waits for data; it
\* stops after an entry marked as the last one.
HwFetch ==
  /\ dma /\ fed < pend /\ mde[dmaidx] # "free"
  /\ fed' = fed + 1
  /\ dmaidx' \in NextEntry(dmaidx)
  /\ dma' = (mde[dmaidx] = "ready")
  /\ UNCHANGED <<procVars, ringVars, pend, unf, irq, todo, histVars>>

\* The engine stops at an entry that is not valid, and after an underflow.
HwStop ==
  /\ dma /\ (mde[dmaidx] = "free" \/ hwerr)
  /\ dma' = FALSE
  /\ UNCHANGED <<procVars, ringVars, dmaidx, pend, fed, unf, irq, todo, histVars>>

\* The audio module has played a packet; it may run dry with the last one.
HwPlay ==
  /\ fed > 0
  /\ fed' = fed - 1 /\ pend' = pend - 1
  /\ irq' = TRUE
  /\ \/ UNCHANGED unf
     \/ pend = 1 /\ unf' = TRUE
  /\ UNCHANGED <<procVars, ringVars, dma, dmaidx, todo, histVars>>

----------------------------------------------------------------------------

ProcessStep ==
  \/ IssueTest \/ IssueDisable \/ IssueSlot
  \/ WriteDone \/ WriteSlot \/ WriteFull("sleep")
  \/ DrainWait \/ DrainEnd \/ Clean

UserStep ==
  \/ Open \/ SetTrigger \/ Post \/ WriteSignal \/ WriteFull("user")
  \/ \E n \in SlotChoices : SetFragment(n)
  \/ \E n \in 1 .. MaxWrite : Write(n)
  \/ \E why \in {"sync", "close", "reset"} : Drain(why)

HwStep == HwFetch \/ HwStop \/ HwPlay

Next == ProcessStep \/ UserStep \/ Handler \/ HandlerIssue \/ HwStep

Spec == Init /\ [][Next]_vars

\* A system call runs on, interrupts are taken, the engine and the audio
\* module keep going; nothing is assumed of the application.
Fairness ==
  /\ WF_vars(ProcessStep /\ pc # "drainsleep")
  /\ WF_vars(Handler) /\ WF_vars(HandlerIssue)
  /\ WF_vars(HwFetch) /\ WF_vars(HwStop) /\ WF_vars(HwPlay)

FairSpec == Spec /\ Fairness

----------------------------------------------------------------------------
(* Properties *)

FlagsOK ==
  /\ start \in BOOLEAN /\ hwerr \in BOOLEAN /\ dma \in BOOLEAN
  /\ unf \in BOOLEAN /\ irq \in BOOLEAN
  /\ upset \in BOOLEAN /\ spoiled \in BOOLEAN

DataOK ==
  /\ state \in {"CLOSE", "OPEN", "RW"}
  /\ slots \in SlotChoices
  /\ ihw \in 0 .. 2 * MaxSlots - 1
  /\ ihead \in 0 .. 2 * MaxSlots - 1
  /\ itail \in 0 .. 2 * MaxSlots - 1
  /\ issues \in 0 .. 2
  /\ mde \in [Entries -> {"free", "ready", "end"}]
  /\ pc \in {"user", "test", "disable", "issue", "full", "sleep", "drain",
             "drainsleep", "clean"}
  /\ ret \in {"user", "full", "drain"}
  /\ goal \in {"sync", "close", "reset"}
  /\ count \in 0 .. MaxWrite
  /\ dmaidx \in Entries
  /\ pend \in 0 .. 2 /\ fed \in 0 .. 2
  /\ todo \in 0 .. 2 /\ late \in 0 .. MaxLate

TypeOK == FlagsOK /\ DataOK

\* The drawing above issue_out: going round the ring one meets ihw, ihead and
\* itail in this order, never more than one round apart, all of them in the
\* ring.
InOrder ==
  /\ ihw < 2 * slots /\ ihead < 2 * slots /\ itail < 2 * slots
  /\ Dist(ihw, itail) <= slots
  /\ Dist(ihw, ihead) <= Dist(ihw, itail)

\* The drawing is true from one close or RESET to the next, unless a drain has
\* found the ring full, a slot was retired inside clean_buffer or the ring was
\* resized in use; and the close or RESET that follows mends it.
RingOrder == spoiled \/ InOrder

\* issues counts the slots between ihw and ihead, whoever issued them and
\* however many the handler retires at once, unless one of the same three
\* events has come since the last close or RESET.
IssuesCounted == spoiled \/ pc = "clean" \/ issues = Dist(ihw, ihead)

\* GETOSPACE tells the number of slots that a write can fill without waiting,
\* unless one of the same three events has come since the last close or RESET.
OspaceIsFree == spoiled \/ Ospace = slots - Dist(ihw, itail)

\* "ihw: index to hardware current function slots": counted from ihw, the
\* entry the DMA fetches next is the first one that has been issued and not
\* delivered.
HwInStep ==
  dma => dmaidx = (ihw + (issues - pend) + fed) % slots

\* HwInStep unless one of the six events has come since the last close or RESET
\* that found the hardware at rest: such a close or RESET puts the engine in
\* step again.
InStepUnlessUpset == upset \/ HwInStep

\* "it should be checked again before issuing": a channel that issue_out
\* disables because it had stopped is still stopped.
DisableStopped == pc = "disable" => ~dma

\* The statements without their excuses; the code keeps none of them.
IssuesAlways == pc # "clean" => issues = Dist(ihw, ihead)
OspaceAlways == pc # "clean" => Ospace = slots - Dist(ihw, itail)

\* A writer that sleeps because the ring is full goes on, and so does a drain
\* unless playback is paused, whatever the interrupt has hit, or one of the six
\* events has come.
WriterProceeds == (pc = "sleep") ~> (pc # "sleep" \/ upset)
DrainReturns   == (pc = "drainsleep" /\ start) ~> (pc # "drainsleep" \/ upset)
=============================================================================
