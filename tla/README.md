# A verification project for the camera firmware

The repository is the firmware of the Linksys/Cisco PVC2300 and WVC2300 network
cameras (SerComm, on a Prolific PL1029): a boot loader, a Linux 2.4.19 kernel with
board drivers, kernel modules, a root file system, and the applications under
`src/source/source/src/sysapps/apps`. Much of it is third-party software, and most
of SerComm's own programs are there as object code only. What has source and logic
of its own is modelled here in TLA+, checked with TLC and, where it matters most,
proved with TLAPS.

Paths of applications are relative to `src/source/source/src/sysapps/apps/`, those
of drivers to `src/source/source/src/kernel/linux-2.4.19/drivers/`.

## Inventory

| part | state | operations | interacts through | hard behaviour |
|---|---|---|---|---|
| DHCP client `dhcpcd-1.3.22-pl1` (client.c, signals.c, dhcpcd.c) | `currState`, `DhcpOptions`, `DhcpIface`, the alarm clock, `env`, pid file, cache, resolv.conf, interface | the state functions `dhcpReboot` ... `dhcpStop`, `dhcpSendAndRecv`, `dhcpConfig`, `sigHandler` | servers (messages), signals of other dhcpcd calls, the wall clock others set | signal handlers that jump, timeouts against late answers, options that outlive their message, restarts |
| AutoIP (`AutoIP/autoip.c`) | chosen address, collision flag, two threads | probe, defend, poll | ARP, shared flags | not built |
| crond (`cron/cron.c`) | task list, `file_mtime`, next awakening, `summer_chg` | awake, change the clock, load, run, sleep | the clock, the crontab, the configuration entry `summer_chg` | a clock that it moves under its own feet, files written at the same time, restarts |
| summer time rules (`daylight_saving` in cron.c and fntp.c) | none | one function | called by crond and ntpdate | calendar arithmetic |
| ntpdate (`NTP/fntp.c`, `NTP/ntpdate.c`) | t1..t4, tries, next call | query, response, adjust | an NTP server, the clock | a clock others move during the exchange, timeouts and retries |
| recorder smbc_rec (`cgi2/app/smbc_rec`) | a buffer, the state machine of the ASF parser, offsets and counts, `gStopNow` | read, follow packets, write, patch the header, rename | a socket of the camera, a Samba share, SIGHUP | reads of any length across packets, the end of a file inside a packet, calls that fail, a stop at any point |
| Jabber logger (`cgi2/app/jabberlog`) | lock file, session (flags, counter, time of select), the tunnel process | lock, start the tunnel, log in, send, keep alive, end, try again | a Jabber server through stunnel, the system log, other loggers | start and kill at any time, descriptors inherited, codes of two layers, a server that falls silent or hangs up |
| AC'97 playback (`sound/pl1061/pl_ac97.c`) | a ring with three doubled indices, the descriptors of the DMA engine, `issues` | write, drain, clean, ioctls, interrupt handler, issue_out from either | process, handler and two engines of the hardware | handler between any two steps, full against empty, underflow, wake-ups |
| I2C (`i2c/i2c-adap-61.c`, `i2c-algo-61.c`, `i2c-core.c`) | `irq_done`, status, a timer, the count of bytes | send, receive, combined transfers, interrupt and timer handler | a slave that may refuse or be silent | timeout against late interrupt, retries, refusals in the middle |
| NOR flash (`mtd/pl_nor.c`) | `ctl_sem`, `intr_status`, the cursor of each call, the sector map | read, write, erase, interrupt | processes that share a controller | unaligned buffers, pieces and sectors, one piece of several failing, an interrupt before the sleep |
| cron-parent, ntp_setcron, smbc_put | small | see `PROJECT.json` | crontab, Samba | not modelled |
| keypad, UART, RTC, PL1029 support | registers | interrupt handlers, file operations | hardware | not modelled |
| web server, CGI, configuration and schedule libraries | - | - | - | object code only |

What makes each part correct: the DHCP client must neither use an address past its
lease nor drop it before, must always have a way out of a wait, and must leave the
files in order; crond and ntpdate must keep the clock at the legal time, and crond
must run each minute of the clock once; `daylight_saving` must agree with the
calendar; a recording that has its name must hold what its header declares; one
logger at a time has a session, which stays alive and whose end is noticed; the audio
ring keeps its order and loses no wake-up; an I2C command returns with its own answer
and a transfer gives the bus up; a flash call that says OK has done all of it and
nothing else. `PROJECT.json` lists each part with its status and, under "hazards", the
places in the code where these can go wrong.

## Modules

    DhcpOptions --- DhcpClient --- MCDhcpClient       Daylight --- DaylightProofs
                        |  \
         LeaseContract -+   DhcpClientProofs

    SystemClock --- Crond ---+
               \             +--- TimeKeeping --- MCTimeKeeping, TimeKeepingProofs
                --- Ntpdate -+

    SmbcRec --- SmbcRecProofs         I2c61 ----- MCI2c61, I2c61Proofs
    JabberLog --- JabberLogProofs     NorFlash -- MCNorFlash, NorFlashProofs
    Ac97Out --- Ac97OutProofs

* **DhcpOptions**: `DhcpOptions` and `parseDhcpMsgRecv`, reduced to the options that
  steer the client (type, server identifier, lease, T1, T2), and the deadline
  subtraction with the width of an `int` as a constant (`Half` = 2^31).
* **DhcpClient**: the client on one interface. `currState` and `at` say which state
  function main is in and where it blocks; each state function, each message, each
  call that fails and each signal is an action. `timer` is the kernel's alarm,
  `env` the function whose `sigsetjmp` was last, `age` the real time since
  `ReqSentTime` and `skew` how far the wall clock was moved since. Time passes only
  while the process blocks, and not past a pending alarm. A jump into a function
  that has returned is undefined: it takes that function's timeout branch or ends in
  SIGSEGV, which `sigHandler` also catches.
* **LeaseContract**: what the holder of a lease may do: acquire, renew, let a second
  of it pass, drop it. Time stops at the end of the term.
* **Daylight**: `daylight_saving` for all regions, formula by formula, over a
  calendar that walks through the years.
* **SystemClock**: local standard time `now`, the clock `wall` and the flag
  `summer_chg`; summer time as an interval of the clock.
* **Crond**: the loop of crond in three steps (read the time and the flag; move the
  clock; load, run, go to sleep), its start, and other programs' edits of the
  crontab. A crontab is a version number.
* **Ntpdate**: query, response or none, adjustment, three tries, once a day
  (`_ONEDAY_`, which ntp.h defines). `asked` and `air` are the queries and answers on
  their way: they take any time, are lost or come twice, and an answer may come when a
  later try is waiting, as long as the call has its socket open.
* **TimeKeeping**: the last three on one clock. `sent` and `moved` record when the query
  was sent and how far crond has moved the clock since the call began.
* **SmbcRec**: one recorder. Bytes are counted and not kept: `buf_size`, `done_size`,
  `max_size` and the offsets are the code's, the stream is a sequence of sizes.
  `written`, `ends`, `garbled`, `fault`, `short` and `patched` record what has really
  happened.
* **JabberLog**: several loggers that are started and killed at any time. `pc` is where
  each is in `main`, `j_main` and `j_connect`; `tunnel` and `heir` are the stunnel that
  `system()` has left behind and the lock file it may have inherited; `sess` is
  `struct session` with what the server still owes. The codes of the library and of
  jabber_main.c keep their numbers, because they are mixed up in the code. The server
  may send what nobody has asked for, and may end the stream without closing the
  connection; `ended` records that it has.
* **Ac97Out**: playback. The process, the interrupt handler, the DMA engine and the
  audio module take turns as a uniprocessor lets them. Six events the code is not
  protected against are steps like any other; `spoiled` and `upset` record those that
  disturb the indices and the engine, until a close or RESET mends it.
* **I2c61**: a transfer as a sequence of commands, each in four steps (write, wait,
  read the status, clear), with the interrupt and timer handlers between them. `vown`,
  `sown` and `late` record whose answer it was.
* **NorFlash**: reads, writes and erasures by several processes. `req` is what was
  asked, `addr`, `left`, `retlen` and `cnt` are the locals of the call, `ctl` is the
  controller at work. A command may fail after any number of cells in `Torn`.
* **MC** modules: messages, clock errors, transfers, sectors and requests for TLC.
* **Proofs** modules: the theorems.

`map` in `PROJECT.json` gives the lines behind each definition. Definitions whose
comment begins with "Mutant of" are wrong on purpose: they are the bugs each
property has been seen to catch.

## Runs

That pass:

| run | shows | instance |
|---|---|---|
| dhcp_lease | `LeaseHonoured`, `OptionsPresent`, `NoEarlyExpiry` (but for a lease of which 2^31 seconds or more are left), and that the client implements `LeaseContract`, with outside signals, failing network calls and starts, NAKs, BOOTP replies and a clock set back and forth | 7-bit ints, leases of 4 and 8, so that T1, T2 and expiry all happen and ages up to 9 suffice, and one of 66 with T2 = 3, what is left of which does or does not fit an int as the clock was set |
| dhcp_files | `ConfiguredIsLeased`: what is renewed is what the interface holds, and the cache unless its last write failed; `LeaseExpires`: a lease nobody acknowledges again ends | two servers, one of them with an infinite lease, `dhcpInform`, network calls, `dhcpConfig`, its files and `fork` that fail; a lease of 4 |
| daylight_rules | `daylight_saving` is the calendar's summer time in North America (from 2007) and Europe | every hour of every day, 2000 to 2037, the years SETRTCTIME accepts |
| cron_dst | `ClockLegal`, `NeverRerun`, `MinuteHandled`: over a summer, crond moves the clock once each way, looks at no minute twice and loses none but the one the clock is set ahead into | a minute of 2 ticks, an hour of 4 minutes, a summer of 3 hours of the clock; crond up to a tick late, edits of the crontab at any time |
| ntp_sync | `NtpSetsTime`: either adjustment leaves the server's time, up to the time since the query and what crond has moved the clock | clocks wrong by less and by more than the limit of the fine adjustment, either way, on which summer begins or ends during a call; answers late, lost, repeated or of an earlier try; crond started again at any time |
| smbc_rec | `ReadFits`, `InStep`, `ErrorHasCause`, `NamedIsSeekable`, and that SIGHUP ends the recorder (`StopsOnHup`) | a buffer of 6, packets of 2 to 9 bytes, with and without audio, a file of 14: packets straddle buffer and end of file; every read and every write may be short, and the header may stay unpatched |
| jabber_log | `OneSession`, `LockFollowsProcess`, `RosterFirst`, `KeptAlive`, that a login that lasts for ever is one whose counter stanzas go on winding up (`LoginEnds`), and that a dead connection is left (`DisconnectNoticed`) | two loggers, two attempts at the lock, two ticks of login timeout and keep-alive |
| audio_ring | `RingOrder`, `IssuesCounted`, `OspaceIsFree`, `InStepUnlessUpset`, each until an event the driver does not protect itself against and from the next close or RESET on, and that a sleeping writer goes on (`WriterProceeds`) and a drain returns (`DrainReturns`) | 4 and 5 slots, the least the driver accepts, so that the doubled indices wrap and the ring is resized in use; interrupts in every window, full drains |
| i2c_xfer | `AnswerIsOwnUnlessLate`, `WaiterHasTimer`, `BusReleased`, `CountIsTrue`, `TransferEnds` | probes, sends, receives and a combined transfer, 3 retries as in the adapter |
| nor_flash | `OneCommand`, `CompleteOrError`, `StaysInside`, `CallReturns` | two processes, two sectors of 2 and one of 4 cells; a piece is at most 4 cells, a word 2, alignment 4: calls take a head and two pieces, or several sectors; commands that fail after 0 or 1 cells |

The type invariants and the inductive ones that are proved below hold in these
instances too and are not repeated in the cfgs, but for TimeKeeping's `TypeOK`, which is
a property of cron_dst.

daylight_rules also judges `AustraliaRule`: Australia, Tasmania and New Zealand, whose
summers span the new year, within two days of the Sundays of the calendar.

That end in a violation, each with a finding in `PROJECT.json`:

| run | what the code does |
|---|---|
| dhcp_release_race | an alarm in the SIGHUP handler's sleep revives a client that has released its address |
| nor_unaligned | the head of an unaligned buffer reaches to an address that is not aligned either, and DMA starts there |

Further statements of documents, comments and code that the program does not keep are
defined in the modules and not part of a run. Each is violated when it is put into the
cfg named, with the changes of constants named:

| definition | cfg | what the code does |
|---|---|---|
| `AlarmBelongsToState` | DhcpLease | an alarm is taken for that of the next state and jumps into a function that has returned (signals.c:102-110: "this timeout is T1" and so on) |
| `ForcedToRenew` | DhcpLease | `dhcpcd -n` during a rebind drops the lease (dhcpcd.8: "forces dhcpcd to try to renew") |
| `TimesOutWithOne` | DhcpLease | the exit status of the timeout is 14 (dhcpcd.8: 1) |
| `LeaseHonoured` | DhcpLease, Msgs <- ShrinkingMsgs, MaxAge = 20 | T1 and T2 of a longer lease outlive it, and the address outlives the shorter one |
| `NoLeaseCutShort` | DhcpLease | a lease of 2^31 seconds or more that is still in force at T2 is given up at once (client.c:1963) |
| `CachedIsLeased` | DhcpFiles | a cache that cannot be written is only logged (client.c:1153-1157), and the next start asks for the address of an older lease, or for none |
| `RestoredOnExit` | DhcpFiles, Faults = {} | an infinite lease leaves dhcpcd's resolv.conf behind (dhcpcd.8: "restored back when dhcpcd exits for any reason") |
| `RequestNamesOfferer` | DhcpFiles | a late OFFER changes the server the next REQUEST names |
| `PidFileTruthful` | DhcpFiles | a daemon that gets an infinite lease, or whose fork failed, leaves a pid file, and the next dhcpcd does not start |
| `SouthernSummer` | DaylightRules, Zones = {"SA", "CHILE"} | Chile and Brazil never have summer time |
| `ModificationDetected` | CronDst | a crontab written twice in a second is not loaded (cron/README: "automatically detects modifications") |
| `ClockLegal` | CronDst, Late = 0, Events = {"restart"} | a crond that starts after the change marks it as made |
| `CrondMovesToLegal` | NtpSync | ntpdate and crond both add the hour (cron.c:1045: "summer_chg = 1") |
| `OffsetIsLocal` | NtpSync | crond moves the clock between the response and the adjustment, which adds the offset to the moved clock (fntp.c:672: "local offset") |
| `SyncKeepsLegal` | NtpSync, Horizon = 9, CheckTime = 30, Errors = {0} | a synchronisation in the hour after the autumn change sets a right clock an hour ahead |
| `DisableStopped`, `HwInStep` | AudioRing | issue_out switches off a channel that the handler has just started (pl_ac97.c:406: "it should be checked again before issuing"), and ihw and the engine part |
| `InOrder`, `IssuesAlways`, `OspaceAlways` | AudioRing | drain_out fills a slot of a full ring, an interrupt in clean_buffer retires slots of indices half reset, and indices lie beyond a ring that was made smaller |
| `AckIsOwn` | I2cXfer | an interrupt after the timeout is taken for the answer to the next command (i2c-algo-61.c:80-83: "until we get an interrupt ... telling us that the transaction we requested in complete") |
| `BytesTransmitted` | I2cXfer | one byte of several is reported as all of them (i2c-core.c:718-720: "if everything went ok (i.e. 1 msg transmitted), return #bytes transmitted") |
| `PacketsCounted` | SmbcRec | the header declares a packet more than its length holds |
| `NamedIsWhole` | SmbcRec | SIGHUP ends a recording after a short write, and the header declares bytes that are still in the buffer |
| `NamedIsPatched` | SmbcRec | no result in make_it_seekable is looked at (smbc_rec.c:344-348): a file whose header was not patched gets its name |
| `LoginIsReal` | JabberLog | the end of the stream during a login has the number of its success, and "Login successfully" is logged; when the server leaves the connection open, it is served |
| `LoginTimesOut` | JabberLog | a server that sends a stanza every few seconds holds a login for ever: on_stream sets the counter again on each (jabber_main.c:91) |
| `EndIsLogged` | JabberLog | a session that ends in a failed send leaves no log entry |
| `NoBrokenPipe` | JabberLog | a second write to a closed connection raises SIGPIPE and ends the logger |
| `DoneIsErased` | NorFlash | an erasure the controller calls failed is reported as MTD_ERASE_DONE |
| `CompleteOrError` | NorFlash, Requests <- OddHead, or Faults = {"pio"} | the last bytes of a head are counted and not written; the result of pio_write is not asked |
| `CompleteOrError` | NorFlash, Requests <- Wraps | the end of an erasure wraps past its test (pl_nor.c:818), its length is negative as an int (:827), and MTD_ERASE_DONE is returned with nothing erased |
| `StaysInside` | NorFlash, Requests <- LongHead, or Requests <- PartSector | a head longer than the request makes the length wrap and the write go on; an erasure that ends within a sector takes all of it |

Bounds. `MaxAge` saturates the age of a lease: beyond the longest lease and the
skew no guard tells ages apart. `MaxSkew` bounds how far the clock is moved between
two ACKs; a client that can be put off without limit can be made to keep an address
without limit, which dhcpcd.8 owns up to under BUGS. `Horizon` ends the time of
TimeKeeping some hours after the end of summer; `CheckTime` is a day, longer than
the horizon, except in ntp_sync, where it is cut to meet several synchronisations. `Wait`
and `Retry` of a tick let an answer come during the next try.
`Late` is less than a minute: a loop that takes longer than its minute fails by its
own comment (cron.c:1058). With "restart" `Late` is set to 0, so that the violation is not
one of lateness. The years of `Daylight` before the formulas' base years are not
judged: North America changed its rule in 2007, and the European formula counts from
2002.

The audio ring has the least number of slots, and one more to be resized to: a larger one
has more positions and no other order of events, and the proofs are for every number.
`MaxLate` = 0 lets an application whose playback is out of step only go on with the call
it is in, close or RESET. A write fills one slot at
a time in the run (`MaxWrite` = 1); a longer one is a sequence of such. Sizes of the
recorder keep the proportions of the code: a packet header is smaller than the buffer,
a packet may be larger. `Timeout` and `KeepAlive` of 2 let a counter be reset midway.
The flash has room for requests of three pieces or two sectors; `Width` is more than
twice the flash, as 2^32 is.

Fairness. dhcp_files: weak fairness of the process's own steps, of the alarm, of the
end of the SIGHUP handler and of time; nothing is assumed of servers or of whoever
sends signals. audio_ring: a system call runs on, a pending interrupt is taken, the
handler ends, the DMA engine fetches and the audio module plays while they are
enabled; a process in a drain is woken by the handler, never by fairness. i2c_xfer: the
process runs, a pending interrupt is taken and a timer expires; the slave may stay
silent for ever. smbc_rec: the recorder runs and its calls return. jabber_log: each
process runs; nothing is assumed of the server, which may also go on sending for ever. nor_flash: a process with the
semaphore runs, and the controller ends a command it has begun. In each case this is
what the scheduler, the timers and the devices do.

Deadlock is checked in every run but audio_ring: there SYNC and close wait for ever
when playback was paused with SETTRIGGER or POST, which is listed as a hazard.

## Proofs

`DhcpClientProofs` holds, for every value of the constants:

* `TypeCorrect`: `Spec => []TypeOK`. The Boolean variables and the others are two
  lemmas (`FlagsNext`, `DataNext`), as no one backend does both well.
* `LeaseInvariant`: `Spec => []LeaseInv`. `LeaseHonoured` alone is not inductive: a
  step of `Tick` only keeps `age` within the lease because an alarm is pending that
  reaches no further (`AlarmCovers`); a state function only arms such an alarm
  because T1 and T2 do not exceed the lease in the store (`StoreOrdered`), which
  messages that carry all three or none preserve (`ParseOrdered`, although the
  parser mixes old and new options) and because the signed subtraction stays within
  the time it is given (`RemainingBound`); and the states of a held lease are only
  entered with an ACK in the store (`AckInStore`), and wait only where `HoldsWhere`
  says.
* `LeaseIsHonoured`: `LeaseHonoured`, `DeadlineArmed` and `OptionsPresent` from it.
* `OptionsAlwaysPresent`: `OptionsPresent` alone needs none of the assumptions below.
  The parser leaves no gap in the store, and a client on the way to a lease does not
  clear it (`PresentInv`).
* `LeasedIsConfigured`: `ConfiguredIsLeased`, for `"HUP" \notin Kills`; with SIGHUP it is
  false (dhcp_release_race). Interface and cache, unless its write fails, have the
  address before the lease is held, from the restart of the interface on (`AddrInv`).
* `NeverExpiresEarly`: `NoEarlyExpiry`, without further assumption. A lease of which 2^31
  seconds or more are left has a negative remainder as an `int` and ends at once: the
  property excepts it. `JumpInv` says that main is about to call `dhcpRebind` only with the
  `env` of `dhcpRenew`: a signal cannot jump past its deadline.
* `ImplementsContract`: the refinement, with `LeaseInv` as its invariant: each step
  of the client is a step of `LeaseContract` or leaves its variables alone.

Assumptions: those on the constants, named in the modules; for the lease theorems
`CompleteMsgs` (a message names lease, T1 and T2 with T1 and T2 within the lease, or
none of them), without which the theorem is false (the messages `ShrinkingMsgs`), and
`MaxAge + MaxSkew <= Half`, without which the subtraction wraps; for the refinement
also `LeaseFromGrants`.

`Ac97OutProofs`, for every number of slots and without further assumption: `TypeCorrect`,
`RingIsOrdered`, `IssuesAreCounted`, `OspaceIsTrue`, from the invariant `RingInv`. Until an
event that spoils the indices, `Ordered` holds: `RingOrder` needs `IssuesCounted` (the
handler retires no more than was issued), and inside clean_buffer, where the indices are
zero and `issues` is not yet, the handler has retired nothing. A close or RESET makes it
true again whatever was before. The arithmetic of the doubled indices is in lemmas of its
own (`DistGrows`, `DistShrinks`, `FullIsFull`). `EngineInStep` (`InStepUnlessUpset`) needs
`StepInv` besides, which holds until an upset: a stopped engine has delivered all that was
enabled, and what was played and not retired is announced by an interrupt (`Flow`); RESET
and clean_buffer find the hardware at rest (`Rests`); the engine is at the entry the
indices say (`AtEntry`); and the entries from ihw to itail are valid, with an end mark only
on the last one of a drain (`Filled`), which is why the engine stops nowhere else.

`I2c61Proofs`, for all transfers and any number of retries: `TypeCorrect`,
`AlwaysTimed`, `OwnAnswers`, `BusIsReleased`, from `XferInv`: how far `irq_done` and the
retries can be (`CountsOK`), which command was the last (`CommandsOK`), and that until a
timeout a command has one answer, which is with the controller, pending or counted
(`AnswersOK`). `CountsAreTrue` (`CountIsTrue`) rests on `BytesOK`: until a timeout the
bytes counted so far are those acknowledged and those sent and refused, one that the
process has not looked at aside (`Uncounted`).

`SmbcRecProofs`, for all sizes and for reads and writes of any length: `TypeCorrect`,
`ReadsFit`, `StaysInStep`, `NamedHolds` (`NamedIsSeekable`) and `ErrorsHaveCause`
(`ErrorHasCause`). What is left in the buffer before a read (`LeftOver`) and where
the last packet begins (`LastPacket`) is what makes the last two inductive.

`JabberLogProofs`, for any number of loggers and any times: `TypeCorrect`,
`AtMostOneSession`, `LockIsReturned`, `LoginsAreWhole`, `StaysAlive`, from `JabberInv`: the
tunnel never inherits the lock file (`LockInv`, which is why FD_CLOEXEC has to be set
before the tunnel is started), `idle` and the time select has left make no more than
the keep-alive time (`TimeInv`), and what only an authorised client asks was asked by
one (`LoginInv`). `LoginsAreWhole` (`RosterFirst`) excepts streams that the server has
ended, for which it is false.

`NorFlashProofs`, for any number of processes, any sectors and any requests that fit
(`AllFit`: heads no longer than the request, erasures of whole sectors whose end does
not wrap; the requests of the run are such): `TypeCorrect`, `AloneAtController`, `NothingElseChanges` (an action property) from
`NorInv`, which says where the cursor of each call is (`MoveInv`, `EraseInv`) and that no
answer is left over when a command is given (`Quiet`); and `OkIsComplete` from
`DoneInv`, which says how much has been done, counting a command that was answered
before the process has looked. It assumes `WholeHeads` too: heads of whole words that
the part does not refuse, without which `CompleteOrError` is false.

`TimeKeepingProofs`, for every length of minute, hour and summer and every delay of
crond below a minute:

* `TypeCorrect`, without further assumption.
* `NoMinuteTwice` (`NeverRerun`), while no synchronisation moves the clock and a clock
  that is wrong is ahead; crond may be started again at any time. `RerunInv` says that
  the sleep ends past the last minute looked at (`SleepsPast`), and that `summer_chg` is
  only set on a clock past the start of summer.
* `ClockIsLegal` (`ClockLegal`), `NoMinuteLost` (`MinuteHandled`) and `CrondMovesRight`
  (`CrondMovesToLegal`), while nothing but crond moves a clock that is right and nobody
  starts crond again: `ClockLegal` is false with "restart" and `CrondMovesToLegal` with
  "ntp" (see the table under Runs). `LegalInv` says how `wall`, `summer_chg`, `wake` and `t` go together:
  the clock is ahead by the hour that `summer_chg` says; while it is set the next turn
  of the loop still lies in summer, while it is not set it lies before summer or behind
  the hour that is repeated (`Season`), which the test in crond alone cannot tell; in
  the rest of a turn the clock was left alone or has just been moved (`Kept`, `Moved`).
* `NtpSetsTheTime` (`NtpSetsTime`), without further assumption. `AnswersTrue` follows how far
  the clock is ahead of the server: only crond changes that, by what is added to `moved`.
  So a timestamp on a query or an answer is within `moved` of the time it was made, and an
  answer that carries the timestamp of this try's query, were it to an earlier one, is
  older than the query by no more than the clock was moved before (`Shift`).

`DaylightProofs`: `AmericaHolds`, `EuropeHolds`, `AustraliaHolds`, for any zones and years
of the clock. The weekday of a date and the days of a change are compared as linear
arithmetic (`AmericaFormula`, `EuropeFormula`, `AustraliaFormula`, and what they need of the
calendar: `LastOfMarch` and its like); these hold for every year to 2099, where the leap
years are every fourth one, and so past the years the clock can show.

With these every invariant and every action property that a run expects to hold is a
theorem, of the same definition and under assumptions the run's constants satisfy. Only
model-checked is liveness (`LeaseExpires`, `WriterProceeds`, `DrainReturns`,
`TransferEnds`, `StopsOnHup`, `LoginEnds`, `DisconnectNoticed`, `CallReturns`), which
fairness puts out of the prover's reach.

## Not modelled

Packet layouts, ARP, routes, host names and scripts of dhcpcd; more than one dhcpcd
at a time; a configuration store whose entries cannot be read (crond then takes
`summer_chg` for 0); the parser of crontab lines and the running of a job; an NTP
server that takes its time between t2 and t3, or whose time is wrong; dates outside 2000
to 2037; time zones. Europe's change is checked as the code
makes it, at 1:00 on the clock of each zone, where the law says 1:00 UTC. Audio capture, the mixer and formats; registration of I2C adapters and clients, SMBus
emulation and /proc; file names and timestamps of recordings, and two recorders at a
time; XML, TLS and the arithmetic of SASL, and log texts (an authentication that fails
is logged as a connection that failed, jabber_main.c:365); partitions and the
recognition of flash parts. Parts that are not modelled at all, with the reasons, are
under "components" in `PROJECT.json`.

Of the repository's four million lines nearly all are third-party software as its
authors publish it: the Linux kernel, BusyBox, OpenSSL, Samba, lighttpd, stunnel,
wpa_supplicant, iptables and wireless drivers. They are not what this firmware adds and
each has its own tests. SerComm's and Prolific's own sources are some thirty files; the
parts of them with state of their own are in the modules above, which stand for about
a third of the lines of the files they name. The rest of those files is the parsing of
command lines and configuration, packet and register layout, /proc and log output.

## Plan

1. DHCP client with its contract, checked and proved: done.
2. Summer time, crond, ntpdate on one clock, checked and proved: done.
3. `SmbcRec`, `JabberLog`, `Ac97Out`, `I2c61`, `NorFlash`, checked and proved: done.
4. Two dhcpcd processes and the pid file; a server with its own clock, so that both
   ends of a lease can be compared; AutoIP.
5. The crontab: writers, the parser and the one-second window together; ntp_setcron,
   which edits the table from one of its own jobs; cron-parent.
6. Audio capture, which shares the handler with playback; two recorders on a share.
