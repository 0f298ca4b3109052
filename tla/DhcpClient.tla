----------------------------- MODULE DhcpClient -----------------------------
(***************************************************************************)
(* The DHCP client daemon dhcpcd (client.c, signals.c, dhcpcd.c) on one    *)
(* interface: the state functions main calls through the pointer           *)
(* currState, the alarm clock and the jump buffer they share with the      *)
(* signal handler, and the files and the interface they leave behind.      *)
(*                                                                         *)
(* The build is the one the Makefile makes: GOT_FORK, without AutoIP and   *)
(* without ARPCHECK.  A state function runs from its call to the next      *)
(* point where it blocks in one step; it blocks in dhcpSendAndRecv, in the *)
(* two programs dhcpConfig runs, in the sleep of dhcpBound, and in the     *)
(* sleep of the SIGHUP handler.  Time passes only while the process        *)
(* blocks, and never past a pending alarm.                                 *)
(***************************************************************************)
EXTENDS DhcpOptions

CONSTANTS
    Addrs,          \* addresses a server may hand out, not 0
    Servers,        \* server identifiers
    Msgs,           \* messages the servers may send
    Modes,          \* the state functions dhcpcd is started in
    Kills,          \* signals sent from outside: "HUP" (-k), "ALRM" (-n), "TERM"
    Faults,         \* what may fail: "net", "config", "files", "fork", "start"
    ClockSteps,     \* by how much settimeofday may move the wall clock
    TimeOut,        \* the -t argument
    MaxAge,         \* bound: time since the last ACK is counted this far
    MaxSkew         \* bound: the wall clock moves this far from real time

NoAddr == 0
Off == -1
Running == -1

SIGHUP  == 1
SIGSEGV == 11
SIGALRM == 14
SIGTERM == 15

StateFns == {"dhcpReboot", "dhcpInform", "dhcpInit", "dhcpBound", "dhcpRenew",
             "dhcpRebind", "dhcpStop", "dhcpStart", "NULL"}

(* In these the client uses an address a server acknowledged. *)
Leased == {"dhcpBound", "dhcpRenew", "dhcpRebind"}

(* In these sigHandler leaves SIGALRM with siglongjmp(env). *)
JumpStates == Leased \cup {"dhcpReboot"}

ASSUME ClientAssumption ==
    /\ NoAddr \notin Addrs /\ Absent \notin Servers
    /\ Msgs \subseteq Message(Addrs \cup {NoAddr}, Servers)
    /\ Modes \subseteq {"dhcpReboot", "dhcpInform"}
    /\ Kills \subseteq {"HUP", "ALRM", "TERM"}
    /\ Faults \subseteq {"net", "config", "files", "fork", "start"}
    /\ ClockSteps \subseteq Int
    /\ TimeOut \in Nat \ {0} /\ MaxAge \in Nat /\ MaxSkew \in Nat

VARIABLES
    currState,      \* the state function main calls next, or is inside of
    at,             \* where the process is: see Where
    opts,           \* DhcpOptions
    ciaddr,         \* DhcpIface.ciaddr, the address the client works with
    ifaddr,         \* the address of the network interface
    cache,          \* the ciaddr in the cache file; Absent when none can be read
    uncached,       \* history: the last dhcpConfig could not write the cache
    resolv,         \* /etc/resolv.conf: whose nameservers it names, or "none"
    saved,          \* /etc/resolv.conf.sv
    renamed,        \* resolv_renamed: dhcpConfig moved resolv.conf aside
    pidfile,        \* the pid file is there
    daemon,         \* main has forked into the background
    timer,          \* seconds until SIGALRM; 0 when it is pending
    env,            \* the state function whose sigsetjmp filled env
    age,            \* real time since ReqSentTime was taken
    skew,           \* how far time(NULL) was moved since ReqSentTime
    released,       \* this process has sent DHCP_RELEASE
    child,          \* a script started by dhcpStop is still running
    code            \* exit status of the process, Running while there is none

files == <<ifaddr, cache, uncached, resolv, saved, renamed>>
clock == <<age, skew>>
vars  == <<currState, at, opts, ciaddr, files, pidfile, daemon, timer, env, clock,
           released, child, code>>

(***************************************************************************)
(* Where the process is: in main before the call of currState(), waiting   *)
(* in dhcpSendAndRecv for the first OFFER, the second OFFER or an ACK, in  *)
(* dhcpConfig running "ipchg_api stop" or "ipchg_api start", in the sleep  *)
(* of dhcpBound, in the sleep of the SIGHUP handler, ended.                *)
(***************************************************************************)
Receiving == {"offer1", "offer2", "ack"}
Blocked == Receiving \cup {"ipstop", "ipstart", "sleep"}
Where == Blocked \cup {"main", "hup", "gone"}
Alive == at # "gone"

FlagsOK ==
    /\ renamed \in BOOLEAN /\ uncached \in BOOLEAN /\ pidfile \in BOOLEAN
    /\ daemon \in BOOLEAN /\ released \in BOOLEAN /\ child \in BOOLEAN

DataOK ==
    /\ currState \in StateFns
    /\ at \in Where
    /\ opts \in Options(Servers)
    /\ ciaddr \in Addrs \cup {NoAddr}
    /\ ifaddr \in Addrs \cup {NoAddr}
    /\ cache \in Addrs \cup {NoAddr, Absent}
    /\ resolv \in {"original", "dhcp", "none"}
    /\ saved \in {"original", "dhcp", "none"}
    /\ timer \in Nat \cup {Off}
    /\ env \in JumpStates \cup {"dhcpInform", "none"}
    /\ age \in 0 .. MaxAge
    /\ skew \in -MaxSkew .. MaxSkew
    /\ code \in {Running, 0, SIGHUP, SIGSEGV, SIGALRM, SIGTERM}

(* Each variable has its type; in particular no deadline that was armed is *)
(* negative and no malformed option stays in the store.                    *)
TypeOK == FlagsOK /\ DataOK
----------------------------------------------------------------------------
(***************************************************************************)
(* dhcpStop: forget the options, close the socket, put resolv.conf back,   *)
(* start the "down" script.  The ioctls that took the address off the      *)
(* interface are compiled out.                                             *)
(***************************************************************************)
dhcpStop ==
    /\ opts' = NoOptions
    /\ IF renamed /\ saved # "none"
       THEN resolv' = saved /\ saved' = "none"
       ELSE UNCHANGED <<resolv, saved>>
    /\ child' = TRUE
    /\ UNCHANGED renamed

Exit(n) == at' = "gone" /\ code' = n

(* The end of sigHandler: dhcpStop, deletePidFile, exit(sig). *)
Terminate(sig) ==
    /\ dhcpStop
    /\ pidfile' = FALSE
    /\ Exit(sig)
    /\ timer' = Off
    /\ UNCHANGED <<currState, ciaddr, ifaddr, cache, uncached, daemon, env, clock, released>>

(***************************************************************************)
(* A state function returns f to main, which calls it next; for NULL main  *)
(* exits with status 1, and the daemon removes its pid file first.         *)
(***************************************************************************)
Return(f) ==
    /\ currState' = f
    /\ IF f = "NULL"
       THEN Exit(1) /\ pidfile' = (pidfile /\ ~daemon)
       ELSE at' = "main" /\ UNCHANGED <<code, pidfile>>

(* A state function blocks at w. *)
Block(w) == at' = w /\ UNCHANGED <<currState, code, pidfile>>

(* main is about to call the state function f. *)
Calls(f) == at = "main" /\ currState = f
----------------------------------------------------------------------------
(***************************************************************************)
(* The process starts: no pid file may be there (checkIfAlreadyRunning),   *)
(* main arms the timeout and calls the first state function.               *)
(***************************************************************************)
Init ==
    /\ currState \in Modes /\ at = "main" /\ code = Running
    /\ opts = NoOptions /\ ciaddr = NoAddr
    /\ renamed = FALSE /\ daemon = FALSE /\ released = FALSE /\ child = FALSE
    /\ timer = TimeOut /\ env = "none" /\ age = 0 /\ skew = 0
    /\ pidfile = FALSE
    /\ resolv = "original" /\ saved = "none" /\ uncached = FALSE
    /\ \/ cache = Absent /\ ifaddr = NoAddr
       \/ cache \in Addrs /\ ifaddr \in {NoAddr, cache}

(* Started again: what the last process left on disk and interface stays. *)
Restart ==
    /\ at = "gone" /\ ~pidfile
    /\ currState' \in Modes /\ at' = "main" /\ code' = Running
    /\ opts' = NoOptions /\ ciaddr' = NoAddr
    /\ renamed' = FALSE /\ daemon' = FALSE /\ released' = FALSE /\ child' = FALSE
    /\ timer' = TimeOut /\ env' = "none" /\ age' = 0 /\ skew' = 0
    /\ UNCHANGED <<pidfile, ifaddr, cache, uncached, resolv, saved>>

(***************************************************************************)
(* dhcpStart exits at once when a socket or an ioctl fails; the pid file   *)
(* of a daemon stays.                                                      *)
(***************************************************************************)
StartFails ==
    /\ "start" \in Faults
    /\ at = "main" /\ currState \in {"dhcpReboot", "dhcpInform", "dhcpStart"}
    /\ Exit(1)
    /\ UNCHANGED <<currState, opts, ciaddr, files, pidfile, daemon, timer, env,
                   clock, released, child>>

dhcpStart ==
    /\ Calls("dhcpStart")
    /\ Return("dhcpInit")
    /\ UNCHANGED <<opts, ciaddr, files, daemon, timer, env, clock, released, child>>

(***************************************************************************)
(* dhcpReboot: with a cache file ask for the cached address, otherwise     *)
(* start over from dhcpInit with the address the interface has.            *)
(***************************************************************************)
dhcpReboot ==
    /\ Calls("dhcpReboot")
    /\ opts' = NoOptions
    /\ \/ /\ cache = Absent
          /\ ciaddr' = ifaddr
          /\ Return("dhcpInit")
          /\ UNCHANGED env
       \/ /\ cache # Absent
          /\ ciaddr' = cache
          /\ env' = "dhcpReboot"
          /\ Block("ack")
    /\ UNCHANGED <<files, daemon, timer, clock, released, child>>

(***************************************************************************)
(* dhcpInform: the address is the argument of -s, else that of the         *)
(* interface, else that of the cache.                                      *)
(***************************************************************************)
dhcpInform ==
    /\ Calls("dhcpInform")
    /\ opts' = NoOptions
    /\ \/ /\ ciaddr' \in Addrs
                         \cup (IF ifaddr # NoAddr THEN {ifaddr}
                               ELSE IF cache # Absent THEN {cache} ELSE {})
          /\ env' = "dhcpInform"
          /\ Block("ack")
       \/ /\ ifaddr = NoAddr /\ cache = Absent
          /\ Return("NULL")
          /\ UNCHANGED <<ciaddr, env>>
    /\ UNCHANGED <<files, daemon, timer, clock, released, child>>

(* dhcpInit up to its first dhcpSendAndRecv. *)
dhcpInit ==
    /\ Calls("dhcpInit")
    /\ opts' = NoOptions
    /\ Block("offer1")
    /\ UNCHANGED <<ciaddr, files, daemon, timer, env, clock, released, child>>

(***************************************************************************)
(* main, when dhcpBound is reached for the first time: the timeout is      *)
(* switched off and the process goes into the background.  A failed fork   *)
(* is taken for the parent, which exits.                                   *)
(***************************************************************************)
Fork ==
    /\ Calls("dhcpBound") /\ ~daemon
    /\ timer' = Off
    /\ pidfile' = TRUE
    /\ \/ daemon' = TRUE /\ UNCHANGED <<at, code>>
       \/ "fork" \in Faults /\ Exit(0) /\ UNCHANGED daemon
    /\ UNCHANGED <<currState, opts, ciaddr, files, env, clock, released, child>>

(* Set the jump buffer, arm the alarm t seconds after ReqSentTime and      *)
(* block at w; a deadline that has passed sends the client on to late.     *)
ArmAndBlock(t, w, late) ==
    LET i == Remaining(t, age + skew)
    IN  /\ env' = currState
        /\ IF i > 0
           THEN timer' = i /\ Block(w)
           ELSE Return(late) /\ UNCHANGED timer
        /\ UNCHANGED <<opts, ciaddr, files, daemon, clock, released, child>>

dhcpBound ==
    /\ Calls("dhcpBound") /\ daemon
    /\ ArmAndBlock(opts.t1, "sleep", "dhcpRenew")

dhcpRenew ==
    /\ Calls("dhcpRenew")
    /\ ArmAndBlock(opts.t2, "ack", "dhcpRebind")

(* Mutant of dhcpRebind: alarm(i) is not called. *)
dhcpRebindUnarmed ==
    /\ Calls("dhcpRebind")
    /\ env' = currState
    /\ Block("ack")
    /\ UNCHANGED <<opts, ciaddr, files, daemon, timer, clock, released, child>>

(* Mutant of dhcpRebind: the deadline is T2 again. *)
dhcpRebindAtT2 ==
    /\ Calls("dhcpRebind")
    /\ ArmAndBlock(opts.t2, "ack", "dhcpStop")

dhcpRebind ==
    /\ Calls("dhcpRebind")
    /\ ArmAndBlock(opts.lease, "ack", "dhcpStop")

Stop ==
    /\ Calls("dhcpStop")
    /\ dhcpStop
    /\ Return("dhcpStart")
    /\ UNCHANGED <<ciaddr, ifaddr, cache, uncached, daemon, timer, env, clock, released>>

(***************************************************************************)
(* The sleep of dhcpBound ends: its time is over, at the earliest when the *)
(* alarm is due, or the end of a child interrupts it.  SIGCHLD has no      *)
(* effect elsewhere: select is repeated.                                   *)
(***************************************************************************)
Wake ==
    /\ at = "sleep" /\ timer = 0
    /\ Return("dhcpRenew")
    /\ UNCHANGED <<opts, ciaddr, files, daemon, timer, env, clock, released, child>>

SigChld ==
    /\ child /\ Alive
    /\ child' = FALSE
    /\ IF at = "sleep"
       THEN Return("dhcpRenew")
       ELSE UNCHANGED <<currState, at, code, pidfile>>
    /\ UNCHANGED <<opts, ciaddr, files, daemon, timer, env, clock, released>>
----------------------------------------------------------------------------
(***************************************************************************)
(* dhcpSendAndRecv.  Its transaction id tells which messages can come: a   *)
(* server answers a DISCOVER with OFFERs and a REQUEST with an ACK or a    *)
(* NAK, a BOOTP server answers either without a message type, and the      *)
(* REQUEST of dhcpInit shares its id with the DISCOVERs before it, whose   *)
(* late OFFERs still match.                                                *)
(***************************************************************************)
Matches(m) ==
    \/ m.type = "none"
    \/ m.type = "OFFER" /\ (at # "ack" \/ currState = "dhcpInit")
    \/ m.type \in {"ACK", "NAK"} /\ at = "ack"

Wanted == IF at = "ack" THEN "ACK" ELSE "OFFER"

(* dhcpSendAndRecv returned nonzero, the received message has address a. *)
Refused(a) ==
    CASE at = "offer1" ->
            /\ dhcpStop
            /\ Return("NULL")
            /\ UNCHANGED ciaddr
      [] at = "offer2" ->
            /\ ciaddr' = a
            /\ Block("ack")
            /\ UNCHANGED <<resolv, saved, renamed, child>>
      [] at = "ack" ->
            /\ Return(CASE currState = "dhcpRenew"  -> "dhcpRebind"
                        [] currState = "dhcpRebind" -> "dhcpStop"
                        [] currState = "dhcpInform" -> "NULL"
                        [] OTHER -> "dhcpInit")
            /\ UNCHANGED <<ciaddr, resolv, saved, renamed, child>>

(* Mutant of Accepted: a renewal adopts the address of the ACK. *)
AcceptedAdopts(m) ==
    /\ at = "ack" /\ currState \in {"dhcpReboot", "dhcpInit", "dhcpInform"}
            => Block("ipstop") /\ UNCHANGED ciaddr
    /\ at = "ack" /\ currState \in {"dhcpRenew", "dhcpRebind"}
            => Return("dhcpBound") /\ ciaddr' = m.yiaddr
    /\ at = "offer2" => Block("ack") /\ ciaddr' = m.yiaddr
    /\ at = "offer1" => Block("offer2") /\ UNCHANGED ciaddr
    /\ age' = 0 /\ skew' = 0

(* dhcpSendAndRecv returned 0, message m has been parsed. *)
Accepted(m) ==
    \/ /\ at = "offer1"
       /\ Block("offer2")
       /\ UNCHANGED <<ciaddr, clock>>
    \/ /\ at = "offer2"
       /\ ciaddr' = m.yiaddr
       /\ Block("ack")
       /\ UNCHANGED clock
    \/ /\ at = "ack" /\ currState \in {"dhcpRenew", "dhcpRebind"}
       /\ age' = 0 /\ skew' = 0
       /\ Return("dhcpBound")
       /\ UNCHANGED ciaddr
    \/ /\ at = "ack" /\ currState \in {"dhcpReboot", "dhcpInit", "dhcpInform"}
       /\ age' = 0 /\ skew' = 0
       /\ Block("ipstop")
       /\ UNCHANGED ciaddr

(***************************************************************************)
(* A message arrives and is parsed.  Without a type in it or in an earlier *)
(* message the test for NAK reads through a null pointer: SIGSEGV goes to  *)
(* sigHandler.  Anything else that is not wanted leaves only its options.  *)
(***************************************************************************)
Receive(m) ==
    LET o == parseDhcpMsgRecv(opts, m)
    IN  /\ at \in Receiving /\ Matches(m)
        /\ CASE o.type = Wanted ->
                  /\ Accepted(m)
                  /\ opts' = o
                  /\ UNCHANGED <<files, daemon, timer, env, released, child>>
             [] o.type = "none" ->
                  Terminate(SIGSEGV)
             [] o.type = "NAK" ->
                  /\ Refused(m.yiaddr)
                  /\ IF at = "offer1" THEN TRUE ELSE opts' = o
                  /\ UNCHANGED <<ifaddr, cache, uncached, daemon, timer, env, clock, released>>
             [] OTHER ->
                  /\ opts' = o
                  /\ UNCHANGED <<currState, at, ciaddr, files, pidfile, daemon,
                                 timer, env, clock, released, child, code>>

(* sendto or recvfrom fails; the receive buffer holds anything. *)
NetFails ==
    /\ "net" \in Faults
    /\ at \in Receiving
    /\ \E a \in Addrs \cup {NoAddr} : Refused(a)
    /\ IF at = "offer1" THEN TRUE ELSE UNCHANGED opts
    /\ UNCHANGED <<ifaddr, cache, uncached, daemon, timer, env, clock, released>>
----------------------------------------------------------------------------
(* resolv.conf is moved aside and written anew; that either fails has no   *)
(* consequence but its own.                                                *)
ReplaceResolv ==
    /\ \/ resolv # "none" /\ saved' = resolv /\ renamed' = TRUE
       \/ /\ resolv = "none" \/ "files" \in Faults
          /\ renamed' = FALSE /\ UNCHANGED saved
    /\ \/ resolv' = "dhcp"
       \/ "files" \in Faults /\ resolv' = IF renamed' THEN "none" ELSE resolv

(* The cache file is truncated and written.  A call that fails is only     *)
(* logged: the file is the old one, or is too short to be read.            *)
WriteCache ==
    \/ cache' = ciaddr /\ uncached' = FALSE
    \/ "files" \in Faults /\ cache' \in {cache, Absent} /\ uncached' = TRUE

(***************************************************************************)
(* dhcpConfig after "ipchg_api stop": the address goes to the interface,   *)
(* resolv.conf and the cache are written; then "ipchg_api start" runs.     *)
(***************************************************************************)
Configure ==
    /\ at = "ipstop"
    /\ ifaddr' = ciaddr
    /\ ReplaceResolv
    /\ WriteCache
    /\ Block("ipstart")
    /\ UNCHANGED <<opts, ciaddr, daemon, timer, env, clock, released, child>>

(* An ioctl of dhcpConfig fails: the old address is still set, or cleared, *)
(* or already replaced.                                                    *)
ConfigureFails ==
    /\ "config" \in Faults
    /\ at = "ipstop"
    /\ ifaddr' \in {ifaddr, NoAddr, ciaddr}
    /\ IF currState = "dhcpInform"
       THEN UNCHANGED <<opts, resolv, saved, renamed, child>>
       ELSE dhcpStop
    /\ Return("NULL")
    /\ UNCHANGED <<ciaddr, cache, uncached, daemon, timer, env, clock, released>>

(* The end of dhcpConfig: an infinite lease ends the program, as does      *)
(* dhcpInform in any case.                                                 *)
Configured ==
    /\ at = "ipstart"
    /\ IF opts.lease = Infinite \/ currState = "dhcpInform"
       THEN Exit(0) /\ UNCHANGED <<currState, pidfile>>
       ELSE Return("dhcpBound")
    /\ UNCHANGED <<opts, ciaddr, files, daemon, timer, env, clock, released, child>>
----------------------------------------------------------------------------
(***************************************************************************)
(* sigHandler on SIGALRM, left with t on the alarm clock.  It jumps to the *)
(* sigsetjmp that filled env last.  When that function has returned, its   *)
(* frame is dead: the jump either still takes its timeout branch or ends   *)
(* in SIGSEGV; an env never filled kills the process outright.             *)
(***************************************************************************)
Jump(t) ==
    /\ env # "none"
    /\ CASE env = "dhcpBound"  -> Return("dhcpRenew")  /\ timer' = t
         [] env = "dhcpRenew"  -> Return("dhcpRebind") /\ timer' = t
         [] env = "dhcpRebind" -> Return("dhcpStop")   /\ timer' = t
         [] env = "dhcpReboot" -> Return("dhcpInit")   /\ timer' = TimeOut
         [] OTHER              -> Return("NULL")       /\ timer' = t
    /\ UNCHANGED <<opts, ciaddr, files, daemon, env, clock, released, child>>

sigHandlerAlrm(t) ==
    /\ Alive
    /\ IF currState \in JumpStates
       THEN \/ Jump(t)
            \/ env \notin {currState, "none"} /\ Terminate(SIGSEGV)
            \/ /\ env = "none"
               /\ Exit(SIGSEGV)
               /\ timer' = Off
               /\ UNCHANGED <<currState, opts, ciaddr, files, pidfile, daemon,
                              env, clock, released, child>>
       ELSE Terminate(SIGALRM)

(* The alarm goes off; the sleep of the SIGHUP handler lasts a second. *)
Alarm ==
    /\ timer = 0 \/ (at = "hup" /\ timer = 1)
    /\ sigHandlerAlrm(Off)

(* dhcpcd -n: killPid(SIGALRM). *)
KillAlrm ==
    /\ "ALRM" \in Kills /\ pidfile
    /\ sigHandlerAlrm(timer)

(* Mutant of KillHup: dhcpRelease forgets the options with the address. *)
KillHupForgets ==
    /\ "HUP" \in Kills /\ pidfile /\ Alive /\ at # "hup"
    /\ opts' = NoOptions /\ ciaddr' = NoAddr /\ cache' = Absent
    /\ released' = TRUE
    /\ Block("hup")
    /\ UNCHANGED <<ifaddr, uncached, resolv, saved, renamed, daemon, timer, env, clock,
                   child>>

(***************************************************************************)
(* dhcpcd -k: sigHandler on SIGHUP runs dhcpRelease and sleeps a second    *)
(* with the other signals unblocked.                                       *)
(***************************************************************************)
KillHup ==
    /\ "HUP" \in Kills /\ pidfile /\ Alive /\ at # "hup"
    /\ cache' = Absent
    /\ IF ciaddr = NoAddr
       THEN UNCHANGED <<ciaddr, released>>
       ELSE ciaddr' = NoAddr /\ released' = TRUE
    /\ Block("hup")
    /\ UNCHANGED <<opts, ifaddr, uncached, resolv, saved, renamed, daemon, timer, env,
                   clock, child>>

HupEnds == at = "hup" /\ Terminate(SIGHUP)

(* killPid finds no process behind the pid file and removes the file. *)
KillStale ==
    /\ Kills \cap {"HUP", "ALRM"} # {} /\ pidfile /\ ~Alive
    /\ pidfile' = FALSE
    /\ UNCHANGED <<currState, at, opts, ciaddr, files, daemon, timer, env, clock,
                   released, child, code>>

KillTerm == "TERM" \in Kills /\ Alive /\ Terminate(SIGTERM)
----------------------------------------------------------------------------
(* A second passes. *)
Tick ==
    /\ at \in Blocked /\ timer # 0
    /\ timer' = IF timer = Off THEN Off ELSE timer - 1
    /\ age' = IF age < MaxAge THEN age + 1 ELSE age
    /\ UNCHANGED <<currState, at, opts, ciaddr, files, pidfile, daemon, env,
                   skew, released, child, code>>

(* Another program (ntpdate, crond, the web page) sets the wall clock. *)
SetClock ==
    /\ at \in Blocked
    /\ \E d \in ClockSteps :
          /\ skew + d \in -MaxSkew .. MaxSkew
          /\ skew' = skew + d
    /\ UNCHANGED <<currState, at, opts, ciaddr, files, pidfile, daemon, timer,
                   env, age, released, child, code>>

Signal == Alarm \/ KillAlrm \/ KillHup \/ HupEnds \/ KillTerm \/ KillStale
          \/ SigChld

Step ==
    \/ StartFails \/ dhcpStart \/ dhcpReboot \/ dhcpInform \/ dhcpInit \/ Fork
    \/ dhcpBound \/ dhcpRenew \/ dhcpRebind \/ Stop \/ Wake
    \/ Configure \/ ConfigureFails \/ Configured

Next ==
    \/ Step \/ Signal \/ Restart \/ Tick \/ SetClock
    \/ NetFails \/ \E m \in Msgs : Receive(m)

Spec == Init /\ [][Next]_vars

(***************************************************************************)
(* What runs without anybody's help: the process itself, the kernel's      *)
(* alarm clock and the passing of time.                                    *)
(***************************************************************************)
FairSpec ==
    Spec /\ WF_vars(Step) /\ WF_vars(Alarm) /\ WF_vars(HupEnds) /\ WF_vars(Tick)
----------------------------------------------------------------------------
(* The client uses an acknowledged address. *)
Holds == Alive /\ currState \in Leased

(***************************************************************************)
(* The address is not used past its lease: while the client waits in       *)
(* dhcpBound, dhcpRenew or dhcpRebind, no more time has passed since the   *)
(* last ACK than the lease in force grants, but for what the wall clock    *)
(* was set back meanwhile (dhcpcd.8, BUGS).  The alarms of the three       *)
(* states, re-armed from time(NULL) at each entry, have to add up to this. *)
(***************************************************************************)
LeaseHonoured == Holds /\ at \in Blocked => age <= opts.lease + MaxSkew

(***************************************************************************)
(* The state functions of a held lease read T1, T2 and the lease time      *)
(* through DhcpOptions.val without a test; the options have not been       *)
(* released under them, whichever way sigHandler jumped there.             *)
(***************************************************************************)
OptionsPresent ==
    Holds => opts.lease # Absent /\ opts.t1 # Absent /\ opts.t2 # Absent

(***************************************************************************)
(* No wait of a held lease is without an alarm: dhcpSendAndRecv never      *)
(* gives up by itself, so only SIGALRM ends a renewal nobody answers.      *)
(***************************************************************************)
DeadlineArmed == Holds /\ at \in Blocked => timer # Off

(***************************************************************************)
(* What is left of the lease does not fit an int: it reads as negative.    *)
(***************************************************************************)
LeftOverflows == opts.lease - (age + skew) >= Half

(***************************************************************************)
(* dhcpRebind does not take a lease for expired before its time, but for   *)
(* what the wall clock was set ahead, wherever signals jump on the way to  *)
(* its deadline; only a lease of which 2^31 seconds or more are left is,   *)
(* which the signed subtraction takes for over.                            *)
(***************************************************************************)
NoEarlyExpiry ==
    [][Calls("dhcpRebind") /\ currState' = "dhcpStop"
            => age + MaxSkew >= opts.lease \/ LeftOverflows]_vars

(***************************************************************************)
(* No lease at all is taken for expired before its time.                   *)
(***************************************************************************)
NoLeaseCutShort ==
    [][Calls("dhcpRebind") /\ currState' = "dhcpStop"
            => age + MaxSkew >= opts.lease]_vars

(***************************************************************************)
(* A lease that no server acknowledges again is given up.                  *)
(***************************************************************************)
LeaseExpires == (Holds /\ age > 0) ~> (~Holds \/ age = 0)

(***************************************************************************)
(* The address that is renewed is the address of the interface, and of the *)
(* cache unless its last write failed, through every path from dhcpConfig  *)
(* to dhcpRebind, whichever of its calls fail and are only logged.  SIGHUP *)
(* breaks it (see ShutsDownAfterRelease), the other signals do not.        *)
(***************************************************************************)
ConfiguredIsLeased ==
    Holds => ifaddr = ciaddr /\ (cache = ciaddr \/ uncached)

(***************************************************************************)
(* A held lease is in the cache, for the next start to ask for.            *)
(***************************************************************************)
CachedIsLeased == Holds => cache = ciaddr

(***************************************************************************)
(* checkIfAlreadyRunning takes a pid file for a running daemon.            *)
(***************************************************************************)
PidFileTruthful == pidfile => Alive

(***************************************************************************)
(* "this timeout is T1", "is T2", "is dhcpIpLeaseTime" (sigHandler): a     *)
(* pending alarm of a held lease was armed by the state it goes off in.    *)
(***************************************************************************)
AlarmBelongsToState == Holds /\ daemon /\ timer = 0 => env = currState

(***************************************************************************)
(* "allow time for final packets to be transmitted before shutting down":  *)
(* after DHCP_RELEASE was sent the process only shuts down.                *)
(***************************************************************************)
ShutsDownAfterRelease == released => at \in {"hup", "gone"}

(***************************************************************************)
(* dhcpcd -n "forces dhcpcd to try to renew the lease" (dhcpcd.8): a       *)
(* daemon that waits with a lease in its hands goes on to ask a server.    *)
(***************************************************************************)
ForcedToRenew ==
    [][KillAlrm /\ Holds /\ at \in Blocked
            => currState' \in {"dhcpRenew", "dhcpRebind"} /\ at' # "gone"]_vars

(***************************************************************************)
(* resolv.conf "will be restored back when dhcpcd exits for any reason"    *)
(* (dhcpcd.8).                                                             *)
(***************************************************************************)
RestoredOnExit == ~Alive => resolv = "original"

(***************************************************************************)
(* dhcpcd "times out before receiving a valid IP address": it "will return *)
(* exit code 1" (dhcpcd.8).                                                *)
(***************************************************************************)
TimesOutWithOne == ~Alive /\ ~daemon => code # SIGALRM

(***************************************************************************)
(* The REQUEST of dhcpInit, which every retransmission builds anew from    *)
(* DhcpOptions, names the server that offered the address it asks for.     *)
(***************************************************************************)
RequestNamesOfferer ==
    at = "ack" /\ currState = "dhcpInit" =>
        \E m \in Msgs : /\ m.type = "OFFER" /\ m.yiaddr = ciaddr
                        /\ opts.sid \in {m.sid, m.src}

(***************************************************************************)
(* Why LeaseHonoured holds.  Servers whose messages are complete (a lease  *)
(* with a T1 and a T2 that do not exceed it, or none of the three) keep    *)
(* the store ordered although parseDhcpMsgRecv mixes old and new options;  *)
(* and the alarm of each wait covers no more than the lease.               *)
(***************************************************************************)
CompleteMsgs ==
    \A m \in Msgs :
        \/ m.lease = Absent /\ m.t1 = Absent /\ m.t2 = Absent
        \/ /\ m.lease \in 1 .. Infinite
           /\ m.t1 \in {Malformed} \cup (0 .. m.lease)
           /\ m.t2 \in {Malformed} \cup (0 .. m.lease)

StoreOrdered ==
    \/ opts.lease = Absent /\ opts.t1 = Absent /\ opts.t2 = Absent
    \/ opts.lease > 0 /\ opts.t1 \in 0 .. opts.lease /\ opts.t2 \in 0 .. opts.lease

(* Where a held lease can be waiting, and which function fills env. *)
HoldsWhere ==
    /\ Holds => at \in {"main", "sleep", "ack", "hup"}
    /\ at = "sleep" => currState = "dhcpBound"
    /\ currState = "dhcpReboot" => env \in {"none", "dhcpReboot"}

(* The last message of a client with a lease, or on the way to one. *)
AckInStore ==
    /\ Holds => opts.lease # Absent /\ opts.type \in {"ACK", "NAK"}
    /\ at \in {"ipstop", "ipstart"} => opts.lease # Absent /\ opts.type = "ACK"

AlarmCovers ==
    Holds /\ at \in {"sleep", "ack"}
        => timer # Off /\ age + timer <= opts.lease + MaxSkew

LeaseInv == StoreOrdered /\ HoldsWhere /\ AckInStore /\ AlarmCovers

(***************************************************************************)
(* The contract of a lease (LeaseContract): however signals, timeouts and  *)
(* messages drive dhcpBound, dhcpRenew and dhcpRebind, the client only     *)
(* does with a lease what its holder may.                                  *)
(***************************************************************************)
Contract == INSTANCE LeaseContract WITH
    Terms <- 0 .. (Infinite + MaxSkew),
    held  <- Holds,
    term  <- IF Holds THEN opts.lease + MaxSkew ELSE 0,
    used  <- IF Holds THEN age ELSE 0

ContractSpec == Contract!Spec
============================================================================
