-------------------------- MODULE DhcpClientProofs --------------------------
(***************************************************************************)
(* Proofs about DhcpClient for all values of its constants.                *)
(***************************************************************************)
EXTENDS DhcpClient, TLAPS

USE HalfAssumption, LeaseTimeAssumption, ClientAssumption

(* The defaults of T1 and T2 lie in order within the lease. *)
LEMMA DefaultTimes ==
    ASSUME NEW l \in Nat
    PROVE  /\ l \div 2 \in Nat /\ (7 * l) \div 8 \in Nat
           /\ l \div 2 <= (7 * l) \div 8 /\ (7 * l) \div 8 <= l
  OBVIOUS

(* parseDhcpMsgRecv fills the store: afterwards no option is missing. *)
LEMMA ParseType ==
    ASSUME NEW o \in Options(Servers), NEW m \in Msgs
    PROVE  /\ parseDhcpMsgRecv(o, m) \in Options(Servers)
           /\ parseDhcpMsgRecv(o, m).lease \in 0 .. Infinite
           /\ parseDhcpMsgRecv(o, m).t1 \in 0 .. Infinite
           /\ parseDhcpMsgRecv(o, m).t2 \in 0 .. Infinite
<1> DEFINE lease == Default(Overwrite(o.lease, m.lease), LeaseTime)
           t1 == Default(Overwrite(o.t1, m.t1), lease \div 2)
           t2 == Default(Overwrite(o.t2, m.t2), (7 * lease) \div 8)
           sid0 == Overwrite(o.sid, m.sid)
           sid == IF sid0 = Absent THEN m.src ELSE sid0
           type == IF m.type = "none" THEN o.type ELSE m.type
<1>1. /\ m.type \in MsgType /\ m.src \in Servers /\ m.sid \in Servers \cup {Absent}
      /\ m.lease \in OptionVal /\ m.t1 \in OptionVal /\ m.t2 \in OptionVal
  BY DEF Message
<1>2. /\ o.type \in MsgType /\ o.sid \in Servers \cup {Absent}
      /\ o.lease \in {Absent} \cup 0 .. Infinite /\ o.t1 \in {Absent} \cup 0 .. Infinite
      /\ o.t2 \in {Absent} \cup 0 .. Infinite
  BY DEF Options
<1>3. lease \in 0 .. Infinite
  BY <1>1, <1>2 DEF Default, Overwrite, OptionVal, Absent, Malformed, Infinite, Word
<1>4. lease \div 2 \in 0 .. Infinite /\ (7 * lease) \div 8 \in 0 .. Infinite
  <2> HIDE DEF lease
  <2>1. lease \in Nat /\ lease <= Infinite /\ Infinite \in Int
    BY <1>3 DEF Infinite, Word
  <2> QED
    BY <2>1, DefaultTimes
<1>5. t1 \in 0 .. Infinite /\ t2 \in 0 .. Infinite
  <2> HIDE DEF lease
  <2> QED
    BY <1>1, <1>2, <1>4 DEF Default, Overwrite, OptionVal, Absent, Malformed
<1>6. sid \in Servers \cup {Absent}
  BY <1>1, <1>2 DEF Overwrite
<1>7. type \in MsgType
  BY <1>1, <1>2
<1>8. parseDhcpMsgRecv(o, m) =
        [type |-> type, sid |-> sid, lease |-> lease, t1 |-> t1, t2 |-> t2]
  BY DEF parseDhcpMsgRecv
<1> HIDE DEF lease, t1, t2, sid0, sid, type
<1> QED
  BY <1>3, <1>5, <1>6, <1>7, <1>8 DEF Options

(* An empty store is a store. *)
LEMMA NoOptionsType == NoOptions \in Options(Servers)
  BY DEF NoOptions, Options, MsgType

(* A deadline is an integer, whatever the wall clock says. *)
LEMMA RemainingType ==
    ASSUME NEW t \in Int, NEW e \in Int
    PROVE  Remaining(t, e) \in Int
<1>1. Word \in Nat /\ Word > 0
  BY DEF Word
<1>2. (t - e) % Word \in Int
  BY <1>1
<1> QED
  BY <1>1, <1>2 DEF Remaining
-----------------------------------------------------------------------------
(* The process starts in a state of the declared types. *)
LEMMA TypeInit == Init => TypeOK
<1> SUFFICES ASSUME Init PROVE TypeOK
  OBVIOUS
<1>1. FlagsOK
  BY Zenon DEF Init, FlagsOK
<1>2. DataOK
  BY NoOptionsType DEF Init, DataOK, StateFns, Where, Running, Off, Absent, NoAddr
<1> QED
  BY <1>1, <1>2 DEF TypeOK

(* Every action keeps the flags Boolean. *)
LEMMA FlagsNext == FlagsOK /\ [Next]_vars => FlagsOK'
<1> SUFFICES ASSUME FlagsOK, [Next]_vars
             PROVE  FlagsOK'
  OBVIOUS
<1> USE DEF FlagsOK
<1>1. ASSUME NEW f, Return(f) PROVE pidfile' \in BOOLEAN
  BY <1>1, Zenon DEF Return
<1>2. ASSUME NEW w, Block(w) PROVE pidfile' \in BOOLEAN
  BY <1>2, Zenon DEF Block
<1>3. ASSUME dhcpStop PROVE renamed' \in BOOLEAN /\ child' \in BOOLEAN
  BY <1>3, Zenon DEF dhcpStop
<1>4. ASSUME NEW s, Terminate(s) PROVE FlagsOK'
  BY <1>3, <1>4, Zenon DEF Terminate
<1>5. ASSUME NEW t, sigHandlerAlrm(t) PROVE FlagsOK'
  <2>1. CASE Jump(t)
    BY <1>1, <2>1, Zenon DEF Jump, files
  <2>2. CASE \E s : Terminate(s)
    BY <1>4, <2>2
  <2> QED
    BY <1>5, <2>1, <2>2, Zenon DEF sigHandlerAlrm, files
<1>6. ASSUME NEW a, at \in Receiving, Refused(a), UNCHANGED <<uncached, daemon, released>>
      PROVE  FlagsOK'
  <2>1. CASE at = "offer1"
    BY <1>1, <1>3, <1>6, <2>1 DEF Refused
  <2>2. CASE at = "offer2"
    BY <1>2, <1>6, <2>2 DEF Refused
  <2>3. CASE at = "ack"
    BY <1>1, <1>6, <2>3 DEF Refused
  <2> QED
    BY <1>6, <2>1, <2>2, <2>3 DEF Receiving
<1>7. ASSUME NEW m \in Msgs, Receive(m) PROVE FlagsOK'
  <2> DEFINE o == parseDhcpMsgRecv(opts, m)
  <2>1. CASE o.type = Wanted
    <3>1. Accepted(m) /\ UNCHANGED <<files, daemon, timer, env, released, child>>
      BY <1>7, <2>1 DEF Receive, Wanted
    <3>2. pidfile' \in BOOLEAN
      BY <1>1, <1>2, <3>1, Zenon DEF Accepted
    <3> QED
      BY <3>1, <3>2, Zenon DEF files
  <2>2. CASE o.type # Wanted /\ o.type = "none"
    BY <1>4, <1>7, <2>2 DEF Receive
  <2>3. CASE o.type \notin {Wanted, "none"} /\ o.type = "NAK"
    BY <1>6, <1>7, <2>3 DEF Receive
  <2>4. CASE o.type \notin {Wanted, "none", "NAK"}
    BY <1>7, <2>4 DEF Receive, files
  <2> QED
    BY <2>1, <2>2, <2>3, <2>4
<1>8. ASSUME dhcpBound \/ dhcpRenew \/ dhcpRebind PROVE FlagsOK'
  <2>1. PICK t, w, late : ArmAndBlock(t, w, late)
    BY <1>8, Zenon DEF dhcpBound, dhcpRenew, dhcpRebind
  <2> QED
    BY <1>1, <1>2, <2>1, Zenon DEF ArmAndBlock, files
<1>9. ASSUME StartFails \/ dhcpStart \/ dhcpReboot \/ dhcpInform \/ dhcpInit PROVE FlagsOK'
  BY <1>1, <1>2, <1>9, Zenon
  DEF StartFails, dhcpStart, dhcpReboot, dhcpInform, dhcpInit, files
<1>10. ASSUME Fork PROVE FlagsOK'
  BY <1>10, Zenon DEF Fork, files
<1>11. ASSUME Stop \/ Wake \/ SigChld PROVE FlagsOK'
  BY <1>1, <1>3, <1>11, Zenon DEF Stop, Wake, SigChld, files
<1>12. ASSUME Configure \/ Configured PROVE FlagsOK'
  BY <1>1, <1>2, <1>12, Zenon DEF Configure, ReplaceResolv, WriteCache, Configured, files
<1>13. ASSUME ConfigureFails PROVE FlagsOK'
  BY <1>1, <1>3, <1>13, Zenon DEF ConfigureFails
<1>14. ASSUME KillHup \/ KillStale PROVE FlagsOK'
  BY <1>2, <1>14, Zenon DEF KillHup, KillStale, files
<1>15. ASSUME Alarm \/ KillAlrm \/ HupEnds \/ KillTerm PROVE FlagsOK'
  BY <1>4, <1>5, <1>15, Zenon DEF Alarm, KillAlrm, HupEnds, KillTerm
<1>16. ASSUME Restart PROVE FlagsOK'
  BY <1>16, Zenon DEF Restart
<1>17. ASSUME Tick \/ SetClock PROVE FlagsOK'
  BY <1>17, Zenon DEF Tick, SetClock, files
<1>18. ASSUME NetFails PROVE FlagsOK'
  BY <1>6, <1>18, Zenon DEF NetFails
<1>19. CASE UNCHANGED vars
  BY <1>19 DEF vars, files
<1> QED
  BY <1>7, <1>8, <1>9, <1>10, <1>11, <1>12, <1>13, <1>14, <1>15, <1>16, <1>17, <1>18,
     <1>19 DEF Next, Step, Signal

(* Every action keeps the other types. *)
LEMMA DataNext == DataOK /\ [Next]_vars => DataOK'
<1> SUFFICES ASSUME DataOK, [Next]_vars
             PROVE  DataOK'
  OBVIOUS
<1> USE NoOptionsType DEF DataOK, StateFns, Where, Blocked, Receiving
<1> USE DEF SIGHUP, SIGSEGV, SIGALRM, SIGTERM, Exit, files, clock
<1>1. ASSUME StartFails PROVE DataOK'
  BY <1>1 DEF StartFails
<1>2. ASSUME dhcpStart PROVE DataOK'
  BY <1>2 DEF dhcpStart, Return
<1>3. ASSUME dhcpReboot PROVE DataOK'
  BY <1>3 DEF dhcpReboot, Return, Block, JumpStates
<1>4. ASSUME dhcpInform PROVE DataOK'
  BY <1>4 DEF dhcpInform, Return, Block
<1>5. ASSUME dhcpInit PROVE DataOK'
  BY <1>5 DEF dhcpInit, Block
<1>6. ASSUME Fork PROVE DataOK'
  BY <1>6 DEF Fork
<1>7. ASSUME NEW t \in Int, NEW w \in Blocked, NEW late \in StateFns, currState \in Leased,
             ArmAndBlock(t, w, late)
      PROVE  DataOK'
  <2> DEFINE i == Remaining(t, age + skew)
  <2>1. i \in Int
    BY RemainingType
  <2> HIDE DEF i
  <2>2. timer' \in Nat \cup {Off}
    BY <1>7, <2>1 DEF ArmAndBlock, i
  <2>3. currState' \in StateFns /\ at' \in Where
        /\ code' \in {Running, 0, SIGHUP, SIGSEGV, SIGALRM, SIGTERM}
    BY <1>7 DEF ArmAndBlock, Return, Block
  <2> QED
    BY <1>7, <2>2, <2>3 DEF ArmAndBlock, JumpStates
<1>8. opts.lease \in Int /\ opts.t1 \in Int /\ opts.t2 \in Int
  BY DEF Options, Absent, Infinite, Word
<1>9. ASSUME dhcpBound PROVE DataOK'
  BY <1>7, <1>8, <1>9 DEF dhcpBound, Calls, Leased
<1>10. ASSUME dhcpRenew PROVE DataOK'
  BY <1>7, <1>8, <1>10 DEF dhcpRenew, Calls, Leased
<1>11. ASSUME dhcpRebind PROVE DataOK'
  BY <1>7, <1>8, <1>11 DEF dhcpRebind, Calls, Leased
<1>12. ASSUME Stop PROVE DataOK'
  BY <1>12 DEF Stop, dhcpStop, Return
<1>13. ASSUME Wake PROVE DataOK'
  BY <1>13 DEF Wake, Return
<1>14. ASSUME Configure PROVE DataOK'
  BY <1>14 DEF Configure, ReplaceResolv, WriteCache, Block
<1>15. ASSUME ConfigureFails PROVE DataOK'
  BY <1>15 DEF ConfigureFails, dhcpStop, Return
<1>16. ASSUME Configured PROVE DataOK'
  BY <1>16 DEF Configured, Return
<1>17. ASSUME NEW s \in {SIGHUP, SIGSEGV, SIGALRM, SIGTERM}, Terminate(s)
       PROVE  DataOK'
  BY <1>17 DEF Terminate, dhcpStop
<1>18. ASSUME NEW t \in Nat \cup {Off}, sigHandlerAlrm(t) PROVE DataOK'
  <2>1. CASE Jump(t)
    BY <2>1 DEF Jump, Return
  <2>2. CASE Terminate(SIGSEGV) \/ Terminate(SIGALRM)
    BY <2>2, <1>17
  <2>3. CASE ~ Jump(t) /\ ~ Terminate(SIGSEGV) /\ ~ Terminate(SIGALRM)
    BY <1>18, <2>3 DEF sigHandlerAlrm
  <2> QED
    BY <2>1, <2>2, <2>3
<1>19. ASSUME Alarm PROVE DataOK'
  BY <1>18, <1>19 DEF Alarm
<1>20. ASSUME KillAlrm PROVE DataOK'
  BY <1>18, <1>20 DEF KillAlrm
<1>21. ASSUME KillHup PROVE DataOK'
  BY <1>21 DEF KillHup, Block
<1>22. ASSUME HupEnds \/ KillTerm PROVE DataOK'
  BY <1>17, <1>22 DEF HupEnds, KillTerm
<1>23. ASSUME KillStale PROVE DataOK'
  BY <1>23 DEF KillStale
<1>24. ASSUME SigChld PROVE DataOK'
  BY <1>24 DEF SigChld, Return
<1>25. ASSUME Restart PROVE DataOK'
  BY <1>25 DEF Restart
<1>26. ASSUME Tick PROVE DataOK'
  BY <1>26 DEF Tick
<1>27. ASSUME SetClock PROVE DataOK'
  BY <1>27 DEF SetClock
<1>28. ASSUME NEW a \in Addrs \cup {NoAddr}, at \in Receiving, Refused(a),
              opts' \in Options(Servers),
              UNCHANGED <<ifaddr, cache, uncached, daemon, timer, env, clock, released>>
       PROVE  DataOK'
  <2>1. CASE at = "offer1"
    BY <1>28, <2>1 DEF Refused, dhcpStop, Return
  <2>2. CASE at = "offer2"
    BY <1>28, <2>2 DEF Refused, Block
  <2>3. CASE at = "ack"
    BY <1>28, <2>3 DEF Refused, Return
  <2> QED
    BY <1>28, <2>1, <2>2, <2>3
<1>29. ASSUME NetFails PROVE DataOK'
  <2>1. PICK a \in Addrs \cup {NoAddr} : Refused(a)
    BY <1>29 DEF NetFails
  <2>2. opts' \in Options(Servers)
    BY <1>29, <2>1 DEF NetFails, Refused, dhcpStop
  <2> QED
    BY <1>28, <1>29, <2>1, <2>2 DEF NetFails
<1>30. ASSUME NEW m \in Msgs, Receive(m) PROVE DataOK'
  <2> DEFINE o == parseDhcpMsgRecv(opts, m)
  <2>1. o \in Options(Servers)
    BY ParseType
  <2>2. m.yiaddr \in Addrs \cup {NoAddr}
    BY DEF Message
  <2> HIDE DEF o
  <2>3. CASE o.type = Wanted
    <3>1. /\ Accepted(m) /\ opts' = o
          /\ UNCHANGED <<files, daemon, timer, env, released, child>>
      BY <1>30, <2>3 DEF Receive, Wanted, o
    <3> QED
      BY <2>1, <2>2, <3>1 DEF Accepted, Block, Return
  <2>4. CASE o.type # Wanted /\ o.type = "none"
    BY <1>17, <1>30, <2>4 DEF Receive, Wanted, o
  <2>5. CASE o.type # Wanted /\ o.type = "NAK"
    <3>1. Refused(m.yiaddr) /\ (at = "offer1" \/ opts' = o)
      BY <1>30, <2>5 DEF Receive, Wanted, o
    <3>2. opts' \in Options(Servers)
      BY <3>1, <2>1, <1>30 DEF Refused, dhcpStop
    <3> QED
      BY <1>28, <1>30, <2>2, <2>5, <3>1, <3>2 DEF Receive, Wanted, o
  <2>6. CASE o.type \notin {Wanted, "none", "NAK"}
    BY <1>30, <2>1, <2>6 DEF Receive, o
  <2> QED
    BY <2>3, <2>4, <2>5, <2>6
<1>31. CASE UNCHANGED vars
  BY <1>31 DEF vars
<1> QED
  BY <1>1, <1>2, <1>3, <1>4, <1>5, <1>6, <1>9, <1>10, <1>11, <1>12, <1>13, <1>14,
     <1>15, <1>16, <1>19, <1>20, <1>21, <1>22, <1>23, <1>24, <1>25, <1>26, <1>27,
     <1>29, <1>30, <1>31
  DEF Next, Step, Signal

(* Every action keeps all types. *)
LEMMA TypeNext == TypeOK /\ [Next]_vars => TypeOK'
  BY FlagsNext, DataNext DEF TypeOK

(* The variables of the client keep their types for ever. *)
THEOREM TypeCorrect == Spec => []TypeOK
  BY TypeInit, TypeNext, PTL DEF Spec
-----------------------------------------------------------------------------
(***************************************************************************)
(* A deadline that is read as lying ahead is never further away than it    *)
(* really is, as long as no more than 2^31 seconds have passed.            *)
(***************************************************************************)
LEMMA RemainingBound ==
    ASSUME NEW t \in 0 .. Infinite, NEW e \in Int, e <= Half, Remaining(t, e) > 0
    PROVE  Remaining(t, e) <= t - e
<1> DEFINE n == t - e
<1>1. n \in Int /\ -Half <= n /\ Word \in Nat \ {0} /\ Word = 2 * Half
  BY DEF Infinite, Word
<1>2. CASE n >= 0
  <2>1. n % Word \in 0 .. Word - 1
    BY <1>1
  <2>2. n % Word <= n
    BY <1>1, <1>2
  <2> HIDE DEF n
  <2> QED
    BY <1>1, <2>1, <2>2 DEF Remaining, n
<1>3. CASE n < 0
  <2>1. n % Word = n + Word
    BY <1>1, <1>3
  <2> QED
    BY <1>1, <1>3, <2>1 DEF Remaining
<1> QED
  BY <1>1, <1>2, <1>3

(* Complete messages keep the store ordered and leave a lease in it. *)
LEMMA ParseOrdered ==
    ASSUME CompleteMsgs, opts \in Options(Servers), StoreOrdered, NEW m \in Msgs,
           NEW o, o = parseDhcpMsgRecv(opts, m)
    PROVE  o.lease > 0 /\ o.t1 \in 0 .. o.lease /\ o.t2 \in 0 .. o.lease
<1>1. /\ o.lease = Default(Overwrite(opts.lease, m.lease), LeaseTime)
      /\ o.t1 = Default(Overwrite(opts.t1, m.t1), o.lease \div 2)
      /\ o.t2 = Default(Overwrite(opts.t2, m.t2), (7 * o.lease) \div 8)
  BY DEF parseDhcpMsgRecv
<1>2. o.lease \in 1 .. Infinite
  BY <1>1 DEF CompleteMsgs, StoreOrdered, Options, Default, Overwrite, Absent, Malformed,
              Infinite, Word
<1>3. o.lease \div 2 \in 0 .. o.lease /\ (7 * o.lease) \div 8 \in 0 .. o.lease
  <2>1. o.lease \in Nat
    BY <1>2
  <2> QED
    BY <2>1, DefaultTimes
<1>4. CASE m.lease = Absent /\ m.t1 = Absent /\ m.t2 = Absent
  BY <1>1, <1>2, <1>3, <1>4 DEF StoreOrdered, Options, Default, Overwrite, Absent, Malformed
<1>5. CASE ~ (m.lease = Absent /\ m.t1 = Absent /\ m.t2 = Absent)
  <2>1. /\ m.lease \in 1 .. Infinite
        /\ m.t1 \in {Malformed} \cup (0 .. m.lease)
        /\ m.t2 \in {Malformed} \cup (0 .. m.lease)
    BY <1>5 DEF CompleteMsgs
  <2>2. o.lease = m.lease
    BY <1>1, <2>1 DEF Default, Overwrite, Absent, Malformed
  <2> QED
    BY <1>1, <1>2, <1>3, <2>1, <2>2 DEF Default, Overwrite, Absent, Malformed
<1> QED
  BY <1>4, <1>5

(* A process that has just started holds no lease. *)
LEMMA LeaseInit == Init => LeaseInv
  BY DEF Init, LeaseInv, StoreOrdered, HoldsWhere, AckInStore, AlarmCovers, Holds, Alive,
         Leased, NoOptions

(***************************************************************************)
(* Every action keeps the alarm of a held lease within the lease.          *)
(***************************************************************************)
LEMMA LeaseNext ==
    ASSUME CompleteMsgs, MaxAge + MaxSkew <= Half
    PROVE  TypeOK /\ LeaseInv /\ [Next]_vars => LeaseInv'
<1> SUFFICES ASSUME DataOK, LeaseInv, [Next]_vars
             PROVE  LeaseInv'
  BY DEF TypeOK
<1> USE DEF LeaseInv, StoreOrdered, HoldsWhere, AckInStore, AlarmCovers, Holds, Alive, Leased
<1>1. ASSUME StartFails \/ dhcpStart \/ dhcpReboot \/ dhcpInform \/ dhcpInit
      PROVE  LeaseInv'
  BY <1>1 DEF StartFails, dhcpStart, dhcpReboot, dhcpInform, dhcpInit, Calls, Return, Block,
              Exit, NoOptions, files, clock
<1>2. ASSUME Fork PROVE LeaseInv'
  BY <1>2 DEF Fork, Calls, Exit, files, clock
<1>3. ASSUME NEW t \in 0 .. opts.lease, NEW w \in {"sleep", "ack"},
             NEW late \in {"dhcpRenew", "dhcpRebind", "dhcpStop"},
             at = "main", currState \in Leased, w = "sleep" => currState = "dhcpBound",
             ArmAndBlock(t, w, late)
      PROVE  LeaseInv'
  <2> DEFINE i == Remaining(t, age + skew)
  <2>0. age \in 0 .. MaxAge /\ skew \in -MaxSkew .. MaxSkew /\ opts.lease \in 0 .. Infinite
    BY <1>3 DEF DataOK, Options, Absent
  <2>1. i \in Int /\ (i > 0 => i <= t - (age + skew))
    <3>1. t \in 0 .. Infinite /\ age + skew \in Int /\ age + skew <= Half
      BY <2>0 DEF Infinite, Word
    <3> QED
      BY <3>1, RemainingBound, RemainingType
  <2> HIDE DEF i
  <2>2. CASE i > 0
    <3>1. timer' = i /\ age + i <= opts.lease + MaxSkew
      BY <1>3, <2>0, <2>1, <2>2 DEF ArmAndBlock, i, Infinite, Word
    <3> QED
      BY <1>3, <2>0, <2>1, <2>2, <3>1 DEF ArmAndBlock, i, Block, Off, clock
  <2>3. CASE ~ (i > 0)
    BY <1>3, <2>3 DEF ArmAndBlock, i, Return, Exit, clock
  <2> QED
    BY <2>2, <2>3
<1>4. ASSUME dhcpBound \/ dhcpRenew \/ dhcpRebind PROVE LeaseInv'
  <2>1. /\ at = "main" /\ currState \in Leased
        /\ opts.t1 \in 0 .. opts.lease /\ opts.t2 \in 0 .. opts.lease
        /\ opts.lease \in 0 .. opts.lease
    BY <1>4 DEF dhcpBound, dhcpRenew, dhcpRebind, Calls, DataOK, Options, Infinite, Word
  <2>2. CASE dhcpBound
    BY <1>3, <2>1, <2>2 DEF dhcpBound, Calls
  <2>3. CASE dhcpRenew
    BY <1>3, <2>1, <2>3 DEF dhcpRenew, Calls
  <2>4. CASE dhcpRebind
    BY <1>3, <2>1, <2>4 DEF dhcpRebind, Calls
  <2> QED
    BY <1>4, <2>2, <2>3, <2>4
<1>5. ASSUME Stop PROVE LeaseInv'
  BY <1>5 DEF Stop, Calls, dhcpStop, Return, NoOptions
<1>6. ASSUME Wake \/ SigChld PROVE LeaseInv'
  BY <1>6 DEF Wake, SigChld, Return, files, clock
<1>7. ASSUME Configure PROVE LeaseInv'
  BY <1>7 DEF Configure, Block, clock
<1>8. ASSUME ConfigureFails PROVE LeaseInv'
  BY <1>8 DEF ConfigureFails, dhcpStop, Return, Exit, NoOptions
<1>9. ASSUME Configured PROVE LeaseInv'
  BY <1>9 DEF Configured, Return, Exit, files, clock
<1>10. ASSUME NEW s, Terminate(s) PROVE LeaseInv'
  BY <1>10 DEF Terminate, Exit, dhcpStop, NoOptions
<1>11. ASSUME NEW t, sigHandlerAlrm(t) PROVE LeaseInv'
  <2>1. CASE currState \in JumpStates /\ Jump(t)
    <3>0. at # "gone"
      BY <1>11 DEF sigHandlerAlrm
    <3>1. CASE currState \in Leased
      BY <2>1, <3>0, <3>1 DEF Jump, Return, Exit, clock
    <3>2. CASE currState = "dhcpReboot"
      BY <2>1, <3>2 DEF Jump, Return, Exit, clock
    <3> QED
      BY <2>1, <3>1, <3>2 DEF JumpStates
  <2>2. CASE \E s : Terminate(s)
    BY <1>10, <2>2
  <2>3. CASE Exit(SIGSEGV) /\ UNCHANGED <<currState, opts, env>>
    BY <2>3 DEF Exit
  <2> QED
    BY <1>11, <2>1, <2>2, <2>3 DEF sigHandlerAlrm
<1>12. ASSUME Alarm \/ KillAlrm \/ HupEnds \/ KillTerm PROVE LeaseInv'
  BY <1>10, <1>11, <1>12 DEF Alarm, KillAlrm, HupEnds, KillTerm
<1>13. ASSUME KillHup \/ KillStale PROVE LeaseInv'
  BY <1>13 DEF KillHup, KillStale, Block, files, clock
<1>14. ASSUME Restart PROVE LeaseInv'
  BY <1>14 DEF Restart, NoOptions
<1>15. ASSUME Tick PROVE LeaseInv'
  <2>1. opts' = opts /\ currState' = currState /\ at' = at /\ env' = env
    BY <1>15 DEF Tick
  <2>2. Holds /\ at \in {"sleep", "ack"} => timer' # Off /\ age' + timer' <= opts.lease + MaxSkew
    BY <1>15 DEF Tick, DataOK, Options, Off, Absent, Infinite, Word
  <2> QED
    BY <2>1, <2>2
<1>16. ASSUME SetClock PROVE LeaseInv'
  BY <1>16 DEF SetClock, files
<1>17. ASSUME NEW a, at \in Receiving, Refused(a), UNCHANGED <<timer, env, clock>>,
              at = "offer1" \/ opts' = opts
                 \/ (StoreOrdered' /\ opts'.lease # Absent /\ opts'.type = "NAK")
       PROVE  LeaseInv'
  <2>1. CASE at = "offer1"
    BY <1>17, <2>1 DEF Refused, dhcpStop, Return, Exit, NoOptions, clock
  <2>2. CASE at = "offer2"
    BY <1>17, <2>2 DEF Refused, Block, clock
  <2>3. CASE at = "ack"
    BY <1>17, <2>3 DEF Refused, Return, Exit, clock
  <2> QED
    BY <1>17, <2>1, <2>2, <2>3 DEF Receiving
<1>18. ASSUME NetFails PROVE LeaseInv'
  BY <1>17, <1>18 DEF NetFails
<1>19. ASSUME NEW m \in Msgs, Receive(m) PROVE LeaseInv'
  <2>1. PICK o : o = parseDhcpMsgRecv(opts, m)
    OBVIOUS
  <2>2. o.lease > 0 /\ o.t1 \in 0 .. o.lease /\ o.t2 \in 0 .. o.lease
    BY <2>1, ParseOrdered DEF DataOK
  <2>3. o.lease # Absent
    BY <2>2 DEF Absent
  <2>4. CASE o.type = Wanted
    <3>1. Accepted(m) /\ opts' = o /\ UNCHANGED <<timer, env>>
      BY <1>19, <2>1, <2>4 DEF Receive, Wanted
    <3> QED
      BY <1>19, <2>2, <2>3, <2>4, <3>1 DEF Accepted, Wanted, Block, Return, Receiving
  <2>5. CASE o.type # Wanted /\ o.type = "none"
    BY <1>10, <1>19, <2>1, <2>5 DEF Receive
  <2>6. CASE o.type # Wanted /\ o.type = "NAK"
    <3>1. /\ Refused(m.yiaddr) /\ (at = "offer1" \/ opts' = o)
          /\ at \in Receiving /\ UNCHANGED <<timer, env, clock>>
      BY <1>19, <2>1, <2>6 DEF Receive
    <3> QED
      BY <1>17, <2>2, <2>3, <2>6, <3>1
  <2>7. CASE o.type \notin {Wanted, "none", "NAK"}
    <3>1. opts' = o /\ UNCHANGED <<currState, at, timer, env, clock>>
      BY <1>19, <2>1, <2>7 DEF Receive
    <3>2. ~ Holds
      <4>1. o.type = IF m.type = "none" THEN opts.type ELSE m.type
        BY <2>1 DEF parseDhcpMsgRecv
      <4>2. at \in Receiving /\ Matches(m)
        BY <1>19 DEF Receive
      <4> QED
        BY <2>7, <4>1, <4>2 DEF Matches, Wanted, Receiving
    <3> QED
      BY <1>19, <2>2, <3>1, <3>2 DEF Receive, Receiving
  <2> QED
    BY <2>4, <2>5, <2>6, <2>7
<1>20. CASE UNCHANGED vars
  BY <1>20 DEF vars, clock
<1> QED
  BY <1>1, <1>2, <1>4, <1>5, <1>6, <1>7, <1>8, <1>9, <1>12, <1>13, <1>14, <1>15, <1>16,
     <1>18, <1>19, <1>20 DEF Next, Step, Signal

(* The inductive invariant holds for ever. *)
THEOREM LeaseInvariant ==
    ASSUME CompleteMsgs, MaxAge + MaxSkew <= Half
    PROVE  Spec => []LeaseInv
<1>1. TypeOK /\ LeaseInv /\ [Next]_vars => LeaseInv'
  BY LeaseNext
<1> QED
  BY <1>1, LeaseInit, TypeCorrect, PTL DEF Spec

(***************************************************************************)
(* For every set of servers that send complete messages, every timeout and *)
(* every wall clock: no wait of a held lease outlasts the lease (but for   *)
(* MaxSkew), each is bounded by an alarm, and none reads an option that    *)
(* is not there.  MaxAge + MaxSkew <= Half says that less than 2^31        *)
(* seconds lie between two ACKs.                                           *)
(***************************************************************************)
THEOREM LeaseIsHonoured ==
    ASSUME CompleteMsgs, MaxAge + MaxSkew <= Half
    PROVE  Spec => [](LeaseHonoured /\ DeadlineArmed /\ OptionsPresent)
<1>1. TypeOK /\ LeaseInv => LeaseHonoured /\ DeadlineArmed /\ OptionsPresent
  <2> SUFFICES ASSUME DataOK, LeaseInv
               PROVE  LeaseHonoured /\ DeadlineArmed /\ OptionsPresent
    BY DEF TypeOK
  <2>1. Holds /\ at \in Blocked => at \in {"sleep", "ack"}
    BY DEF LeaseInv, HoldsWhere, Blocked, Receiving
  <2>2. OptionsPresent
    BY DEF LeaseInv, AckInStore, StoreOrdered, OptionsPresent, DataOK, Options, Absent,
           Infinite, Word
  <2>3. DeadlineArmed
    BY <2>1 DEF LeaseInv, AlarmCovers, DeadlineArmed
  <2>4. LeaseHonoured
    BY <2>1 DEF LeaseInv, AlarmCovers, AckInStore, LeaseHonoured, DataOK, Options, Off,
                Absent, Infinite, Word
  <2> QED
    BY <2>2, <2>3, <2>4
<1>2. Spec => []LeaseInv
  BY LeaseInvariant
<1> QED
  BY <1>1, <1>2, TypeCorrect, PTL
-----------------------------------------------------------------------------
(* Only OFFER and ACK carry a lease: RFC 2131 forbids the option in a      *)
(* DHCPNAK, and a BOOTP reply has none.                                    *)
LeaseFromGrants == \A m \in Msgs : m.type \in {"NAK", "none"} => m.lease = Absent

(***************************************************************************)
(* From one step of a holder to the next, the lease and its clock stay, or *)
(* the clock starts anew, or a second passes.                              *)
(***************************************************************************)
LEMMA HolderStep ==
    ASSUME CompleteMsgs, LeaseFromGrants, TypeOK, LeaseInv, [Next]_vars, Holds, Holds'
    PROVE  \/ opts'.lease = opts.lease /\ age' = age
           \/ age' = 0
           \/ Tick
<1> USE DEF Holds, Alive, Leased
<1> DEFINE Goal == (opts'.lease = opts.lease /\ age' = age) \/ age' = 0 \/ Tick
<1>1. ASSUME StartFails \/ dhcpStart \/ dhcpReboot \/ dhcpInform \/ dhcpInit \/ Restart
      PROVE  Goal
  BY <1>1 DEF StartFails, dhcpStart, dhcpReboot, dhcpInform, dhcpInit, Calls, Restart, Exit
<1>2. ASSUME Fork \/ dhcpBound \/ dhcpRenew \/ dhcpRebind \/ Wake \/ SigChld PROVE Goal
  BY <1>2 DEF Fork, dhcpBound, dhcpRenew, dhcpRebind, ArmAndBlock, Wake, SigChld, clock
<1>3. ASSUME Stop \/ Configure \/ ConfigureFails \/ Configured PROVE Goal
  BY <1>3 DEF Stop, Calls, Configure, ConfigureFails, Configured, LeaseInv, HoldsWhere
<1>4. ASSUME NEW s, Terminate(s) PROVE Goal
  BY <1>4 DEF Terminate, Exit
<1>5. ASSUME NEW t, sigHandlerAlrm(t) PROVE Goal
  BY <1>4, <1>5 DEF sigHandlerAlrm, Jump, Exit, clock
<1>6. ASSUME Alarm \/ KillAlrm \/ HupEnds \/ KillTerm PROVE Goal
  BY <1>4, <1>5, <1>6 DEF Alarm, KillAlrm, HupEnds, KillTerm
<1>7. ASSUME KillHup \/ KillStale \/ Tick \/ SetClock PROVE Goal
  BY <1>7 DEF KillHup, KillStale, SetClock, clock
<1>8. ASSUME NetFails PROVE Goal
  BY <1>8 DEF NetFails, LeaseInv, HoldsWhere, clock
<1>9. ASSUME NEW m \in Msgs, Receive(m) PROVE Goal
  <2>1. PICK o : o = parseDhcpMsgRecv(opts, m)
    OBVIOUS
  <2>2. at = "ack" \/ at \notin Receiving
    BY DEF LeaseInv, HoldsWhere, Receiving
  <2>3. at \in Receiving /\ Matches(m)
    BY <1>9 DEF Receive
  <2>4. CASE o.type = Wanted
    BY <1>9, <2>1, <2>2, <2>3, <2>4 DEF Receive, Accepted, Wanted
  <2>5. CASE o.type # Wanted /\ o.type = "none"
    BY <1>4, <1>9, <2>1, <2>5 DEF Receive
  <2>6. CASE o.type # Wanted /\ o.type = "NAK"
    <3>1. opts' = o /\ age' = age
      BY <1>9, <2>1, <2>2, <2>3, <2>6 DEF Receive, clock
    <3>2. o.type = (IF m.type = "none" THEN opts.type ELSE m.type)
          /\ o.lease = Default(Overwrite(opts.lease, m.lease), LeaseTime)
      BY <2>1 DEF parseDhcpMsgRecv
    <3> QED
      BY <2>6, <3>1, <3>2 DEF LeaseFromGrants, Default, Overwrite, LeaseInv, StoreOrdered,
                                  AckInStore, Absent, Malformed
  <2>7. CASE o.type \notin {Wanted, "none", "NAK"}
    <3>1. o.type = IF m.type = "none" THEN opts.type ELSE m.type
      BY <2>1 DEF parseDhcpMsgRecv
    <3> QED
      BY <2>2, <2>3, <2>7, <3>1 DEF Matches, Wanted, LeaseInv, AckInStore
  <2> QED
    BY <2>4, <2>5, <2>6, <2>7
<1>10. CASE UNCHANGED vars
  BY <1>10 DEF vars, clock
<1> QED
  BY <1>1, <1>2, <1>3, <1>6, <1>7, <1>8, <1>9, <1>10 DEF Next, Step, Signal
(***************************************************************************)
(* dhcpcd implements LeaseContract: signals, retransmissions, refusals and *)
(* steps of the wall clock never let it use an address for a second that   *)
(* no server granted, nor change the term of a running lease.              *)
(***************************************************************************)
THEOREM ImplementsContract ==
    ASSUME CompleteMsgs, LeaseFromGrants, MaxAge + MaxSkew <= Half
    PROVE  Spec => ContractSpec
<1> DEFINE term == IF Holds THEN opts.lease + MaxSkew ELSE 0
           used == IF Holds THEN age ELSE 0
<1>1. Init => Contract!Init
  BY DEF Init, Contract!Init, Holds, Alive, Leased
<1>2. TypeOK /\ LeaseInv /\ TypeOK' /\ LeaseInv' /\ [Next]_vars
        => [Contract!Next]_(Contract!vars)
  <2> SUFFICES ASSUME TypeOK, LeaseInv, TypeOK', LeaseInv', [Next]_vars
               PROVE  [Contract!Next]_(Contract!vars)
    OBVIOUS
  <2>1. /\ age \in Nat /\ age' \in Nat
        /\ Holds => opts.lease + MaxSkew \in 0 .. (Infinite + MaxSkew)
        /\ Holds' => opts'.lease + MaxSkew \in 0 .. (Infinite + MaxSkew)
    BY DEF TypeOK, DataOK, Options, LeaseInv, AckInStore, Absent, Infinite, Word
  <2>2. CASE ~ Holds /\ ~ Holds'
    <3>1. Holds' = Holds
      BY <2>2 DEF Holds
    <3>2. term' = term /\ used' = used
      BY <2>2
    <3> QED
      BY <3>1, <3>2 DEF Contract!vars
  <2>3. CASE ~ Holds /\ Holds'
    BY <2>1, <2>3 DEF Contract!Next, Contract!Acquire
  <2>4. CASE Holds /\ ~ Holds'
    BY <2>4 DEF Contract!Next, Contract!Drop
  <2>5. CASE Holds /\ Holds'
    <3>1. CASE opts'.lease = opts.lease /\ age' = age
      BY <2>5, <3>1 DEF Contract!vars
    <3>2. CASE age' = 0
      BY <2>1, <2>5, <3>2 DEF Contract!Next, Contract!Renew
    <3>3. CASE Tick
      <4>1. at \in {"sleep", "ack"} /\ opts' = opts
        BY <2>5, <3>3 DEF Tick, LeaseInv, HoldsWhere, Blocked, Receiving
      <4>2. age < opts.lease + MaxSkew
        BY <2>1, <2>5, <3>3, <4>1 DEF Tick, LeaseInv, AlarmCovers, TypeOK, DataOK, Off
      <4>3. age' = age + 1 \/ age' = age
        BY <3>3 DEF Tick
      <4>4. CASE age' = age + 1
        BY <2>5, <4>1, <4>2, <4>4 DEF Contract!Next, Contract!Elapse
      <4>5. CASE age' = age
        BY <2>5, <4>1, <4>5 DEF Contract!vars
      <4> QED
        BY <4>3, <4>4, <4>5
    <3> QED
      BY <2>5, <3>1, <3>2, <3>3, HolderStep
  <2> QED
    BY <2>2, <2>3, <2>4, <2>5
<1>3. Spec => []LeaseInv
  BY LeaseInvariant
<1> QED
  BY <1>1, <1>2, <1>3, TypeCorrect, PTL DEF Spec, ContractSpec, Contract!Spec
-----------------------------------------------------------------------------
(***************************************************************************)
(* Whatever a server sends: parseDhcpMsgRecv leaves no gap in the store,   *)
(* and a client on the way to a lease, or with one, does not clear it.     *)
(***************************************************************************)
Present == opts.lease # Absent /\ opts.t1 # Absent /\ opts.t2 # Absent

PresentInv ==
    /\ HoldsWhere
    /\ Holds \/ at \in {"ipstop", "ipstart"} => Present

(* After a message has been parsed lease, T1 and T2 are there. *)
LEMMA ParseFills ==
    ASSUME opts \in Options(Servers), NEW m \in Msgs, NEW o, o = parseDhcpMsgRecv(opts, m)
    PROVE  o.lease # Absent /\ o.t1 # Absent /\ o.t2 # Absent
  BY ParseType DEF Absent, Infinite, Word

(* Every step keeps PresentInv. *)
LEMMA PresentNext == DataOK /\ PresentInv /\ [Next]_vars => PresentInv'
<1> SUFFICES ASSUME DataOK, PresentInv, [Next]_vars
             PROVE  PresentInv'
  OBVIOUS
<1> USE DEF PresentInv, Present, HoldsWhere, Holds, Alive, Leased
<1>1. ASSUME StartFails \/ dhcpStart \/ dhcpReboot \/ dhcpInform \/ dhcpInit
      PROVE  PresentInv'
  BY <1>1 DEF StartFails, dhcpStart, dhcpReboot, dhcpInform, dhcpInit, Calls, Return, Block,
              Exit
<1>2. ASSUME Fork PROVE PresentInv'
  BY <1>2 DEF Fork, Calls, Exit
<1>3. ASSUME dhcpBound \/ dhcpRenew \/ dhcpRebind PROVE PresentInv'
  BY <1>3 DEF dhcpBound, dhcpRenew, dhcpRebind, Calls, ArmAndBlock, Block, Return, Exit
<1>4. ASSUME Stop \/ Wake \/ SigChld PROVE PresentInv'
  BY <1>4 DEF Stop, Calls, Wake, SigChld, Return, Exit
<1>5. ASSUME Configure \/ ConfigureFails \/ Configured PROVE PresentInv'
  BY <1>5 DEF Configure, ConfigureFails, Configured, Block, Return, Exit
<1>6. ASSUME NEW s, Terminate(s) PROVE PresentInv'
  BY <1>6 DEF Terminate, Exit
<1>7. ASSUME NEW t, sigHandlerAlrm(t) PROVE PresentInv'
  <2>1. CASE currState \in JumpStates /\ Jump(t)
    <3>0. at # "gone"
      BY <1>7 DEF sigHandlerAlrm
    <3>1. CASE currState \in Leased
      BY <2>1, <3>0, <3>1 DEF Jump, Return, Exit
    <3>2. CASE currState = "dhcpReboot"
      BY <2>1, <3>2 DEF Jump, Return, Exit
    <3> QED
      BY <2>1, <3>1, <3>2 DEF JumpStates
  <2>2. CASE \E s : Terminate(s)
    BY <1>6, <2>2
  <2>3. CASE Exit(SIGSEGV) /\ UNCHANGED <<currState, opts, env>>
    BY <2>3 DEF Exit
  <2> QED
    BY <1>7, <2>1, <2>2, <2>3 DEF sigHandlerAlrm
<1>8. ASSUME Alarm \/ KillAlrm \/ HupEnds \/ KillTerm PROVE PresentInv'
  BY <1>6, <1>7, <1>8 DEF Alarm, KillAlrm, HupEnds, KillTerm
<1>9. ASSUME KillHup \/ KillStale \/ Restart \/ Tick \/ SetClock PROVE PresentInv'
  BY <1>9 DEF KillHup, KillStale, Block, Restart, Tick, SetClock
<1>10. ASSUME NEW a, at \in Receiving, Refused(a), UNCHANGED env,
              at = "offer1" \/ opts' = opts \/ Present'
       PROVE  PresentInv'
  <2>1. CASE at = "offer1"
    BY <1>10, <2>1 DEF Refused, Return, Exit
  <2>2. CASE at = "offer2"
    BY <1>10, <2>2 DEF Refused, Block
  <2>3. CASE at = "ack"
    BY <1>10, <2>3 DEF Refused, Return, Exit
  <2> QED
    BY <1>10, <2>1, <2>2, <2>3 DEF Receiving
<1>11. ASSUME NetFails PROVE PresentInv'
  BY <1>10, <1>11 DEF NetFails
<1>12. ASSUME NEW m \in Msgs, Receive(m) PROVE PresentInv'
  <2>1. PICK o : o = parseDhcpMsgRecv(opts, m)
    OBVIOUS
  <2>2. o.lease # Absent /\ o.t1 # Absent /\ o.t2 # Absent
    BY <2>1, ParseFills DEF DataOK
  <2>3. CASE o.type = Wanted
    <3>1. Accepted(m) /\ opts' = o /\ UNCHANGED env
      BY <1>12, <2>1, <2>3 DEF Receive, Wanted
    <3> QED
      BY <1>12, <2>2, <3>1 DEF Accepted, Block, Return
  <2>4. CASE o.type # Wanted /\ o.type = "none"
    BY <1>6, <1>12, <2>1, <2>4 DEF Receive
  <2>5. CASE o.type # Wanted /\ o.type = "NAK"
    <3>1. Refused(m.yiaddr) /\ (at = "offer1" \/ opts' = o) /\ at \in Receiving /\ UNCHANGED env
      BY <1>12, <2>1, <2>5 DEF Receive
    <3> QED
      BY <1>10, <2>2, <3>1
  <2>6. CASE o.type \notin {Wanted, "none", "NAK"}
    BY <1>12, <2>1, <2>2, <2>6 DEF Receive
  <2> QED
    BY <2>3, <2>4, <2>5, <2>6
<1>13. CASE UNCHANGED vars
  BY <1>13 DEF vars
<1> QED
  BY <1>1, <1>2, <1>3, <1>4, <1>5, <1>8, <1>9, <1>11, <1>12, <1>13 DEF Next, Step, Signal

(* The options are there wherever a state function reads them. *)
LEMMA PresentAlways == Spec => []PresentInv
<1>1. Init => PresentInv
  BY DEF Init, PresentInv, HoldsWhere, Holds, Alive, Leased
<1>2. TypeOK /\ PresentInv /\ [Next]_vars => PresentInv'
  BY PresentNext DEF TypeOK
<1> QED
  BY <1>1, <1>2, TypeCorrect, PTL DEF Spec

(***************************************************************************)
(* Whatever the servers send, in whatever order, and wherever a signal     *)
(* makes sigHandler jump: the state functions of a held lease find T1, T2  *)
(* and the lease time in the store.                                        *)
(***************************************************************************)
THEOREM OptionsAlwaysPresent == Spec => []OptionsPresent
<1>1. PresentInv => OptionsPresent
  BY DEF PresentInv, Present, OptionsPresent
<1> QED
  BY <1>1, PresentAlways, PTL
-----------------------------------------------------------------------------
(***************************************************************************)
(* The address of a lease is put on the interface and, unless that fails,  *)
(* into the cache before dhcpBound is reached, and only SIGHUP and         *)
(* dhcpInit, outside a lease, change one of the three again.               *)
(***************************************************************************)
SameAddr == ifaddr = ciaddr /\ (cache = ciaddr \/ uncached)

AddrInv == Holds \/ at = "ipstart" => SameAddr

(* Every step keeps AddrInv if nobody sends SIGHUP. *)
LEMMA AddrNext ==
    ASSUME "HUP" \notin Kills
    PROVE  PresentInv /\ AddrInv /\ [Next]_vars => AddrInv'
<1> SUFFICES ASSUME PresentInv, AddrInv, [Next]_vars
             PROVE  AddrInv'
  OBVIOUS
<1> USE DEF AddrInv, SameAddr, PresentInv, HoldsWhere, Holds, Alive, Leased
<1>1. ASSUME StartFails \/ dhcpStart \/ dhcpReboot \/ dhcpInform \/ dhcpInit
      PROVE  AddrInv'
  BY <1>1 DEF StartFails, dhcpStart, dhcpReboot, dhcpInform, dhcpInit, Calls, Return, Block,
              Exit
<1>2. ASSUME Fork PROVE AddrInv'
  BY <1>2 DEF Fork, Calls, Exit, files
<1>3. ASSUME dhcpBound \/ dhcpRenew \/ dhcpRebind PROVE AddrInv'
  BY <1>3 DEF dhcpBound, dhcpRenew, dhcpRebind, Calls, ArmAndBlock, Block, Return, Exit, files
<1>4. ASSUME Stop \/ Wake \/ SigChld PROVE AddrInv'
  BY <1>4 DEF Stop, Calls, Wake, SigChld, Return, Exit, files
<1>5. ASSUME Configure \/ ConfigureFails \/ Configured PROVE AddrInv'
  BY <1>5 DEF Configure, WriteCache, ConfigureFails, Configured, Block, Return, Exit, files
<1>6. ASSUME NEW s, Terminate(s) PROVE AddrInv'
  BY <1>6 DEF Terminate, Exit
<1>7. ASSUME NEW t, sigHandlerAlrm(t) PROVE AddrInv'
  <2>1. CASE currState \in JumpStates /\ Jump(t)
    <3>0. at # "gone"
      BY <1>7 DEF sigHandlerAlrm
    <3>1. CASE currState \in Leased
      BY <2>1, <3>0, <3>1 DEF Jump, Return, Exit, files
    <3>2. CASE currState = "dhcpReboot"
      BY <2>1, <3>2 DEF Jump, Return, Exit
    <3> QED
      BY <2>1, <3>1, <3>2 DEF JumpStates
  <2>2. CASE \E s : Terminate(s)
    BY <1>6, <2>2
  <2>3. CASE Exit(SIGSEGV)
    BY <2>3 DEF Exit
  <2> QED
    BY <1>7, <2>1, <2>2, <2>3 DEF sigHandlerAlrm
<1>8. ASSUME Alarm \/ KillAlrm \/ HupEnds \/ KillTerm PROVE AddrInv'
  BY <1>6, <1>7, <1>8 DEF Alarm, KillAlrm, HupEnds, KillTerm
<1>9. ASSUME KillHup \/ KillStale \/ Restart \/ Tick \/ SetClock PROVE AddrInv'
  BY <1>9 DEF KillHup, KillStale, Restart, Tick, SetClock, files
<1>10. ASSUME NEW a, at \in Receiving, Refused(a), UNCHANGED <<ifaddr, cache, uncached>>
       PROVE  AddrInv'
  <2>1. CASE at = "offer1"
    BY <1>10, <2>1 DEF Refused, Return, Exit
  <2>2. CASE at = "offer2"
    BY <1>10, <2>2 DEF Refused, Block
  <2>3. CASE at = "ack"
    BY <1>10, <2>3 DEF Refused, Return, Exit
  <2> QED
    BY <1>10, <2>1, <2>2, <2>3 DEF Receiving
<1>11. ASSUME NetFails PROVE AddrInv'
  BY <1>10, <1>11 DEF NetFails
<1>12. ASSUME NEW m \in Msgs, Receive(m) PROVE AddrInv'
  <2>1. PICK o : o = parseDhcpMsgRecv(opts, m)
    OBVIOUS
  <2>2. CASE o.type = Wanted
    <3>1. Accepted(m) /\ UNCHANGED <<ifaddr, cache, uncached>>
      BY <1>12, <2>1, <2>2 DEF Receive, Wanted, files
    <3> QED
      BY <1>12, <3>1 DEF Accepted, Block, Return
  <2>3. CASE o.type # Wanted /\ o.type = "none"
    BY <1>6, <1>12, <2>1, <2>3 DEF Receive
  <2>4. CASE o.type # Wanted /\ o.type = "NAK"
    <3>1. Refused(m.yiaddr) /\ at \in Receiving /\ UNCHANGED <<ifaddr, cache, uncached>>
      BY <1>12, <2>1, <2>4 DEF Receive
    <3> QED
      BY <1>10, <3>1
  <2>5. CASE o.type \notin {Wanted, "none", "NAK"}
    BY <1>12, <2>1, <2>5 DEF Receive, files
  <2> QED
    BY <2>2, <2>3, <2>4, <2>5
<1>13. CASE UNCHANGED vars
  BY <1>13 DEF vars, files
<1> QED
  BY <1>1, <1>2, <1>3, <1>4, <1>5, <1>8, <1>9, <1>11, <1>12, <1>13 DEF Next, Step, Signal

(***************************************************************************)
(* Without SIGHUP, the address that is renewed is the one on the interface *)
(* and, unless its last write failed, in the cache: for all servers,       *)
(* messages, faults and other signals.                                     *)
(***************************************************************************)
THEOREM LeasedIsConfigured ==
    ASSUME "HUP" \notin Kills
    PROVE  Spec => []ConfiguredIsLeased
<1>1. Init => AddrInv
  BY DEF Init, AddrInv, Holds, Leased
<1>2. PresentInv /\ AddrInv /\ [Next]_vars => AddrInv'
  BY AddrNext
<1>3. AddrInv => ConfiguredIsLeased
  BY DEF AddrInv, SameAddr, ConfiguredIsLeased
<1> QED
  BY <1>1, <1>2, <1>3, PresentAlways, PTL DEF Spec
-----------------------------------------------------------------------------
(***************************************************************************)
(* No lease is taken for expired before its time.  When main is about to   *)
(* call dhcpRebind, env is that of dhcpRenew, so that a signal does not    *)
(* jump past the deadline of dhcpRebind.                                   *)
(***************************************************************************)
JumpInv ==
    /\ at = "ack" /\ currState = "dhcpRenew" => env = "dhcpRenew"
    /\ Calls("dhcpRebind") => env = "dhcpRenew"

(* Every step keeps JumpInv. *)
LEMMA JumpNext == PresentInv /\ JumpInv /\ [Next]_vars => JumpInv'
<1> SUFFICES ASSUME PresentInv, JumpInv, [Next]_vars
             PROVE  JumpInv'
  OBVIOUS
<1> USE DEF JumpInv, Calls, PresentInv, HoldsWhere, Holds, Alive, Leased
<1>1. ASSUME StartFails \/ dhcpStart \/ dhcpReboot \/ dhcpInform \/ dhcpInit
      PROVE  JumpInv'
  BY <1>1 DEF StartFails, dhcpStart, dhcpReboot, dhcpInform, dhcpInit, Return, Block, Exit
<1>2. ASSUME Fork PROVE JumpInv'
  BY <1>2 DEF Fork, Exit
<1>3. ASSUME dhcpBound \/ dhcpRenew \/ dhcpRebind PROVE JumpInv'
  BY <1>3 DEF dhcpBound, dhcpRenew, dhcpRebind, ArmAndBlock, Block, Return, Exit
<1>4. ASSUME Stop \/ Wake \/ SigChld PROVE JumpInv'
  BY <1>4 DEF Stop, Wake, SigChld, Return, Exit
<1>5. ASSUME Configure \/ ConfigureFails \/ Configured PROVE JumpInv'
  BY <1>5 DEF Configure, ConfigureFails, Configured, Block, Return, Exit
<1>6. ASSUME NEW s, Terminate(s) PROVE JumpInv'
  BY <1>6 DEF Terminate, Exit
<1>7. ASSUME NEW t, sigHandlerAlrm(t) PROVE JumpInv'
  <2>1. CASE currState \in JumpStates /\ Jump(t)
    BY <2>1 DEF Jump, Return, Exit
  <2>2. CASE \E s : Terminate(s)
    BY <1>6, <2>2
  <2>3. CASE Exit(SIGSEGV) /\ UNCHANGED <<currState, env>>
    BY <2>3 DEF Exit
  <2> QED
    BY <1>7, <2>1, <2>2, <2>3 DEF sigHandlerAlrm
<1>8. ASSUME Alarm \/ KillAlrm \/ HupEnds \/ KillTerm PROVE JumpInv'
  BY <1>6, <1>7, <1>8 DEF Alarm, KillAlrm, HupEnds, KillTerm
<1>9. ASSUME KillHup \/ KillStale \/ Restart \/ Tick \/ SetClock PROVE JumpInv'
  <2>1. ASSUME Restart PROVE JumpInv'
    BY <2>1, ClientAssumption DEF Restart
  <2> QED
    BY <1>9, <2>1 DEF KillHup, KillStale, Block, Tick, SetClock
<1>10. ASSUME NEW a, at \in Receiving, Refused(a), UNCHANGED env
       PROVE  JumpInv'
  BY <1>10 DEF Refused, Receiving, Return, Block, Exit
<1>11. ASSUME NetFails PROVE JumpInv'
  BY <1>10, <1>11 DEF NetFails
<1>12. ASSUME NEW m \in Msgs, Receive(m) PROVE JumpInv'
  <2>1. PICK o : o = parseDhcpMsgRecv(opts, m)
    OBVIOUS
  <2>2. CASE o.type = Wanted
    <3>1. Accepted(m) /\ UNCHANGED env /\ at \in Receiving
      BY <1>12, <2>1, <2>2 DEF Receive, Wanted
    <3> QED
      BY <3>1 DEF Accepted, Block, Return
  <2>3. CASE o.type # Wanted /\ o.type = "none"
    BY <1>6, <1>12, <2>1, <2>3 DEF Receive
  <2>4. CASE o.type # Wanted /\ o.type = "NAK"
    <3>1. Refused(m.yiaddr) /\ at \in Receiving /\ UNCHANGED env
      BY <1>12, <2>1, <2>4 DEF Receive
    <3> QED
      BY <1>10, <3>1
  <2>5. CASE o.type \notin {Wanted, "none", "NAK"}
    BY <1>12, <2>1, <2>5 DEF Receive
  <2> QED
    BY <2>2, <2>3, <2>4, <2>5
<1>13. CASE UNCHANGED vars
  BY <1>13 DEF vars
<1> QED
  BY <1>1, <1>2, <1>3, <1>4, <1>5, <1>8, <1>9, <1>11, <1>12, <1>13 DEF Next, Step, Signal

(* A deadline that is not read as lying ahead has passed, or is 2^31       *)
(* seconds away or more.                                                   *)
LEMMA NotAhead ==
    ASSUME NEW t \in Nat, NEW a \in Nat, NEW s \in -MaxSkew .. MaxSkew,
           ~(Remaining(t, a + s) > 0)
    PROVE  a + MaxSkew >= t \/ t - (a + s) >= Half
<1> DEFINE n == t - (a + s)
<1>1. n \in Int /\ Word \in Nat \ {0} /\ Word = 2 * Half /\ Half \in Nat
  BY DEF Word
<1>2. ASSUME n > 0, n < Half PROVE FALSE
  <2>1. n % Word = n
    BY <1>1, <1>2
  <2> QED
    BY <1>1, <1>2, <2>1 DEF Remaining
<1> QED
  BY <1>1, <1>2

(***************************************************************************)
(* For all messages, signals and clocks: dhcpRebind sends the client to    *)
(* dhcpStop only when the lease is over, but for what the wall clock was   *)
(* set ahead, or when what is left of it does not fit an int.              *)
(***************************************************************************)
THEOREM NeverExpiresEarly == Spec => NoEarlyExpiry
<1>1. Init => JumpInv
  BY DEF Init, JumpInv, Calls
<1>2. PresentInv /\ JumpInv /\ [Next]_vars => JumpInv'
  BY JumpNext
<1>3. TypeOK /\ PresentInv /\ JumpInv /\ [Next]_vars =>
        [Calls("dhcpRebind") /\ currState' = "dhcpStop"
           => age + MaxSkew >= opts.lease \/ LeftOverflows]_vars
  <2> SUFFICES ASSUME DataOK, PresentInv, JumpInv, Next, Calls("dhcpRebind"),
                      currState' = "dhcpStop"
               PROVE  age + MaxSkew >= opts.lease \/ LeftOverflows
    BY DEF TypeOK
  <2>1. at = "main" /\ currState = "dhcpRebind" /\ env = "dhcpRenew"
    BY DEF JumpInv, Calls
  <2>2. dhcpRebind
    <3>1. ASSUME NEW t, sigHandlerAlrm(t) PROVE FALSE
      BY <2>1, <3>1 DEF sigHandlerAlrm, Jump, Return, Terminate, JumpStates, Leased
    <3>2. ~Alarm /\ ~KillAlrm
      BY <3>1 DEF Alarm, KillAlrm
    <3>3. ~(HupEnds \/ KillTerm \/ KillHup \/ KillStale \/ SigChld \/ Restart \/ Tick \/ SetClock)
      BY <2>1 DEF HupEnds, KillTerm, Terminate, KillHup, Block, KillStale, SigChld, Restart,
                  Tick, SetClock
    <3>4. ~NetFails /\ ~(\E m \in Msgs : Receive(m))
      BY <2>1 DEF NetFails, Receive, Receiving
    <3> QED
      BY <2>1, <3>2, <3>3, <3>4
      DEF Next, Step, Signal, StartFails, dhcpStart, dhcpReboot, dhcpInform, dhcpInit, Fork,
          dhcpBound, dhcpRenew, Stop, Wake, Configure, ConfigureFails, Configured, Calls
  <2>3. ~(Remaining(opts.lease, age + skew) > 0)
    BY <2>1, <2>2 DEF dhcpRebind, ArmAndBlock, Block
  <2>4. opts.lease \in Nat
    <3>1. opts.lease # Absent
      BY <2>1 DEF PresentInv, Present, Holds, Alive, Leased
    <3>2. opts.lease \in {Absent} \cup (0 .. Infinite)
      BY DEF DataOK, Options
    <3> QED
      BY <3>1, <3>2
  <2>5. age \in Nat /\ skew \in -MaxSkew .. MaxSkew
    BY DEF DataOK
  <2> QED
    BY <2>3, <2>4, <2>5, NotAhead DEF LeftOverflows
<1> QED
  BY <1>1, <1>2, <1>3, PresentAlways, TypeCorrect, PTL DEF Spec, NoEarlyExpiry
=============================================================================
