------------------------- MODULE TimeKeepingProofs -------------------------
(***************************************************************************)
(* Proofs about crond and ntpdate on the clock they share: types for every *)
(* choice of events; no minute is looked at twice as long as ntpdate does  *)
(* not move the clock; the legal time while nothing but crond moves it;    *)
(* how far off ntpdate may leave the clock, whatever moves it meanwhile.   *)
(***************************************************************************)
EXTENDS TimeKeeping, TLAPS

(* Quotient and remainder by the length of a minute. *)
LEMMA DivMod ==
    ASSUME NEW x \in Int
    PROVE  /\ MinuteOf(x) \in Int /\ x % Minute \in 0 .. Minute - 1
           /\ x = Minute * MinuteOf(x) + (x % Minute)
BY ClockAssumption DEF MinuteOf

(* A time on a minute is a number of minutes. *)
LEMMA Exact ==
    ASSUME NEW a \in Int, a % Minute = 0
    PROVE  MinuteOf(a) \in Int /\ a = Minute * MinuteOf(a)
<1>1. MinuteOf(a) \in Int /\ a = Minute * MinuteOf(a) + 0
  BY DivMod
<1>. QED
  BY <1>1, ClockAssumption

(* Minutes and the rest of a time are unique. *)
LEMMA Unique ==
    ASSUME NEW q \in Int, NEW r \in 0 .. Minute - 1,
           NEW p \in Int, NEW s \in 0 .. Minute - 1,
           Minute * q + r = Minute * p + s
    PROVE  q = p /\ r = s
BY ClockAssumption

(* Order of minutes from the order of times. *)
LEMMA MinuteLess ==
    ASSUME NEW a \in Int, NEW b \in Int, Minute * a < Minute * b
    PROVE  a < b
BY ClockAssumption

(* Sums and differences of minutes. *)
LEMMA Spread ==
    ASSUME NEW a \in Int, NEW b \in Int
    PROVE  /\ Minute * (a + b) = Minute * a + Minute * b
           /\ Minute * (a - b) = Minute * a - Minute * b
           /\ Minute * (a + 1) = Minute * a + Minute
           /\ Minute * a \in Int
BY ClockAssumption

(* A minute is over when the next one begins. *)
LEMMA MinuteBound ==
    ASSUME NEW x \in Int, NEW k \in Int
    PROVE  /\ x < Minute * (k + 1) => MinuteOf(x) <= k
           /\ x >= Minute * k => MinuteOf(x) >= k
<1> DEFINE q == MinuteOf(x)
           r == x % Minute
<1>1. q \in Int /\ r \in 0 .. Minute - 1 /\ x = Minute * q + r
  BY DivMod
<1>2. Minute \in Nat /\ Minute * q \in Int /\ Minute * k \in Int /\ Minute * (k + 1) \in Int
  BY <1>1, ClockAssumption
<1>3. Minute * (q + 1) = Minute * q + Minute /\ Minute * (q + 1) \in Int
  BY <1>1, ClockAssumption
<1> HIDE DEF q, r
<1>4. ASSUME x < Minute * (k + 1) PROVE q <= k
  <2>1. Minute * q < Minute * (k + 1)
    BY <1>1, <1>2, <1>4
  <2>2. q < k + 1
    BY ONLY <2>1, MinuteLess, <1>1, k + 1 \in Int
  <2>. QED
    BY <2>2, <1>1
<1>5. ASSUME x >= Minute * k PROVE q >= k
  <2>1. Minute * k < Minute * (q + 1)
    BY <1>1, <1>2, <1>3, <1>5
  <2>2. k < q + 1
    BY ONLY <2>1, MinuteLess, <1>1, q + 1 \in Int
  <2>. QED
    BY <2>2, <1>1
<1>. QED
  BY <1>4, <1>5 DEF q

(* Multiples of a minute. *)
LEMMA Multiple ==
    ASSUME NEW a \in Int, NEW b \in Int, a % Minute = 0, b % Minute = 0
    PROVE  /\ (a + b) % Minute = 0
           /\ a < b => a + Minute <= b
<1> DEFINE p == MinuteOf(a)
           q == MinuteOf(b)
<1>1. p \in Int /\ q \in Int /\ a = Minute * p /\ b = Minute * q
  BY Exact
<1>2. Minute * (p + q) = Minute * p + Minute * q
  BY <1>1, Spread
<1>3. Minute * (p + 1) = Minute * p + Minute /\ Minute * p \in Int /\ Minute * q \in Int
  BY <1>1, Spread
<1> HIDE DEF p, q
<1>4. (a + b) % Minute = 0
  <2> DEFINE u == MinuteOf(a + b)
             v == (a + b) % Minute
  <2>1. u \in Int /\ v \in 0 .. Minute - 1 /\ a + b = Minute * u + v
    BY DivMod
  <2> HIDE DEF u, v
  <2>2. Minute * u + v = Minute * (p + q) + 0
    BY <2>1, <1>1, <1>2, <1>3, Spread
  <2>3. 0 \in 0 .. Minute - 1 /\ p + q \in Int
    BY <1>1, ClockAssumption
  <2>4. v = 0
    BY ONLY <2>1, <2>2, <2>3, Unique
  <2>. QED
    BY <2>4 DEF v
<1>5. ASSUME a < b PROVE a + Minute <= b
  <2>1. p < q
    BY ONLY <1>5, <1>1, MinuteLess
  <2>2. p + 1 <= q
    BY <2>1, <1>1
  <2>3. CASE p + 1 = q
    BY <2>3, <1>1, <1>3, ClockAssumption
  <2>4. CASE p + 1 < q
    <3>1. Minute * (p + 1) <= Minute * q
      BY <2>4, <1>1, ClockAssumption
    <3>. QED
      BY <3>1, <1>1, <1>3, ClockAssumption
  <2>. QED
    BY <2>2, <2>3, <2>4, <1>1
<1>. QED
  BY <1>4, <1>5

(* Where the minute of x begins. *)
LEMMA Floor ==
    ASSUME NEW a \in Int, a % Minute = 0, NEW x \in Int, a <= x, x < a + Minute
    PROVE  x - (x % Minute) = a
<1> DEFINE p == MinuteOf(a)
           q == MinuteOf(x)
           r == x % Minute
           s == x - a
<1>1. /\ p \in Int /\ q \in Int /\ a = Minute * p
      /\ r \in 0 .. Minute - 1 /\ x = Minute * q + r
  BY DivMod, Exact
<1>2. s \in 0 .. Minute - 1 /\ x = a + s
  BY ClockAssumption
<1> HIDE DEF p, q, r, s
<1>3. Minute * q + r = Minute * p + s
  BY <1>1, <1>2, Spread
<1>4. r = s
  BY ONLY <1>1, <1>2, <1>3, Unique
<1>. QED
  BY <1>2, <1>4 DEF r

(* The turns of summer time fall on a minute. *)
LEMMA HourMultiple ==
    ASSUME NEW x \in Nat, x % Hour = 0
    PROVE  x % Minute = 0
<1>1. PICK h \in Int : Hour = Minute * h
  BY Exact, ClockAssumption
<1> DEFINE k == x \div Hour
<1>2. k \in Int /\ x = Hour * k
  BY ClockAssumption
<1> HIDE DEF k
<1>3. x = Minute * (h * k) /\ h * k \in Int
  BY <1>1, <1>2, ClockAssumption
<1>4. MinuteOf(x) \in Int /\ x % Minute \in 0 .. Minute - 1 /\ x = Minute * MinuteOf(x) + (x % Minute)
  BY DivMod
<1>5. Minute * MinuteOf(x) + (x % Minute) = Minute * (h * k) + 0
  BY <1>3, <1>4
<1>6. 0 \in 0 .. Minute - 1
  BY ClockAssumption
<1>. QED
  BY ONLY <1>3, <1>4, <1>5, <1>6, Unique
----------------------------------------------------------------------------
(* Types. *)

(* Two times and the distance between them. *)
LEMMA Distances ==
    \A x \in Int, y \in Int :
        /\ Distance(x, y) \in Nat
        /\ x <= y + Distance(x, y) /\ y <= x + Distance(x, y)
BY DEF Distance

(* The distance is no more than what bounds it both ways. *)
LEMMA Within ==
    ASSUME NEW x \in Int, NEW y \in Int, NEW d \in Int, x <= y + d, y <= x + d
    PROVE  Distance(x, y) <= d
BY DEF Distance

(* A change of the clock keeps the types. *)
LEMMA ChangesTypes ==
    ASSUME TypeOK, Changes
    PROVE  wall' \in Int /\ summer_chg' \in BOOLEAN
<1>1. wall' = wall \/ wall' = wall + Hour \/ wall' = wall + (-Hour)
  BY Zenon DEF Changes, set_rtc
<1>2. summer_chg' = summer_chg \/ summer_chg' = TRUE \/ summer_chg' = FALSE
  BY Zenon DEF Changes
<1>3. wall' \in Int
  BY <1>1, ClockAssumption DEF TypeOK
<1>. QED
  BY <1>2, <1>3 DEF TypeOK

(* The time crond sleeps is a number. *)
LEMMA DelayType ==
    ASSUME TypeOK
    PROVE  Delay \in Int
<1>1. \A x \in Int : x % Minute \in Int
  BY DivMod
<1>2. t + Minute - (t % Minute) - wall \in Int /\ Minute \in Int
  BY <1>1, ClockAssumption DEF TypeOK
<1>. QED
  BY <1>1, <1>2 DEF Delay

(* Every step keeps the types. *)
LEMMA TypeStep ==
    ASSUME TypeOK, [Next]_vars
    PROVE  TypeOK'
<1>1. ASSUME CrondStep PROVE TypeOK'
  <2>0. wall' \in Int
    BY <1>1, ChangesTypes DEF TypeOK, CrondStep, Wakes, Runs, clock
  <2>a. moved' \in Nat /\ sent' \in Nat
    <3>1. Distance(wall', wall) \in Nat
      BY <2>0, Distances DEF TypeOK
    <3>. QED
      BY <1>1, <3>1 DEF TypeOK, CrondStep
  <2>1. CASE Wakes
    BY <1>1, <2>a, <2>1 DEF TypeOK, CrondStep, Wakes, clock, table, ntp
  <2>2. CASE Changes
    BY <1>1, <2>a, <2>2, ChangesTypes DEF TypeOK, CrondStep, Changes, table, ntp
  <2>3. CASE Runs
    <3>1. last' \in Int
      BY <2>3, DivMod DEF TypeOK, Runs, check_runs
    <3>2. wake' \in Int
      BY <2>3, DelayType DEF TypeOK, Runs
    <3>3. tasklist' \in Versions \cup {Skeleton} /\ file_mtime' \in Int
      BY <2>3 DEF TypeOK, Runs, load_file
    <3>. QED
      BY <1>1, <2>a, <2>3, <3>1, <3>2, <3>3 DEF TypeOK, CrondStep, Runs, clock, ntp
  <2>. QED
    BY <1>1, <2>1, <2>2, <2>3 DEF CrondStep
<1>2. ASSUME NtpStep PROVE TypeOK'
  <2>0. UNCHANGED <<crond, table>>
    BY <1>2 DEF NtpStep
  <2>1. CASE Queries
    BY <2>0, <2>1, NtpAssumption DEF TypeOK, Queries, send_query, clock, crond, table
  <2>2. CASE get_response /\ UNCHANGED exchange
    <3>1. PICK a \in air : t3' = a.t3 /\ td' = Halved((a.t3 - t1) + (a.t3 - wall))
      BY <2>2 DEF get_response
    <3>2. a.t3 \in Int
      BY <3>1 DEF TypeOK
    <3>3. td' \in Int /\ t3' \in Int
      BY <3>1, <3>2 DEF TypeOK, Halved
    <3>. QED
      BY <2>0, <2>2, <3>3 DEF TypeOK, get_response, clock, crond, table, exchange
  <2>3. CASE NoResponse /\ UNCHANGED exchange
    <3>1. /\ ns' = "idle" /\ i' \in 0 .. (Tries - 1) /\ due' \in Nat
          /\ asked' \subseteq asked /\ air' \subseteq air
      BY <2>3, NtpAssumption DEF TypeOK, NoResponse, Done, Tries
    <3>. QED
      BY <2>0, <2>3, <3>1 DEF TypeOK, NoResponse, clock, crond, table, exchange
  <2>4. CASE SetTime /\ UNCHANGED exchange
    <3>1. wall' \in Int
      BY <2>4, ClockAssumption DEF TypeOK, SetTime, SETRTCTIME, WithSummer
    <3>. QED
      BY <2>0, <2>4, <3>1, NtpAssumption
      DEF TypeOK, SetTime, SETRTCTIME, Done, Tries, crond, table, exchange
  <2>5. CASE Answers /\ UNCHANGED exchange
    <3>1. PICK o \in asked : /\ asked' = asked \ {o}
                             /\ air' = air \cup {[orig |-> o, t3 |-> now]}
      BY <2>5 DEF Answers
    <3>2. air' \subseteq [orig : Int, t3 : Int] /\ asked' \subseteq Int
      BY <3>1 DEF TypeOK
    <3>. QED
      BY <2>0, <2>5, <3>2 DEF TypeOK, Answers, clock, crond, table, exchange
  <2>6. CASE NoSocket /\ UNCHANGED exchange
    BY <2>0, <2>6, NtpAssumption
    DEF TypeOK, NoSocket, Done, Tries, clock, crond, table, exchange
  <2>. QED
    BY <1>2, <2>1, <2>2, <2>3, <2>4, <2>5, <2>6 DEF NtpStep
<1>3. ASSUME Restarts PROVE TypeOK'
  <2>1. summer_chg' \in BOOLEAN
    BY <1>3 DEF TypeOK, Restarts, Restart, Boot, daylight_saving
  <2>2. dsv' \in BOOLEAN
    BY <1>3 DEF Restarts, Restart, Boot
  <2>3. /\ now' = now /\ wall' = wall /\ cs' = "sleep" /\ t' = 0 /\ wake' = now
        /\ last' = -1 /\ crontab' = Skeleton /\ mtime' = wall
        /\ tasklist' = Skeleton /\ file_mtime' = -1 /\ UNCHANGED <<ntp, exchange>>
    BY <1>3 DEF Restarts, Restart, Boot, Never
  <2>. QED
    BY <2>1, <2>2, <2>3 DEF TypeOK, ntp, exchange
<1>4. ASSUME Edits PROVE TypeOK'
  BY <1>4 DEF TypeOK, Edits, Edit, clock, crond, ntp, exchange
<1>5. ASSUME Tick PROVE TypeOK'
  BY <1>5, ClockAssumption DEF TypeOK, Tick, Passes, crond, table, ntp, exchange
<1>6. ASSUME UNCHANGED vars PROVE TypeOK'
  BY <1>6 DEF TypeOK, vars, clock, crond, table, ntp, exchange
<1>. QED
  BY <1>1, <1>2, <1>3, <1>4, <1>5, <1>6 DEF Next, Over

(* The initial state has its types. *)
LEMMA TypeInit == Init => TypeOK
<1> SUFFICES ASSUME Init PROVE TypeOK
  OBVIOUS
<1>1. now \in 0 .. Horizon /\ wall \in Int /\ wake \in Int /\ mtime \in Int
  BY ClockAssumption, EventAssumption DEF Init, CrondInit
<1>2. summer_chg \in BOOLEAN /\ dsv \in BOOLEAN
  BY DEF Init, CrondInit, daylight_saving
<1>3. due \in Nat
  BY ClockAssumption DEF Init, NtpInit
<1>4. last \in Int /\ file_mtime \in Int /\ t \in Int /\ cs = "sleep"
  BY DEF Init, CrondInit, Never
<1>. QED
  BY <1>1, <1>2, <1>3, <1>4 DEF Init, CrondInit, NtpInit, TypeOK, Tries

(***************************************************************************)
(* The variables of crond and ntpdate keep their types, whatever happens   *)
(* to the clock and however often crond is started again.                  *)
(***************************************************************************)
THEOREM TypeCorrect == Spec => []TypeOK
<1>1. TypeOK /\ [Next]_vars => TypeOK'
  BY TypeStep
<1>. QED
  BY <1>1, TypeInit, PTL DEF Spec
----------------------------------------------------------------------------
(* The steps of crond, case by case. *)

(* Changes leaves the clock alone, sets it back or sets it ahead. *)
LEMMA ChangesCases ==
    ASSUME TypeOK, Changes
    PROVE  \/ /\ wall' = wall /\ (summer_chg' <=> summer_chg)
              /\ DaySaving => (daylight_saving(t) <=> dsv)
           \/ /\ DaySaving /\ dsv /\ ~daylight_saving(t)
              /\ wall' = wall - Hour /\ ~summer_chg'
           \/ /\ DaySaving /\ ~dsv /\ daylight_saving(t)
              /\ wall' = wall + Hour /\ summer_chg'
<1> DEFINE ds == daylight_saving(t)
<1>1. (ds # dsv) <=> ~(ds <=> dsv)
  <2>1. ds \in BOOLEAN
    BY DEF daylight_saving
  <2>2. dsv \in BOOLEAN
    BY DEF TypeOK
  <2> HIDE DEF ds
  <2>. QED
    BY <2>1, <2>2, Zenon
<1>2. Changes => IF DaySaving /\ ds # dsv
                 THEN IF dsv THEN wall' = wall + (-Hour) /\ summer_chg' = FALSE
                             ELSE wall' = wall + Hour /\ summer_chg' = TRUE
                 ELSE wall' = wall /\ summer_chg' = summer_chg
  BY Zenon DEF Changes, set_rtc, ds
<1>3. wall + (-Hour) = wall - Hour
  BY ClockAssumption DEF TypeOK
<1> HIDE DEF ds
<1>4. CASE DaySaving /\ ds # dsv
  <2>1. CASE dsv
    BY <1>1, <1>2, <1>3, <1>4, <2>1, Zenon DEF ds
  <2>2. CASE ~dsv
    BY <1>1, <1>2, <1>4, <2>2, Zenon DEF ds
  <2>. QED
    BY <2>1, <2>2
<1>5. CASE ~(DaySaving /\ ds # dsv)
  BY <1>1, <1>2, <1>5, Zenon DEF ds
<1>. QED
  BY <1>4, <1>5

(* The sleep ends at the start of a minute after that of t. *)
LEMMA DelayPast ==
    ASSUME TypeOK
    PROVE  /\ Delay \in Nat \ {0}
           /\ wall + Delay >= Minute * (MinuteOf(t) + 1)
<1> DEFINE r == t % Minute
           q == MinuteOf(t)
           d == t + Minute - r - wall
           e == d % Minute
<1>1. r \in 0 .. Minute - 1 /\ q \in Int /\ t = Minute * q + r
  BY DivMod DEF TypeOK
<1>2. Minute * (q + 1) = Minute * q + Minute /\ Minute * q \in Int
  BY <1>1, Spread
<1>3. d \in Int /\ t \in Int /\ wall \in Int /\ Minute \in Nat \ {0}
  BY <1>1, ClockAssumption DEF TypeOK
<1>4. e \in 0 .. Minute - 1
  BY <1>3, DivMod
<1>5. Delay = IF d > 0 THEN d ELSE IF e > 0 THEN e ELSE Minute
  BY DEF Delay
<1> HIDE DEF r, q
<1>6. d = Minute * (q + 1) - wall
  BY <1>1, <1>2, <1>3
<1> HIDE DEF d, e
<1>. QED
  BY <1>2, <1>3, <1>4, <1>5, <1>6, <1>1 DEF q
----------------------------------------------------------------------------
(***************************************************************************)
(* No minute twice.  What makes NeverRerun inductive: the time on the      *)
(* clock when the sleep ends lies past the last minute looked at, which    *)
(* stays true while clock and time pass together; and summer_chg is only   *)
(* set on a clock past Start, so that the clock is never set back before   *)
(* the time it started from.                                               *)
(***************************************************************************)
SleepsPast == wall + (wake - now) >= Minute * (last + 1)

RerunInv ==
    /\ TypeOK
    /\ wall >= 0
    /\ summer_chg => wall >= Start
    /\ cs = "sleep" => SleepsPast
    /\ NeverRerun
    /\ cs = "dst" => (dsv <=> summer_chg) /\ t <= wall /\ (dsv => t >= Start)

(* RerunInv holds at the start. *)
LEMMA RerunInit ==
    ASSUME Init, Errors \subseteq Nat
    PROVE  RerunInv
<1>1. TypeOK
  BY TypeInit
<1>2. /\ wall \in Nat /\ now = 0 /\ wake = 0 /\ last = -1 /\ cs = "sleep"
      /\ summer_chg => wall >= Start
  BY ClockAssumption DEF Init, CrondInit, Never, daylight_saving
<1>3. Minute * (last + 1) = 0
  BY <1>2, ClockAssumption
<1>. QED
  BY <1>1, <1>2, <1>3 DEF RerunInv, SleepsPast, NeverRerun

(* Every step but those of ntpdate keeps RerunInv. *)
LEMMA RerunStep ==
    ASSUME RerunInv, [Next]_vars, "ntp" \notin Events
    PROVE  RerunInv'
<1>0. TypeOK' /\ TypeOK
  BY TypeStep DEF RerunInv
<1>1. ASSUME Wakes PROVE RerunInv'
  <2>1. /\ cs = "sleep" /\ now >= wake /\ cs' = "dst" /\ t' = wall /\ last' = last
        /\ wall' = wall
    BY <1>1 DEF Wakes, clock
  <2>2. (summer_chg' <=> summer_chg) /\ (dsv' <=> summer_chg)
    BY <1>1 DEF Wakes, clock
  <2>3. Minute * (last + 1) \in Int /\ last + 1 \in Int
    BY <1>0, ClockAssumption DEF TypeOK
  <2>4. wall >= Minute * (last + 1)
    BY <2>1, <2>3, <1>0 DEF RerunInv, SleepsPast, TypeOK
  <2>5. MinuteOf(wall) >= last + 1 /\ MinuteOf(wall) \in Int
    BY <2>3, <2>4, <1>0, MinuteBound, DivMod DEF TypeOK
  <2>6. NeverRerun'
    BY <2>1, <2>5, <1>0 DEF NeverRerun, TypeOK, MinuteOf
  <2>7. t' <= wall'
    BY <2>1, <1>0 DEF TypeOK
  <2>8. wall' >= 0 /\ (summer_chg' => wall' >= Start) /\ (dsv' => t' >= Start)
    BY <2>1, <2>2 DEF RerunInv
  <2>. QED
    BY <2>1, <2>2, <2>6, <2>7, <2>8, <1>0 DEF RerunInv
<1>2. ASSUME Changes PROVE RerunInv'
  <2>1. cs = "dst" /\ cs' = "run" /\ t' = t /\ last' = last
    BY <1>2 DEF Changes
  <2>2. NeverRerun'
    BY <2>1 DEF RerunInv, NeverRerun, MinuteOf
  <2>3. wall' >= 0 /\ (summer_chg' => wall' >= Start)
    <3>1. /\ wall \in Int /\ t \in Int /\ Hour \in Nat /\ Start \in Nat /\ End \in Int
          /\ Start + 2 * Hour <= End /\ t <= wall /\ wall >= 0
      BY <2>1, ClockAssumption DEF TypeOK, RerunInv
    <3>2. summer_chg => wall >= Start
      BY DEF RerunInv
    <3>3. dsv => t >= Start
      BY <2>1 DEF RerunInv
    <3>4. CASE wall' = wall /\ (summer_chg' <=> summer_chg)
      BY <3>1, <3>2, <3>4
    <3>5. CASE dsv /\ ~daylight_saving(t) /\ wall' = wall - Hour /\ ~summer_chg'
      <4>1. t >= End
        BY <3>1, <3>3, <3>5 DEF daylight_saving
      <4>. QED
        BY <4>1, <3>1, <3>5
    <3>6. CASE daylight_saving(t) /\ wall' = wall + Hour
      BY <3>1, <3>6 DEF daylight_saving
    <3>. QED
      BY <1>0, <1>2, <3>4, <3>5, <3>6, ChangesCases
  <2>. QED
    BY <2>1, <2>2, <2>3, <1>0 DEF RerunInv
<1>3. ASSUME Runs PROVE RerunInv'
  <2>1. /\ cs' = "sleep" /\ last' = MinuteOf(t) /\ wake' = now + Delay
        /\ now' = now /\ wall' = wall
    BY <1>3 DEF Runs, check_runs, clock
  <2>2. summer_chg' <=> summer_chg
    BY <1>3 DEF Runs, clock
  <2>3. /\ Delay \in Nat \ {0} /\ wall + Delay >= Minute * (MinuteOf(t) + 1)
        /\ Minute * (MinuteOf(t) + 1) \in Int
    <3>1. t \in Int
      BY <1>0 DEF TypeOK
    <3>2. MinuteOf(t) + 1 \in Int
      BY <3>1, DivMod
    <3>3. Minute * (MinuteOf(t) + 1) \in Int
      BY <3>2, Spread
    <3>. QED
      BY <1>0, <3>3, DelayPast
  <2>4. SleepsPast'
    BY <2>1, <2>3, <1>0 DEF SleepsPast, TypeOK
  <2>. QED
    BY <2>1, <2>2, <2>4, <1>0 DEF RerunInv, NeverRerun
<1>4. ASSUME Restarts PROVE RerunInv'
  <2>1. cs' = "sleep" /\ wake' = now /\ now' = now /\ wall' = wall /\ last' = -1
    BY <1>4 DEF Restarts, Restart, Boot, Never
  <2>2. summer_chg' => summer_chg \/ wall >= Start
    BY <1>4, <1>0 DEF Restarts, Restart, Boot, daylight_saving, TypeOK
  <2>3. wall >= 0 /\ (summer_chg' => wall >= Start)
    BY <2>2 DEF RerunInv
  <2>4. Minute * (last' + 1) = 0
    BY <2>1, ClockAssumption
  <2>5. SleepsPast'
    BY <2>1, <2>3, <2>4, <1>0 DEF SleepsPast, TypeOK
  <2>. QED
    BY <2>1, <2>3, <2>5, <1>0 DEF RerunInv, NeverRerun
<1>5. ASSUME Tick PROVE RerunInv'
  <2>1. /\ now' = now + 1 /\ wall' = wall + 1 /\ wake' = wake /\ last' = last
        /\ cs' = cs /\ t' = t
    BY <1>5 DEF Tick, Passes, crond
  <2>2. (summer_chg' <=> summer_chg) /\ (dsv' <=> dsv)
    BY <1>5 DEF Tick, Passes, crond
  <2>3. wall' >= 0 /\ (summer_chg' => wall' >= Start)
    BY <2>1, <2>2, <1>0, ClockAssumption DEF RerunInv, TypeOK
  <2>4. SleepsPast => SleepsPast'
    BY <2>1, <1>0 DEF SleepsPast, TypeOK
  <2>5. cs' = "dst" => (dsv' <=> summer_chg') /\ t' <= wall' /\ (dsv' => t' >= Start)
    BY <2>1, <2>2, <1>0 DEF RerunInv, TypeOK
  <2>6. NeverRerun'
    BY <2>1 DEF RerunInv, NeverRerun, MinuteOf
  <2>. QED
    BY <2>1, <2>3, <2>4, <2>5, <2>6, <1>0 DEF RerunInv
<1>6. ASSUME UNCHANGED <<clock, crond>> PROVE RerunInv'
  <2>1. UNCHANGED <<now, wall, cs, t, wake, last>>
    BY <1>6 DEF clock, crond
  <2>2. (summer_chg' <=> summer_chg) /\ (dsv' <=> dsv)
    BY <1>6 DEF clock, crond
  <2>. QED
    BY <2>1, <2>2, <1>0 DEF RerunInv, NeverRerun, SleepsPast, MinuteOf
<1>. QED
  BY <1>1, <1>2, <1>3, <1>4, <1>5, <1>6
  DEF Next, CrondStep, NtpStep, Edits, Edit, Over, vars

(***************************************************************************)
(* As long as ntpdate does not move the clock, no minute is looked at      *)
(* twice, whatever time of the year the clock starts from, however often   *)
(* crond is started again, and in the hour that summer time repeats too.   *)
(***************************************************************************)
THEOREM NoMinuteTwice ==
    ASSUME "ntp" \notin Events, Errors \subseteq Nat
    PROVE  Spec => []NeverRerun
<1>1. Init => RerunInv
  BY RerunInit
<1>2. RerunInv /\ [Next]_vars => RerunInv'
  BY RerunStep
<1>3. RerunInv => NeverRerun
  BY DEF RerunInv
<1>. QED
  BY <1>1, <1>2, <1>3, PTL DEF Spec
----------------------------------------------------------------------------
(* How long crond sleeps. *)

(* A number of minutes is a time on a minute. *)
LEMMA MultipleIs ==
    ASSUME NEW k \in Int
    PROVE  Minute * k \in Int /\ (Minute * k) % Minute = 0
<1> DEFINE x == Minute * k
<1>1. x \in Int /\ 0 \in 0 .. Minute - 1
  BY ClockAssumption
<1>2. MinuteOf(x) \in Int /\ x % Minute \in 0 .. Minute - 1
      /\ x = Minute * MinuteOf(x) + (x % Minute)
  BY <1>1, DivMod
<1>3. Minute * MinuteOf(x) + (x % Minute) = Minute * k + 0
  BY <1>1, <1>2
<1> HIDE DEF x
<1>4. x % Minute = 0
  BY ONLY <1>1, <1>2, <1>3, Unique
<1>. QED
  BY <1>1, <1>4 DEF x

(* An hour is whole minutes, and summer begins and ends on a minute. *)
LEMMA HourFacts ==
    /\ Minute <= Hour /\ Hour % Minute = 0
    /\ Start % Minute = 0 /\ End % Minute = 0
<1>1. 0 % Minute = 0
  BY MultipleIs, ClockAssumption
<1>2. Minute <= Hour
  BY <1>1, Multiple, ClockAssumption
<1>. QED
  BY <1>2, HourMultiple, ClockAssumption

(* A minute later it is on a minute again. *)
LEMMA NextMinute ==
    ASSUME NEW a \in Int, a % Minute = 0
    PROVE  (a + Minute) % Minute = 0
<1>1. Minute * 1 = Minute /\ Minute \in Int
  BY ClockAssumption
<1>2. Minute % Minute = 0
  BY <1>1, MultipleIs
<1>. QED
  BY ONLY <1>1, <1>2, Multiple, a \in Int, a % Minute = 0

(* s ticks into a minute, the clock an hour ahead of the target's. *)
LEMMA CatchUp ==
    ASSUME NEW s \in 0 .. Minute - 1, NEW d \in Int, d = Minute - s - Hour
    PROVE  (IF d % Minute > 0 THEN d % Minute ELSE Minute) = Minute - s
<1>1. PICK h \in Int : Hour = Minute * h
  BY Exact, ClockAssumption
<1>2. Minute * (0 - h) = 0 - Hour /\ Minute * (1 - h) = Minute - Hour
  BY <1>1, Spread, ClockAssumption
<1>3. (0 - Hour) % Minute = 0 /\ (Minute - Hour) % Minute = 0
  BY <1>1, <1>2, MultipleIs
<1>4. CASE s = 0
  <2>1. d = Minute - Hour
    BY <1>4, ClockAssumption
  <2>2. d % Minute = 0
    BY <1>3, <2>1
  <2>. QED
    BY <1>4, <2>2, ClockAssumption
<1>5. CASE s # 0
  <2>1. 0 - Hour \in Int /\ 0 - Hour <= d /\ d < (0 - Hour) + Minute
    BY <1>5, ClockAssumption
  <2>2. d - (d % Minute) = 0 - Hour
    BY ONLY <1>3, <2>1, d \in Int, Floor
  <2>3. d % Minute \in 0 .. Minute - 1
    BY DivMod
  <2>4. d % Minute = Minute - s /\ Minute - s > 0
    BY <2>2, <2>3, <1>5, ClockAssumption
  <2>. QED
    BY <2>4
<1>. QED
  BY <1>4, <1>5

(* What Delay comes to when the minute of t began at a. *)
LEMMA DelayIs ==
    ASSUME TypeOK, NEW a \in Int, a % Minute = 0, a <= t, t < a + Minute,
           NEW d \in Int, d = a + Minute - wall
    PROVE  /\ Delay = IF d > 0 THEN d ELSE IF d % Minute > 0 THEN d % Minute ELSE Minute
           /\ Minute * (MinuteOf(t) + 1) = a + Minute
<1>1. t - (t % Minute) = a
  BY Floor DEF TypeOK
<1>2. /\ t \in Int /\ wall \in Int /\ t % Minute \in 0 .. Minute - 1 /\ Minute \in Nat
      /\ MinuteOf(t) \in Int /\ t = Minute * MinuteOf(t) + (t % Minute)
  BY DivMod, ClockAssumption DEF TypeOK
<1>3. d = t + Minute - (t % Minute) - wall
  <2> DEFINE u == t % Minute
  <2>1. u \in Int /\ t - u = a
    BY <1>1, <1>2
  <2> HIDE DEF u
  <2>2. d = t + Minute - u - wall
    BY <2>1, <1>2
  <2>. QED
    BY <2>2 DEF u
<1>4. Delay = IF d > 0 THEN d ELSE IF d % Minute > 0 THEN d % Minute ELSE Minute
  BY <1>3 DEF Delay
<1>5. Minute * (MinuteOf(t) + 1) = Minute * MinuteOf(t) + Minute /\ Minute * MinuteOf(t) \in Int
  BY <1>2, Spread
<1> DEFINE m == Minute * MinuteOf(t)
           r == t % Minute
<1>6. m \in Int /\ r \in Int /\ t = m + r /\ t - r = a
  BY <1>1, <1>2, <1>5
<1> HIDE DEF m, r
<1>7. m + Minute = a + Minute
  BY <1>2, <1>6
<1>. QED
  BY <1>4, <1>5, <1>7 DEF m
----------------------------------------------------------------------------
(***************************************************************************)
(* The legal time.  crond wakes at the start of a minute and is less than  *)
(* a minute late; the clock is ahead by the hour that summer_chg says;     *)
(* while summer_chg is set the next turn of the loop still lies in summer, *)
(* while it is not set it lies before summer or, after the end, behind the *)
(* hour that is repeated.                                                  *)
(***************************************************************************)
Ahead == IF summer_chg THEN Hour ELSE 0
Read == IF dsv THEN Hour ELSE 0

Season ==
    /\ summer_chg =>
          DaySaving /\ Start <= wake /\ Start <= now /\ wake + Hour <= End
    /\ ~summer_chg /\ DaySaving =>
          wake <= Start \/ (End <= wake /\ End <= now + Hour)

(* In the rest of the loop: the clock was left alone, or moved. *)
Kept ==
    /\ dsv <=> summer_chg
    /\ summer_chg =>
          DaySaving /\ Start <= wake /\ wake + Hour + Minute <= End
    /\ ~summer_chg /\ DaySaving =>
          wake + Minute <= Start \/ (End <= wake)

Moved ==
    /\ DaySaving
    /\ \/ ~dsv /\ summer_chg /\ wake = Start
       \/ dsv /\ ~summer_chg /\ wake + Hour = End

(* The minute on the clock has been looked at, but after the turn ahead. *)
Handled ==
    now < wake =>
        t + Hour <= wall \/ wall + (wake - now) <= Minute * (last + 1)

LegalInv ==
    /\ TypeOK
    /\ wake % Minute = 0 /\ now <= wake + Late
    /\ wall = now + Ahead
    /\ cs = "sleep" => Season /\ Handled
    /\ cs # "sleep" => wake + Read <= t /\ t <= now + Read
    /\ cs = "dst" => (dsv <=> summer_chg) /\ Season
    /\ cs = "run" => Kept \/ Moved

(* LegalInv holds at the start on a clock that is right. *)
LEMMA LegalInit ==
    ASSUME Init, Errors = {0}
    PROVE  LegalInv
<1>1. TypeOK
  BY TypeInit
<1>2. wall = 0 /\ now = 0 /\ wake = 0 /\ cs = "sleep" /\ ~summer_chg
  <2>1. wall = 0 /\ now = 0 /\ wake = 0 /\ cs = "sleep"
    BY DEF Init, CrondInit
  <2>2. ~(Start <= 0)
    BY ClockAssumption, WinterAssumption
  <2>. QED
    BY <2>1, <2>2 DEF Init, daylight_saving
<1>3. 0 % Minute = 0
  BY MultipleIs, ClockAssumption
<1>. QED
  BY <1>1, <1>2, <1>3, ClockAssumption, CrondAssumption
  DEF LegalInv, Season, Handled, Ahead

(* The numbers LegalInv is about. *)
LEMMA LegalTypes ==
    ASSUME TypeOK
    PROVE  /\ now \in Int /\ wall \in Int /\ wake \in Int /\ t \in Int /\ last \in Int
           /\ Hour \in Nat \ {0} /\ Minute \in Nat \ {0} /\ Start \in Nat /\ End \in Nat
           /\ Late \in Nat /\ Late < Minute /\ Minute <= Hour /\ Start + 2 * Hour <= End
           /\ Minute * (last + 1) \in Int
BY HourFacts, ClockAssumption, CrondAssumption DEF TypeOK

(* Reading time and flag keeps LegalInv. *)
LEMMA LegalWakes ==
    ASSUME LegalInv, TypeOK', Wakes
    PROVE  LegalInv'
<1>1. /\ cs = "sleep" /\ now >= wake /\ cs' = "dst" /\ t' = wall
      /\ UNCHANGED <<now, wall, wake, last>>
  BY DEF Wakes, clock
<1>2. (summer_chg' <=> summer_chg) /\ (dsv' <=> summer_chg)
  BY DEF Wakes, clock
<1>3. Season /\ wake % Minute = 0 /\ now <= wake + Late /\ wall = now + Ahead /\ TypeOK
  BY <1>1 DEF LegalInv
<1>4. Season' /\ Ahead' = Ahead /\ Read' = Ahead
  BY <1>1, <1>2, <1>3 DEF Season, Ahead, Read
<1>5. wake' + Read' <= t' /\ t' <= now' + Read'
  BY <1>1, <1>3, <1>4, LegalTypes DEF Ahead
<1>. QED
  BY <1>1, <1>2, <1>3, <1>4, <1>5 DEF LegalInv

(* Moving the clock keeps LegalInv, and moves it to the legal time. *)
LEMMA LegalChanges ==
    ASSUME LegalInv, TypeOK', Changes
    PROVE  /\ LegalInv'
           /\ wall' # wall => wall' = now + LegalOffset
<1>1. cs = "dst" /\ cs' = "run" /\ UNCHANGED <<now, t, wake, last>>
  BY DEF Changes
<1>2. dsv' <=> dsv
  BY DEF Changes
<1>3. /\ Season /\ (dsv <=> summer_chg) /\ wake % Minute = 0 /\ now <= wake + Late
      /\ wall = now + Ahead /\ TypeOK /\ wake + Read <= t /\ t <= now + Read
  BY <1>1 DEF LegalInv
<1>4. Read' = Read /\ Read = Ahead
  BY <1>2, <1>3 DEF Read, Ahead
<1> DEFINE w == wake + Hour
<1>5. /\ w \in Int /\ w % Minute = 0
      /\ wake < Start => wake + Minute <= Start
      /\ Start < wake + Minute => Start <= wake
      /\ w < End => w + Minute <= End
      /\ End < w + Minute => End <= w
  <2>0. /\ wake \in Int /\ Hour \in Int /\ Start \in Int /\ End \in Int
        /\ Hour % Minute = 0 /\ Start % Minute = 0 /\ End % Minute = 0 /\ wake % Minute = 0
    BY <1>3, LegalTypes, HourFacts
  <2>1. w \in Int /\ w % Minute = 0
    BY ONLY <2>0, Multiple
  <2>2. (wake < Start => wake + Minute <= Start) /\ (Start < wake => Start + Minute <= wake)
    BY ONLY <2>0, Multiple
  <2> HIDE DEF w
  <2>3. (w < End => w + Minute <= End) /\ (End < w => End + Minute <= w)
    BY ONLY <2>0, <2>1, Multiple
  <2>. QED
    BY <2>1, <2>2, <2>3, <1>3, LegalTypes
<1> HIDE DEF w
<1>6. ASSUME wall' = wall, summer_chg' <=> summer_chg, DaySaving => (daylight_saving(t) <=> dsv)
      PROVE  Kept' /\ wall' = now' + Ahead'
  <2>1. Ahead' = Ahead
    BY <1>6 DEF Ahead
  <2>2. (dsv' <=> summer_chg') /\ wall' = now' + Ahead'
    BY <1>1, <1>2, <1>3, <1>6, <2>1
  <2>3. ASSUME summer_chg
        PROVE  DaySaving /\ Start <= wake /\ wake + Hour + Minute <= End
    <3>1. DaySaving /\ Start <= wake /\ t >= w /\ dsv
      BY <1>3, <2>3, LegalTypes DEF Season, Read, w
    <3>2. t < End
      BY <3>1, <1>6 DEF daylight_saving
    <3>. QED
      BY <3>1, <3>2, <1>3, <1>5, LegalTypes DEF w
  <2>4. ASSUME ~summer_chg, DaySaving
        PROVE  wake + Minute <= Start \/ End <= wake
    <3>1. t >= wake /\ t <= now /\ ~dsv
      BY <1>3, <2>4, LegalTypes DEF Read
    <3>2. t < Start \/ End <= t
      BY <3>1, <2>4, <1>3, <1>6, LegalTypes DEF daylight_saving
    <3>3. wake <= Start \/ End <= wake
      BY <1>3, <2>4 DEF Season
    <3>. QED
      BY <3>1, <3>2, <3>3, <1>3, <1>5, LegalTypes
  <2>. QED
    BY <1>1, <1>6, <2>2, <2>3, <2>4 DEF Kept
<1>7. ASSUME DaySaving, dsv, ~daylight_saving(t), wall' = wall - Hour, ~summer_chg'
      PROVE  Moved' /\ wall' = now' + Ahead' /\ wall' = now + LegalOffset
  <2>1. Read = Hour /\ Ahead = Hour /\ Ahead' = 0 /\ summer_chg
    BY <1>3, <1>7, <1>4 DEF Read, Ahead
  <2>2. Start <= wake /\ w <= End /\ w <= t
    BY <1>3, <2>1, LegalTypes DEF Season, w
  <2>3. End <= t
    BY <1>7, <2>1, <2>2, <1>3, LegalTypes DEF daylight_saving, w
  <2>4. w = End
    BY <1>3, <1>5, <2>1, <2>2, <2>3, LegalTypes DEF w
  <2>5. wall' = now /\ ~(now + Hour < End)
    BY <1>3, <1>7, <2>1, <2>2, <2>4, LegalTypes DEF w
  <2>6. LegalOffset = 0
    BY <2>5 DEF LegalOffset
  <2>. QED
    BY <1>1, <1>2, <1>3, <1>7, <2>1, <2>4, <2>5, <2>6, LegalTypes DEF Moved, w
<1>8. ASSUME DaySaving, ~dsv, daylight_saving(t), wall' = wall + Hour, summer_chg'
      PROVE  Moved' /\ wall' = now' + Ahead' /\ wall' = now + LegalOffset
  <2>1. Read = 0 /\ Ahead = 0 /\ Ahead' = Hour /\ ~summer_chg
    BY <1>3, <1>8, <1>4 DEF Read, Ahead
  <2>2. wake <= t /\ t <= now /\ Start <= t /\ t < End
    BY <1>3, <1>8, <2>1, LegalTypes DEF daylight_saving
  <2>3. wake <= Start \/ End <= wake
    BY <1>3, <1>8, <2>1 DEF Season
  <2>4. wake = Start
    <3>1. /\ wake \in Int /\ Start \in Int /\ t \in Int /\ End \in Int /\ Minute \in Int
          /\ now \in Int /\ now < wake + Minute
      BY <1>3, LegalTypes
    <3>2. Start < wake + Minute => Start <= wake
      BY <1>5
    <3>. QED
      BY <3>1, <3>2, <2>2, <2>3
  <2>5. wall' = now + Hour /\ Start <= now /\ now + Hour < End
    <3>1. wall' = now + Hour
      BY <1>3, <1>8, <2>1, LegalTypes
    <3>2. now <= Start + Late /\ Start <= now
      BY <1>3, <2>2, <2>4, LegalTypes
    <3>. QED
      BY <3>1, <3>2, <1>3, LegalTypes
  <2>6. LegalOffset = Hour
    BY <2>5, <1>8 DEF LegalOffset
  <2>. QED
    BY <1>1, <1>2, <1>8, <2>1, <2>4, <2>5, <2>6 DEF Moved
<1>9. (Kept' \/ Moved') /\ wall' = now' + Ahead' /\ (wall' # wall => wall' = now + LegalOffset)
  BY <1>3, <1>6, <1>7, <1>8, ChangesCases
<1>. QED
  BY <1>1, <1>3, <1>4, <1>9 DEF LegalInv

(* Running the jobs and going to sleep keeps LegalInv. *)
LEMMA LegalRuns ==
    ASSUME LegalInv, TypeOK', Runs
    PROVE  LegalInv'
<1>1. /\ cs = "run" /\ cs' = "sleep" /\ last' = MinuteOf(t) /\ wake' = now + Delay
      /\ UNCHANGED <<now, wall, t>>
  BY DEF Runs, check_runs, clock
<1>2. summer_chg' <=> summer_chg
  BY DEF Runs, clock
<1>3. /\ (Kept \/ Moved) /\ wake % Minute = 0 /\ now <= wake + Late
      /\ wall = now + Ahead /\ TypeOK /\ wake + Read <= t /\ t <= now + Read
  BY <1>1 DEF LegalInv
<1>4. Ahead' = Ahead
  BY <1>2 DEF Ahead
<1> DEFINE a == wake + Read
           d == a + Minute - wall
           k == Minute * (MinuteOf(t) + 1)
<1>5. a \in Int /\ d \in Int /\ a % Minute = 0 /\ a <= t /\ t < a + Minute /\ now >= wake
  <2>1. Read \in Int /\ Read % Minute = 0
    BY HourFacts, MultipleIs, ClockAssumption DEF Read
  <2>2. wake \in Int /\ wake % Minute = 0
    BY <1>3, LegalTypes
  <2> HIDE DEF Read
  <2>3. a \in Int /\ a % Minute = 0
    BY ONLY <2>1, <2>2, Multiple
  <2>. QED
    BY <2>1, <2>3, <1>3, LegalTypes
<1>6. /\ Delay = IF d > 0 THEN d ELSE IF d % Minute > 0 THEN d % Minute ELSE Minute
      /\ k = a + Minute
  BY <1>5, <1>3, DelayIs
<1> HIDE DEF k, a, d
<1>a. a = wake + Read /\ d = a + Minute - wall /\ k = Minute * (last' + 1)
  BY <1>1 DEF a, d, k
<1>7. CASE Kept
  <2>1. Read = Ahead /\ Ahead \in Int
    BY <1>7, ClockAssumption DEF Kept, Read, Ahead
  <2>2. d = wake + Minute - now /\ d > 0
    BY <2>1, <1>a, <1>3, LegalTypes
  <2>3. wake' = wake + Minute
    BY <2>2, <1>1, <1>6, <1>3, LegalTypes
  <2>4. wake' % Minute = 0
    BY <2>3, <1>3, NextMinute, LegalTypes
  <2>5. now' <= wake' + Late
    BY <2>3, <1>1, <1>3, LegalTypes
  <2>6. wall' + (wake' - now') <= Minute * (last' + 1)
    BY <2>1, <2>3, <1>1, <1>3, <1>a, <1>6, LegalTypes
  <2>7. Season'
    BY <1>1, <1>2, <1>3, <1>5, <1>7, <2>3, LegalTypes DEF Kept, Season
  <2>. QED
    BY <1>1, <1>3, <1>4, <2>4, <2>5, <2>6, <2>7 DEF LegalInv, Handled
<1>8. CASE DaySaving /\ ~dsv /\ summer_chg /\ wake = Start
  <2>1. Read = 0 /\ Ahead = Hour
    BY <1>8 DEF Read, Ahead
  <2> DEFINE s == now - wake
  <2>2. s \in 0 .. Minute - 1 /\ d = Minute - s - Hour
    <3>1. s \in 0 .. Minute - 1
      BY <1>3, <1>5, LegalTypes
    <3>2. a = wake /\ wall = now + Hour
      BY <2>1, <1>a, <1>3, LegalTypes
    <3>3. d = wake + Minute - (now + Hour)
      BY <3>2, <1>a
    <3>4. wake \in Int /\ now \in Int /\ Minute \in Int /\ Hour \in Int
      BY <1>3, LegalTypes
    <3>. QED
      BY <3>1, <3>3, <3>4
  <2>3. d <= 0 /\ ~(d > 0)
    BY <2>2, <1>3, <1>5, LegalTypes
  <2>4. (IF d % Minute > 0 THEN d % Minute ELSE Minute) = Minute - s
    BY <2>2, <1>5, CatchUp
  <2>5. wake' = wake + Minute
    BY <2>3, <2>4, <1>1, <1>6, <1>3, LegalTypes
  <2>6. wake' % Minute = 0
    BY <2>5, <1>3, NextMinute, LegalTypes
  <2>7. now' <= wake' + Late
    BY <2>5, <1>1, <1>3, LegalTypes
  <2>8. t' + Hour <= wall'
    BY <2>1, <1>1, <1>3, LegalTypes
  <2>9. Season'
    BY <1>1, <1>2, <1>3, <1>5, <1>8, <2>5, LegalTypes DEF Season
  <2>. QED
    BY <1>1, <1>3, <1>4, <2>6, <2>7, <2>8, <2>9 DEF LegalInv, Handled
<1>9. CASE DaySaving /\ dsv /\ ~summer_chg /\ wake + Hour = End
  <2>1. Read = Hour /\ Ahead = 0
    BY <1>9 DEF Read, Ahead
  <2>2. d = End + Minute - now /\ d > 0
    BY <2>1, <1>a, <1>9, <1>3, LegalTypes
  <2>3. wake' = End + Minute
    BY <2>2, <1>1, <1>6, <1>3, LegalTypes
  <2>4. wake' % Minute = 0
    BY <2>3, HourFacts, NextMinute, ClockAssumption, SMTT(30)
  <2>5. now' <= wake' + Late
    BY <2>3, <1>1, <1>9, <1>3, LegalTypes
  <2>6. wall' + (wake' - now') <= Minute * (last' + 1)
    BY <2>1, <2>3, <1>1, <1>3, <1>a, <1>6, <1>9, LegalTypes
  <2>7. Season'
    BY <1>1, <1>2, <1>3, <1>5, <1>9, <2>3, LegalTypes DEF Season
  <2>. QED
    BY <1>1, <1>3, <1>4, <2>4, <2>5, <2>6, <2>7 DEF LegalInv, Handled
<1>. QED
  BY <1>3, <1>7, <1>8, <1>9 DEF Moved

(* A tick keeps LegalInv. *)
LEMMA LegalTick ==
    ASSUME LegalInv, TypeOK', Tick
    PROVE  LegalInv'
<1>1. /\ now' = now + 1 /\ wall' = wall + 1 /\ now < wake + Late
      /\ UNCHANGED <<cs, t, wake, last>>
  BY DEF Tick, Passes, crond, OnTime
<1>2. (summer_chg' <=> summer_chg) /\ (dsv' <=> dsv)
  BY DEF Tick, Passes, crond
<1>3. /\ wake % Minute = 0 /\ wall = now + Ahead /\ TypeOK
  BY DEF LegalInv
<1>4. Ahead' = Ahead /\ Read' = Read /\ Ahead \in Int /\ Read \in Int
  BY <1>2, ClockAssumption DEF Ahead, Read
<1>5. now' <= wake' + Late /\ wall' = now' + Ahead' /\ wake' % Minute = 0
  BY <1>1, <1>3, <1>4, LegalTypes
<1>6. Season => Season'
  BY <1>1, <1>2, <1>3, LegalTypes DEF Season
<1>7. Handled => Handled'
  BY <1>1, <1>3, LegalTypes DEF Handled
<1>8. wake + Read <= t /\ t <= now + Read => wake' + Read' <= t' /\ t' <= now' + Read'
  BY <1>1, <1>3, <1>4, LegalTypes
<1>9. (Kept => Kept') /\ (Moved => Moved')
  BY <1>1, <1>2 DEF Kept, Moved
<1>. QED
  BY <1>1, <1>2, <1>5, <1>6, <1>7, <1>8, <1>9 DEF LegalInv

(* Steps that leave clock and crond alone keep LegalInv. *)
LEMMA LegalSame ==
    ASSUME LegalInv, TypeOK', UNCHANGED <<clock, crond>>
    PROVE  LegalInv'
<1>1. UNCHANGED <<now, wall, cs, t, wake, last>>
  BY DEF clock, crond
<1>2. (summer_chg' <=> summer_chg) /\ (dsv' <=> dsv)
  BY DEF clock, crond
<1>3. Ahead' = Ahead /\ Read' = Read
  BY <1>2 DEF Ahead, Read
<1>4. (Season <=> Season') /\ (Handled <=> Handled')
  BY <1>1, <1>2 DEF Season, Handled
<1>5. (Kept <=> Kept') /\ (Moved <=> Moved')
  BY <1>1, <1>2 DEF Kept, Moved
<1>. QED
  BY <1>1, <1>2, <1>3, <1>4, <1>5 DEF LegalInv

(* Every step keeps LegalInv if nothing but edits happens. *)
LEMMA LegalStep ==
    ASSUME LegalInv, [Next]_vars, Events \subseteq {"edit"}
    PROVE  LegalInv'
<1>1. TypeOK'
  BY TypeStep DEF LegalInv
<1>2. \/ Wakes \/ Changes \/ Runs \/ Tick \/ UNCHANGED <<clock, crond>>
  BY DEF Next, CrondStep, NtpStep, Restarts, Edits, Edit, Over, vars
<1>. QED
  BY <1>1, <1>2, LegalWakes, LegalChanges, LegalRuns, LegalTick, LegalSame

(* LegalInv is an invariant. *)
LEMMA LegalAlways ==
    ASSUME Events \subseteq {"edit"}, Errors = {0}
    PROVE  Spec => []LegalInv
<1>1. Init => LegalInv
  BY LegalInit
<1>2. LegalInv /\ [Next]_vars => LegalInv'
  BY LegalStep
<1>. QED
  BY <1>1, <1>2, PTL DEF Spec

(***************************************************************************)
(* While nothing but crond moves the clock, and however the crontab is     *)
(* edited, the clock shows the legal time whenever crond sleeps: for every *)
(* length of a minute, an hour and a summer, and every delay of crond      *)
(* below a minute.                                                         *)
(***************************************************************************)
THEOREM ClockIsLegal ==
    ASSUME Events \subseteq {"edit"}, Errors = {0}
    PROVE  Spec => []ClockLegal
<1>1. LegalInv => ClockLegal
  <2> SUFFICES ASSUME LegalInv, Asleep
               PROVE  wall = now + LegalOffset /\ (summer_chg <=> LegalOffset = Hour)
    BY DEF ClockLegal
  <2>1. Season /\ wall = now + Ahead /\ now < wake /\ TypeOK
    BY DEF LegalInv, Asleep
  <2>2. CASE summer_chg
    <3>1. Ahead = Hour /\ DaySaving /\ Start <= now /\ now + Hour < End
      BY <2>1, <2>2, LegalTypes DEF Season, Ahead
    <3>2. LegalOffset = Hour
      BY <3>1 DEF LegalOffset
    <3>. QED
      BY <2>1, <2>2, <3>1, <3>2
  <2>3. CASE ~summer_chg
    <3>1. Ahead = 0 /\ ~(DaySaving /\ Start <= now /\ now + Hour < End)
      BY <2>1, <2>3, LegalTypes DEF Season, Ahead
    <3>2. LegalOffset = 0 /\ Hour # 0
      BY <3>1, ClockAssumption DEF LegalOffset
    <3>. QED
      BY <2>1, <2>3, <3>1, <3>2
  <2>. QED
    BY <2>2, <2>3
<1>. QED
  BY <1>1, LegalAlways, PTL

(***************************************************************************)
(* Under the same conditions the minute on the clock has had its           *)
(* check_runs whenever crond sleeps, the turn that sets the clock ahead    *)
(* excepted: no job's minute is passed over.                               *)
(***************************************************************************)
THEOREM NoMinuteLost ==
    ASSUME Events \subseteq {"edit"}, Errors = {0}
    PROVE  Spec => []MinuteHandled
<1>1. LegalInv => MinuteHandled
  <2> SUFFICES ASSUME LegalInv, Asleep, wall < t + Hour
               PROVE  MinuteOf(wall) <= last
    BY DEF MinuteHandled
  <2>1. Handled /\ now < wake /\ TypeOK
    BY DEF LegalInv, Asleep
  <2>2. wall < Minute * (last + 1)
    BY <2>1, LegalTypes DEF Handled
  <2>. QED
    BY <2>1, <2>2, MinuteBound, LegalTypes
<1>. QED
  BY <1>1, LegalAlways, PTL

(***************************************************************************)
(* And when crond moves the clock, it moves it to the legal time: without  *)
(* ntpdate, which reads and leaves summer_chg, the hour is added once and  *)
(* taken off once.                                                         *)
(***************************************************************************)
THEOREM CrondMovesRight ==
    ASSUME Events \subseteq {"edit"}, Errors = {0}
    PROVE  Spec => CrondMovesToLegal
<1>1. LegalInv /\ [Next]_vars =>
        [cs = "dst" /\ cs' = "run" /\ wall' # wall => wall' = now + LegalOffset]_vars
  <2> SUFFICES ASSUME LegalInv, Next, cs = "dst", cs' = "run"
               PROVE  wall' # wall => wall' = now + LegalOffset
    OBVIOUS
  <2>1. Changes
    BY DEF Next, CrondStep, Wakes, Runs, NtpStep, Restarts, Edits, Edit, Tick, Over, vars, crond
  <2>2. TypeOK'
    BY TypeStep DEF LegalInv
  <2>. QED
    BY <2>1, <2>2, LegalChanges
<1>. QED
  BY <1>1, LegalAlways, PTL DEF Spec, CrondMovesToLegal
----------------------------------------------------------------------------
(***************************************************************************)
(* ntpdate.  How far the clock is ahead of the server, Ahead of standard   *)
(* time or wrong, is wall - now: time leaves it alone, and crond changes   *)
(* it by what is added to moved.  So an originate timestamp, less that     *)
(* offset, is within moved of the time it was put on a query; an answer    *)
(* with the timestamp of the query of this try, even one to an earlier     *)
(* try, is older than this query by no more than the clock was moved       *)
(* before it was sent.                                                     *)
(***************************************************************************)
Offset == wall - now

(* What the timestamp of this query says of the offset crond has changed. *)
Shift == Distance(t1 - sent, Offset)

AnswersTrue ==
    /\ sent <= now
    /\ \A o \in asked : o - Offset <= now + moved
    /\ \A a \in air : a.t3 <= now /\ a.orig - Offset <= a.t3 + moved
    /\ ns = "idle" /\ i = 0 => asked = {} /\ air = {}
    /\ ns = "wait" => /\ Shift <= moved
                      /\ \A a \in air : a.orig = t1 => Shift + sent <= a.t3 + moved
    /\ ns = "set" => /\ t3 <= now /\ sent <= t3 + moved
                     /\ Distance(wall + td, now) <= (now - sent) + moved

(* The numbers AnswersTrue is about. *)
LEMMA AnswerTypes ==
    ASSUME TypeOK
    PROVE  /\ now \in Int /\ wall \in Int /\ t1 \in Int /\ t3 \in Int /\ td \in Int
           /\ sent \in Nat /\ moved \in Nat
           /\ \A o \in asked : o \in Int
           /\ \A a \in air : a.orig \in Int /\ a.t3 \in Int
BY DEF TypeOK

(* A half is at most half off. *)
LEMMA HalvedNear ==
    ASSUME NEW x \in Int
    PROVE  Halved(x) \in Int /\ 2 * Halved(x) <= x + 1 /\ x <= 2 * Halved(x) + 1
BY DEF Halved

(* Bounds over a point between. *)
LEMMA Triangle ==
    ASSUME NEW x \in Int, NEW y \in Int, NEW z \in Int, NEW d \in Int, NEW g \in Int,
           x <= y + d, y <= x + d, y <= z + g, z <= y + g
    PROVE  x <= z + (d + g) /\ z <= x + (d + g) /\ d + g \in Int
OBVIOUS

(***************************************************************************)
(* The offset of a good response: the mean of query and response lies      *)
(* between them, and an answer not before the query but for what the clock *)
(* was moved, m, gives an offset that is wrong by no more than the time    *)
(* between them and m.                                                     *)
(***************************************************************************)
LEMMA OffsetNear ==
    ASSUME NEW n \in Int, NEW w \in Int, NEW s \in Int, NEW q \in Int, NEW r \in Int,
           NEW m \in Nat, NEW h \in Int, NEW x \in Int,
           s <= n, r <= n,
           NEW d \in Nat, q - s <= (w - n) + d, w - n <= (q - s) + d,
           d <= m, d + s <= r + m,
           x = (r - q) + (r - w), 2 * h <= x + 1, x <= 2 * h + 1
    PROVE  w + h <= n + ((n - s) + m) /\ n <= (w + h) + ((n - s) + m)
OBVIOUS

(* A query starts or continues the account. *)
LEMMA AnswersQueries ==
    ASSUME TypeOK, TypeOK', AnswersTrue, Queries
    PROVE  AnswersTrue'
<1>1. /\ ns = "idle" /\ ns' = "wait" /\ t1' = wall /\ sent' = now
      /\ asked' = asked \cup {wall} /\ UNCHANGED <<now, wall, i, air>>
      /\ moved' = IF i = 0 THEN 0 ELSE moved
  BY DEF Queries, send_query, clock
<1>2. Offset' = Offset /\ Offset \in Int /\ Shift' = 0
  BY <1>1, AnswerTypes DEF Offset, Shift, Distance
<1>3. (i = 0 => asked = {} /\ air = {}) /\ moved' \in Nat
  BY <1>1, AnswerTypes DEF AnswersTrue
<1>4. \A o \in asked' : o - Offset' <= now' + moved'
  <2>1. \A o \in asked : o - Offset <= now + moved /\ moved' = moved
    BY <1>1, <1>3 DEF AnswersTrue
  <2>2. wall - Offset <= now + moved'
    BY <1>3, AnswerTypes DEF Offset
  <2>. QED
    BY <1>1, <1>2, <2>1, <2>2
<1>5. \A a \in air' : a.t3 <= now' /\ a.orig - Offset' <= a.t3 + moved'
  BY <1>1, <1>2, <1>3 DEF AnswersTrue
<1>6. \A a \in air' : a.orig = t1' => Shift' + sent' <= a.t3 + moved'
  <2>1. wall - Offset = now
    BY AnswerTypes DEF Offset
  <2>. QED
    BY <1>1, <1>2, <1>5, <2>1, AnswerTypes
<1>. QED
  BY <1>1, <1>2, <1>3, <1>4, <1>5, <1>6, AnswerTypes DEF AnswersTrue

(* An answer is stamped when it is sent. *)
LEMMA AnswersAnswers ==
    ASSUME TypeOK, TypeOK', AnswersTrue, Answers, UNCHANGED exchange
    PROVE  AnswersTrue'
<1>1. PICK o \in asked : /\ asked' = asked \ {o}
                         /\ air' = air \cup {[orig |-> o, t3 |-> now]}
                         /\ UNCHANGED <<now, wall, ns, i, t1, t3, td, sent, moved>>
  BY DEF Answers, clock, exchange
<1>2. Offset' = Offset /\ Shift' = Shift /\ Offset \in Int /\ Shift \in Int
  BY <1>1, AnswerTypes DEF Offset, Shift, Distance
<1>3. o \in Int /\ o - Offset <= now + moved /\ asked # {}
  BY <1>1, AnswerTypes DEF AnswersTrue
<1> DEFINE b == [orig |-> o, t3 |-> now]
<1>4. b.orig = o /\ b.t3 = now
  OBVIOUS
<1> HIDE DEF b
<1>5. \A a \in air' : a \in air \/ a = b
  BY <1>1 DEF b
<1>6. \A a \in air' : a.t3 <= now' /\ a.orig - Offset' <= a.t3 + moved'
  BY <1>1, <1>2, <1>3, <1>4, <1>5, AnswerTypes DEF AnswersTrue
<1>7. ns = "wait" => \A a \in air' : a.orig = t1 => Shift + sent <= a.t3 + moved
  BY <1>2, <1>4, <1>5, AnswerTypes DEF AnswersTrue
<1>8. ~(ns = "idle" /\ i = 0)
  BY <1>3 DEF AnswersTrue
<1>. QED
  BY <1>1, <1>2, <1>6, <1>7, <1>8 DEF AnswersTrue

(* The response gives an offset that is nearly right. *)
LEMMA AnswersResponse ==
    ASSUME TypeOK, TypeOK', AnswersTrue, get_response, UNCHANGED exchange
    PROVE  AnswersTrue'
<1>1. /\ ns = "wait" /\ ns' = "set"
      /\ UNCHANGED <<now, wall, i, t1, asked, air, sent, moved>>
  BY DEF get_response, clock, exchange
<1>2. PICK a \in air : /\ a.orig = t1 /\ t3' = a.t3
                       /\ td' = Halved((a.t3 - t1) + (a.t3 - wall))
  BY DEF get_response
<1> DEFINE x == (a.t3 - t1) + (a.t3 - wall)
<1>3. a.t3 \in Int /\ x \in Int /\ Offset' = Offset
  BY <1>1, <1>2, AnswerTypes DEF Offset
<1>4. td' \in Int /\ 2 * td' <= x + 1 /\ x <= 2 * td' + 1
  BY <1>2, <1>3, HalvedNear
<1>5. /\ a.t3 <= now /\ sent <= now
      /\ Distance(t1 - sent, wall - now) <= moved
      /\ Distance(t1 - sent, wall - now) + sent <= a.t3 + moved
  BY <1>1, <1>2 DEF AnswersTrue, Shift, Offset
<1>6. Distance(wall + td', now) <= (now - sent) + moved /\ sent <= a.t3 + moved
  <2> HIDE DEF x
  <2>1. x = (a.t3 - t1) + (a.t3 - wall)
    BY DEF x
  <2>2. now \in Int /\ wall \in Int /\ sent \in Int /\ t1 \in Int /\ moved \in Nat
    BY AnswerTypes
  <2> DEFINE r == a.t3
             h == td'
             d == Distance(t1 - sent, wall - now)
  <2>3. /\ r \in Int /\ h \in Int /\ x = (r - t1) + (r - wall) /\ x \in Int
        /\ 2 * h <= x + 1 /\ x <= 2 * h + 1 /\ r <= now /\ sent <= now
        /\ d <= moved /\ d + sent <= r + moved
    BY <1>3, <1>4, <1>5, <2>1
  <2>4. d \in Nat /\ t1 - sent <= (wall - now) + d /\ wall - now <= (t1 - sent) + d
    BY <2>2, Distances
  <2> HIDE DEF r, h, d
  <2>5. wall + h <= now + ((now - sent) + moved) /\ now <= (wall + h) + ((now - sent) + moved)
    BY ONLY <2>2, <2>3, <2>4, OffsetNear
  <2>6. Distance(wall + h, now) <= (now - sent) + moved
    BY <2>2, <2>3, <2>5, Within
  <2>7. sent <= r + moved
    BY <2>2, <2>3, <2>4
  <2>. QED
    BY <2>6, <2>7 DEF r, h
<1>. QED
  BY <1>1, <1>2, <1>3, <1>5, <1>6 DEF AnswersTrue

(* A tick leaves the offset alone. *)
LEMMA AnswersTick ==
    ASSUME TypeOK, TypeOK', AnswersTrue, Tick
    PROVE  AnswersTrue'
<1>1. now' = now + 1 /\ wall' = wall + 1 /\ UNCHANGED <<ntp, exchange>>
  BY DEF Tick, Passes
<1>2. Offset' = Offset /\ Shift' = Shift /\ Offset \in Int
  <2>1. Offset' = Offset /\ Offset \in Int
    BY <1>1, AnswerTypes DEF Offset
  <2>. QED
    BY <1>1, <2>1 DEF Shift, Distance, ntp, exchange
<1>3. Distance(wall + td, now) = Distance(wall' + td, now')
  BY <1>1, AnswerTypes DEF Distance
<1>4. UNCHANGED <<ns, i, t1, t3, td, asked, air, sent, moved>>
  BY <1>1 DEF ntp, exchange
<1>5. \A o \in asked' : o - Offset' <= now' + moved'
  BY <1>1, <1>2, <1>4, AnswerTypes DEF AnswersTrue
<1>6. \A a \in air' : a.t3 <= now' /\ a.orig - Offset' <= a.t3 + moved'
  BY <1>1, <1>2, <1>4, AnswerTypes DEF AnswersTrue
<1>7. ns' = "set" => /\ t3' <= now' /\ sent' <= t3' + moved'
                     /\ Distance(wall' + td', now') <= (now' - sent') + moved'
  <2> DEFINE y == Distance(wall + td, now)
  <2>1. y \in Int /\ y = Distance(wall' + td', now')
    BY <1>3, <1>4, AnswerTypes DEF Distance
  <2> HIDE DEF y
  <2>2. ns = "set" => y <= (now - sent) + moved /\ t3 <= now /\ sent <= t3 + moved
    BY DEF AnswersTrue, y
  <2>. QED
    BY <1>1, <1>4, <2>1, <2>2, AnswerTypes
<1>. QED
  BY <1>1, <1>2, <1>4, <1>5, <1>6, <1>7, AnswerTypes DEF AnswersTrue

(* A move of the clock by crond is added to moved. *)
LEMMA AnswersCrond ==
    ASSUME TypeOK, TypeOK', AnswersTrue, CrondStep
    PROVE  AnswersTrue'
<1>0. PICK g \in Nat : /\ moved' = moved + g
                       /\ wall' <= wall + g /\ wall <= wall' + g
  <2>1. wall \in Int /\ wall' \in Int /\ moved' = moved + Distance(wall', wall)
    BY DEF TypeOK, CrondStep
  <2>. QED
    BY <2>1, Distances
<1>1. now' = now /\ UNCHANGED ntp /\ sent' = sent
  BY DEF CrondStep, Wakes, Changes, Runs, clock
<1>2. UNCHANGED <<ns, i, t1, t3, td, asked, air>>
  BY <1>1 DEF ntp
<1>3. wall' \in Int /\ g \in Int /\ 0 <= g /\ moved \in Int
  BY AnswerTypes DEF TypeOK
<1>4. PICK p \in Int, q \in Int : p = Offset /\ q = Offset' /\ q <= p + g /\ p <= q + g
  BY <1>0, <1>1, <1>3, AnswerTypes DEF Offset
<1>5. Shift' <= Shift + g /\ Shift \in Int /\ Shift' \in Int
  <2> DEFINE s == t1 - sent
             d == Distance(s, p)
  <2>1. s \in Int /\ Shift = d /\ Shift' = Distance(s, q)
    BY <1>1, <1>2, <1>4, AnswerTypes DEF Shift
  <2> HIDE DEF s, d
  <2>2. d \in Nat /\ s <= p + d /\ p <= s + d /\ Distance(s, q) \in Nat
    BY <2>1, <1>4, Distances DEF d
  <2>3. s <= q + (d + g) /\ q <= s + (d + g) /\ d + g \in Int
    BY ONLY <2>1, <2>2, <1>3, <1>4, d \in Int, Triangle
  <2>4. Distance(s, q) <= d + g
    BY ONLY <2>1, <2>3, <1>4, Within
  <2>. QED
    BY <2>1, <2>2, <2>4
<1>6. ns = "set" => Distance(wall' + td, now) <= (now - sent) + (moved + g)
  <2> SUFFICES ASSUME ns = "set"
               PROVE  Distance(wall' + td, now) <= (now - sent) + (moved + g)
    OBVIOUS
  <2> DEFINE x == wall' + td
             y == wall + td
             d == (now - sent) + moved
  <2>1. x \in Int /\ y \in Int /\ d \in Int /\ now \in Int /\ x <= y + g /\ y <= x + g
    BY <1>0, <1>3, AnswerTypes
  <2>2. Distance(y, now) <= d
    BY DEF AnswersTrue
  <2>3. (now - sent) + (moved + g) = d + g
    BY <1>3, AnswerTypes
  <2> HIDE DEF x, y, d
  <2>4. y <= now + d /\ now <= y + d
    <3>1. Distance(y, now) \in Nat /\ y <= now + Distance(y, now) /\ now <= y + Distance(y, now)
      BY <2>1, Distances
    <3>. QED
      BY <2>1, <2>2, <3>1
  <2>5. x <= now + (d + g) /\ now <= x + (d + g) /\ d + g \in Int
    BY <2>1, <2>4, <1>3
  <2>6. Distance(x, now) <= d + g
    BY ONLY <2>1, <2>5, Within
  <2>. QED
    BY <2>3, <2>6 DEF x
<1>a. \A y \in Int, z \in Int : y - Offset <= z + moved => y - Offset' <= z + moved'
  <2> SUFFICES ASSUME NEW y \in Int, NEW z \in Int, y - p <= z + moved
               PROVE  y - q <= z + (moved + g)
    BY <1>0, <1>4
  <2>1. p <= q + g
    BY <1>4
  <2>. QED
    BY <1>3, <2>1
<1>7. \A o \in asked' : o - Offset' <= now' + moved'
  BY <1>1, <1>2, <1>a, AnswerTypes DEF AnswersTrue
<1>8. \A a \in air' : a.t3 <= now' /\ a.orig - Offset' <= a.t3 + moved'
  BY <1>1, <1>2, <1>a, AnswerTypes DEF AnswersTrue
<1>9. ns' = "wait" => /\ Shift' <= moved'
                      /\ \A a \in air' : a.orig = t1' => Shift' + sent' <= a.t3 + moved'
  BY <1>0, <1>1, <1>2, <1>3, <1>5, AnswerTypes DEF AnswersTrue
<1>10. ns' = "set" => /\ t3' <= now' /\ sent' <= t3' + moved'
                      /\ Distance(wall' + td', now') <= (now' - sent') + moved'
  BY <1>0, <1>1, <1>2, <1>3, <1>6, AnswerTypes DEF AnswersTrue
<1>. QED
  BY <1>1, <1>2, <1>7, <1>8, <1>9, <1>10 DEF AnswersTrue

(* Every step keeps AnswersTrue. *)
LEMMA AnswersStep ==
    ASSUME TypeOK, AnswersTrue, [Next]_vars
    PROVE  AnswersTrue'
<1>0. TypeOK'
  BY TypeStep
<1>1. CASE NoResponse /\ UNCHANGED exchange
  <2>1. /\ UNCHANGED <<now, wall, t1, t3, td, sent, moved>> /\ ns' = "idle"
        /\ asked' \subseteq asked /\ air' \subseteq air
        /\ i' = 0 => asked' = {} /\ air' = {}
    BY <1>1 DEF NoResponse, Done, clock, exchange, TypeOK, Tries
  <2>2. Offset' = Offset
    BY <2>1 DEF Offset
  <2>. QED
    BY <2>1, <2>2 DEF AnswersTrue
<1>2. CASE (SetTime \/ NoSocket) /\ UNCHANGED exchange
  BY <1>2 DEF SetTime, NoSocket, Done, clock, exchange, AnswersTrue
<1>3. CASE UNCHANGED <<now, wall, ntp, exchange>>
  BY <1>3 DEF AnswersTrue, Offset, Shift, ntp, exchange
<1>4. \/ CrondStep \/ Queries \/ Tick \/ UNCHANGED <<now, wall, ntp, exchange>>
      \/ /\ Answers \/ get_response \/ NoResponse \/ NoSocket \/ SetTime
         /\ UNCHANGED exchange
  BY DEF Next, NtpStep, Restarts, Restart, Edits, Edit, Over, vars, clock
<1>. QED
  BY <1>0, <1>1, <1>2, <1>3, <1>4, AnswersCrond, AnswersQueries, AnswersTick,
     AnswersAnswers, AnswersResponse

(***************************************************************************)
(* NTP_update leaves the server's time on the clock, with summer time      *)
(* where daylight_saving says so, up to the time since its query and as    *)
(* far as crond moved the clock during the call: however wrong the clock   *)
(* was, in either adjustment, with summer time, and whatever becomes of    *)
(* queries and answers on their way.                                       *)
(***************************************************************************)
THEOREM NtpSetsTheTime == Spec => NtpSetsTime
<1>1. Init => AnswersTrue
  BY DEF Init, NtpInit, AnswersTrue
<1>2. TypeOK /\ AnswersTrue /\ [Next]_vars => AnswersTrue'
  BY AnswersStep
<1>3. TypeOK /\ AnswersTrue /\ [Next]_vars =>
        [ns = "set" /\ ns' = "idle" =>
           LET e == (now - sent) + moved
           IN  \E x \in (now - e) .. (now + e) : wall' = WithSummer(x)]_vars
  <2> SUFFICES ASSUME TypeOK, AnswersTrue, Next, ns = "set", ns' = "idle",
                      NEW e, e = (now - sent) + moved
               PROVE  \E x \in (now - e) .. (now + e) : wall' = WithSummer(x)
    OBVIOUS
  <2>1. SetTime
    BY DEF Next, CrondStep, NtpStep, Queries, send_query, Answers, get_response, NoResponse,
           NoSocket, Restarts, Edits, Edit, Tick, Over, vars, ntp
  <2>2. /\ e \in Int /\ t3 \in Int /\ wall + td \in Int /\ now \in Int
        /\ sent \in Nat /\ moved \in Nat
    BY AnswerTypes
  <2>3. t3 <= now /\ sent <= t3 + moved /\ Distance(wall + td, now) <= e /\ sent <= now
    BY DEF AnswersTrue
  <2>4. t3 \in (now - e) .. (now + e)
    BY <2>2, <2>3
  <2>5. wall + td \in (now - e) .. (now + e)
    BY <2>2, <2>3 DEF Distance
  <2>6. wall' = WithSummer(t3) \/ wall' = WithSummer(wall + td)
    BY <2>1 DEF SetTime, SETRTCTIME
  <2>. QED
    BY <2>4, <2>5, <2>6
<1>. QED
  BY <1>1, <1>2, <1>3, TypeCorrect, PTL DEF Spec, NtpSetsTime
=============================================================================
