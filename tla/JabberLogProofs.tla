-------------------------- MODULE JabberLogProofs --------------------------
(***************************************************************************)
(* Theorems about JabberLog, for any number of processes and any times.    *)
(***************************************************************************)
EXTENDS JabberLog, TLAPS

(* The tunnel never has the lock file, a process past the lock has the lock,
   and nobody else. *)
LockInv ==
  /\ heir = None
  /\ \A p \in Procs : pc[p] \in Working => lock = p
  /\ LockFollowsProcess
  /\ \A p \in Procs : pc[p] \in Working \ {"fcntl"} => cloexec[p]

(* The time select has left and the time the client has been silent make no
   more than the keep-alive time. *)
TimeInv == \A p \in Procs : pc[p] \in Serving => sess[p].idle + sess[p].tv <= KeepAlive

(* What only an authorised client asks has been asked by one, and a roster has
   only come to one. *)
Later == {"bind", "session", "roster"}
AskInv(s) ==
  /\ \A i \in 1 .. Len(s.owed) : s.owed[i] \in Later => "authorized" \in s.flags
  /\ "job_done" \in s.flags => "authorized" \in s.flags
LoginInv == /\ \A p \in Procs : AskInv(sess[p])
            /\ RosterFirst

JabberInv == TypeOK /\ LockInv /\ TimeInv /\ LoginInv

(* The part of it that is about sessions. *)
PCs == {"off", "lock"} \union Working
SessionInv ==
  /\ pc \in [Procs -> PCs] /\ sess \in [Procs -> Sessions]
  /\ TimeInv /\ LoginInv

Asks == {"header", "features", "sasl", "bind", "session", "roster"}

----------------------------------------------------------------------------
(* Sessions *)

(* A logger without a session. *)
LEMMA NoSessionOK == NoSession \in Sessions /\ AskInv(NoSession)
  BY JabberAssumption DEF NoSession, Sessions, AskInv

(* What the client sends on an answer of the server: requests of a known kind,
   and those that need authorisation only from an authorised client. *)
LEMMA RequestsOK ==
  ASSUME NEW s \in Sessions, AskInv(s), NEW n,
         \/ n \in {Node(name) : name \in Unasked}
         \/ s.owed # <<>> /\ n \in Answers(s, Head(s.owed))
  PROVE  /\ Requests(s, n) \in Seq(Asks)
         /\ \A i \in 1 .. Len(Requests(s, n)) :
              Requests(s, n)[i] \in Later => "authorized" \in s.flags
         /\ n.name \in {"roster_result"} => "authorized" \in s.flags
  <1>1. CASE n \in {Node(name) : name \in Unasked}
    BY <1>1 DEF Unasked, Node, Requests, AskOn
  <1>2. CASE s.owed # <<>> /\ n \in Answers(s, Head(s.owed))
    <2>1. Head(s.owed) \in Asks /\ (Head(s.owed) \in Later => "authorized" \in s.flags)
      BY <1>2 DEF Sessions, Asks, AskInv, Later
    <2>2. CASE Head(s.owed) = "features"
      <3>1. n.name = "features"
        BY <1>2, <2>2 DEF Answers
      <3>2. CASE "authorized" \in s.flags
        <4> DEFINE b == IF "BIND" \in n.has THEN <<"bind">> ELSE <<>>
                   c == IF "SESSION" \in n.has THEN <<"session">> ELSE <<>>
        <4>1. Requests(s, n) = b \o c
          BY <3>1, <3>2 DEF Requests, AskOnFeatures
        <4>2. <<>> \in Seq(Asks) /\ <<"bind">> \in Seq(Asks) /\ <<"session">> \in Seq(Asks)
          BY DEF Asks
        <4>3. b \in Seq(Asks) /\ c \in Seq(Asks)
          BY <4>2
        <4> HIDE DEF b, c
        <4> QED BY <3>1, <3>2, <4>1, <4>3
      <3>3. CASE "authorized" \notin s.flags
        <4>1. Requests(s, n) = IF n.has # {} THEN <<"sasl">> ELSE <<>>
          BY <3>1, <3>3 DEF Requests, AskOnFeatures
        <4>2. CASE n.has # {}
          BY <3>1, <4>1, <4>2 DEF Asks, Later
        <4>3. CASE n.has = {}
          BY <3>1, <4>1, <4>3
        <4> QED BY <4>2, <4>3
      <3> QED BY <3>2, <3>3
    <2>3. CASE Head(s.owed) # "features"
      <3>1. PICK name \in Replies[Head(s.owed)] : n = Node(name)
        BY <1>2, <2>3 DEF Answers
      <3>2. n.name = name /\ name # "features"
            /\ (name \in {"auth_result", "roster_result"} => "authorized" \in s.flags)
        BY <2>1, <2>3, <3>1 DEF Node, Replies, Asks, Later
      <3>3. Requests(s, n) = IF name \in DOMAIN AskOn THEN <<AskOn[name]>> ELSE <<>>
        BY <3>2 DEF Requests
      <3>4. name \in DOMAIN AskOn =>
              AskOn[name] \in Asks /\ (AskOn[name] \in Later => "authorized" \in s.flags)
        BY <3>2 DEF AskOn, Asks, Later
      <3> QED BY <3>2, <3>3, <3>4
    <2> QED BY <2>2, <2>3
  <1> QED BY <1>1, <1>2

(* A session with one field changed. *)
LEMMA UpdateOK ==
  ASSUME NEW s \in Sessions, NEW c \in 1 .. Timeout,
         NEW f \in SUBSET {"authorized", "job_done"}, NEW o \in Seq(Asks),
         NEW e \in BOOLEAN
  PROVE  [s EXCEPT !.counter = c, !.flags = f, !.owed = o, !.ended = e] \in Sessions
  BY DEF Sessions, Asks

(* What a stanza of the login makes of a session. *)
LEMMA StanzaOK ==
  ASSUME NEW s \in Sessions, AskInv(s), NEW n,
         \/ n \in {Node(name) : name \in Unasked}
         \/ s.owed # <<>> /\ n \in Answers(s, Head(s.owed))
  PROVE  /\ OnStream(s, n) \in Sessions
         /\ AskInv(OnStream(s, n))
         /\ OnStream(s, n).tv = s.tv /\ OnStream(s, n).idle = s.idle
         /\ HookCode(n) = IKS_HOOK /\ ~OnStream(s, n).ended =>
              OnStream(s, n).flags = {"authorized", "job_done"}
  <1> DEFINE rest == IF n.name \in Unasked THEN s.owed ELSE Tail(s.owed)
             more == IF n.name \in Unasked THEN <<>> ELSE Requests(s, n)
             t == OnStream(s, n)
  <1>0. n.name \notin Unasked => s.owed # <<>>
    BY DEF Node, Unasked
  <1>1. rest \in Seq(Asks)
    BY <1>0 DEF Sessions, Asks
  <1>2. \A i \in 1 .. Len(rest) : rest[i] \in Later => "authorized" \in s.flags
    BY <1>0 DEF Sessions, Asks, AskInv
  <1>3. /\ more \in Seq(Asks)
        /\ \A i \in 1 .. Len(more) : more[i] \in Later => "authorized" \in s.flags
        /\ n.name \in {"roster_result"} => "authorized" \in s.flags
    BY RequestsOK
  <1>4. /\ s.flags \subseteq t.flags
        /\ t.flags \subseteq {"authorized", "job_done"}
        /\ "job_done" \in t.flags => "job_done" \in s.flags \/ n.name = "roster_result"
        /\ n.name = "roster_result" => "job_done" \in t.flags
        /\ n.name = "stop" => t.ended
        /\ t.tv = s.tv /\ t.idle = s.idle
    BY DEF OnStream, Sessions
  <1>4a. t.owed = rest \o more
    <2>1. t.owed = IF n.name \in Unasked THEN s.owed ELSE Tail(s.owed) \o Requests(s, n)
      BY DEF OnStream, Sessions
    <2> QED BY <1>1, <2>1
  <1> HIDE DEF more
  <1>5. t.owed \in Seq(Asks)
    BY <1>1, <1>3, <1>4a
  <1>6. t \in Sessions
    <2>1. t.counter \in 1 .. Timeout /\ t.ended \in BOOLEAN
      BY JabberAssumption DEF OnStream, Sessions
    <2>2. t = [s EXCEPT !.counter = t.counter, !.flags = t.flags, !.owed = t.owed,
                        !.ended = t.ended]
      BY DEF OnStream, Sessions
    <2> HIDE DEF t
    <2>3. t.flags \in SUBSET {"authorized", "job_done"}
      BY <1>4
    <2>4. [s EXCEPT !.counter = t.counter, !.flags = t.flags, !.owed = t.owed,
                    !.ended = t.ended] \in Sessions
      BY <1>5, <2>1, <2>3, UpdateOK, Zenon
    <2> QED BY <2>2, <2>4, Zenon
  <1> HIDE DEF rest
  <1>7. \A i \in 1 .. Len(t.owed) : t.owed[i] \in Later => "authorized" \in s.flags
    BY <1>1, <1>2, <1>3, <1>4a
  <1>8. HookCode(n) = IKS_HOOK => n.name = "stop" \/ n.name = "roster_result"
    BY DEF HookCode, Codes, IKS_HOOK, IKS_OK, JL_AUTHEN_FAILED, JL_SERVER_DISCONNECTED,
           JL_NORMAL_ERROR
  <1>9. AskInv(t)
    BY <1>3, <1>4, <1>7 DEF AskInv
  <1> QED BY <1>3, <1>4, <1>6, <1>8, <1>9

(* The fields of a session have their types. *)
LEMMA FieldsOK ==
  ASSUME NEW s \in Sessions
  PROVE  /\ \A c \in 1 .. Timeout : [s EXCEPT !.counter = c] \in Sessions
         /\ \A o \in Seq(Asks) : [s EXCEPT !.owed = o] \in Sessions
         /\ \A v \in 0 .. KeepAlive, d \in Nat : [s EXCEPT !.tv = v, !.idle = d] \in Sessions
         /\ s.counter \in 1 .. Timeout /\ s.tv \in 0 .. KeepAlive /\ s.idle \in Nat
  BY DEF Sessions, Asks

(* What was asked depends on flags and debts alone. *)
LEMMA AskKept ==
  ASSUME NEW s, NEW t, AskInv(s), t.owed = s.owed, t.flags = s.flags
  PROVE  AskInv(t)
  BY DEF AskInv

(* What a write makes of a session. *)
LEMMA WireOK ==
  ASSUME NEW s \in Sessions, AskInv(s)
  PROVE  /\ Wire(s) \in Sessions /\ AskInv(Wire(s))
         /\ Wire(s).idle + Wire(s).tv <= KeepAlive
         /\ Wire(s).flags = s.flags
         /\ Wire(s).ended = s.ended
  <1>1. /\ Wire(s).idle = 0 /\ Wire(s).tv = s.tv /\ s.tv \in 0 .. KeepAlive
        /\ Wire(s).flags = s.flags /\ Wire(s).owed = s.owed
        /\ Wire(s).ended = s.ended
    BY DEF Wire, Sessions
  <1>2. Wire(s) \in Sessions
    BY DEF Wire, Sessions
  <1>3. Wire(s).idle + Wire(s).tv <= KeepAlive
    BY <1>1, JabberAssumption
  <1> QED BY <1>1, <1>2, <1>3, AskKept

----------------------------------------------------------------------------
(* Steps and sessions *)

(* A step that moves process p to x and gives it the session t. *)
LEMMA SessionMove ==
  ASSUME SessionInv, NEW p \in Procs, NEW x \in PCs, NEW t \in Sessions, AskInv(t),
         x \in Serving => t.idle + t.tv <= KeepAlive,
         x \in {"presence"} \union Serving /\ ~t.ended =>
           t.flags = {"authorized", "job_done"},
         pc' = [pc EXCEPT ![p] = x], sess' = [sess EXCEPT ![p] = t]
  PROVE  SessionInv'
  <1>1. pc' \in [Procs -> PCs] /\ sess' \in [Procs -> Sessions]
    BY DEF SessionInv
  <1>2. \A q \in Procs : /\ pc'[q] = IF q = p THEN x ELSE pc[q]
                         /\ sess'[q] = IF q = p THEN t ELSE sess[q]
    BY DEF SessionInv
  <1>3. TimeInv'
    BY <1>2 DEF SessionInv, TimeInv
  <1>4. \A q \in Procs : AskInv(sess'[q])
    BY <1>2 DEF SessionInv, LoginInv
  <1>5. RosterFirst'
    BY <1>2 DEF SessionInv, LoginInv, RosterFirst
  <1> QED BY <1>1, <1>3, <1>4, <1>5 DEF SessionInv, LoginInv, AskInv

(* A step that moves process p to x, where nothing is asked of its session. *)
LEMMA PlainMove ==
  ASSUME SessionInv, NEW p \in Procs, NEW x \in PCs \ ({"presence"} \union Serving),
         pc' = [pc EXCEPT ![p] = x], sess' = sess
  PROVE  SessionInv'
  <1>1. sess' = [sess EXCEPT ![p] = sess[p]] /\ sess[p] \in Sessions /\ AskInv(sess[p])
    BY DEF SessionInv, LoginInv
  <1> QED BY <1>1, SessionMove

(* A step that moves a serving process on in the loop of j_main. *)
LEMMA ServeMove ==
  ASSUME SessionInv, NEW p \in Procs, pc[p] \in Serving, NEW x \in Serving,
         pc' = [pc EXCEPT ![p] = x], sess' = sess
  PROVE  SessionInv'
  <1>1. sess' = [sess EXCEPT ![p] = sess[p]] /\ sess[p] \in Sessions /\ AskInv(sess[p])
    BY DEF SessionInv, LoginInv
  <1>2. /\ sess[p].idle + sess[p].tv <= KeepAlive
        /\ ~sess[p].ended => sess[p].flags = {"authorized", "job_done"}
    BY DEF SessionInv, TimeInv, LoginInv, RosterFirst
  <1>3. x \in PCs
    BY DEF PCs, Working, Connected
  <1> QED BY <1>1, <1>2, <1>3, SessionMove

(* A session that is over. *)
LEMMA ResetMove ==
  ASSUME SessionInv, NEW p \in Procs, NEW x \in {"off", "sleep"},
         pc' = [pc EXCEPT ![p] = x], sess' = [sess EXCEPT ![p] = NoSession]
  PROVE  SessionInv'
  <1>1. x \in PCs /\ x \notin {"presence"} \union Serving
    BY DEF PCs, Working, Serving
  <1> QED BY <1>1, NoSessionOK, SessionMove

(* Every step keeps SessionInv. *)
LEMMA SessionNext == SessionInv /\ Next => SessionInv'
  <1> SUFFICES ASSUME SessionInv, Next PROVE SessionInv'
    OBVIOUS
  <1>a. /\ {"off", "lock", "fcntl", "config", "tunnel", "bind", "connect", "login", "sleep"}
             \subseteq PCs \ ({"presence"} \union Serving)
        /\ {"presence"} \union Serving \subseteq PCs
        /\ {"serve", "send", "read", "alive"} = Serving
    BY DEF PCs, Working, Connected, Serving
  <1>b. \A p \in Procs : sess[p] \in Sessions /\ AskInv(sess[p]) /\ pc[p] \in PCs
    BY DEF SessionInv, LoginInv
  <1>1. ASSUME NEW p \in Procs, TryLock(p) \/ SetCloexec(p) \/ ReadConf(p) \/ Kill(p)
        PROVE  SessionInv'
    <2>1. CASE Gone(p)
      BY <2>1, ResetMove DEF Gone
    <2>2. CASE sess' = sess /\ \E x \in {"fcntl", "config", "tunnel"} :
                                 pc' = [pc EXCEPT ![p] = x]
      BY <1>a, <2>2, PlainMove
    <2>3. CASE sess' = sess /\ pc' = pc
      BY <2>3 DEF SessionInv, TimeInv, LoginInv, RosterFirst, AskInv
    <2> QED BY <1>1, <2>1, <2>2, <2>3 DEF TryLock, SetCloexec, ReadConf, Kill
  <1>2. ASSUME NEW p \in Procs, KillTunnel(p) \/ StartTunnel(p) \/ Sleep(p) \/ Start(p)
        PROVE  SessionInv'
    <2>1. sess' = sess /\ \E x \in {"bind", "connect", "tunnel", "lock"} :
                              pc' = [pc EXCEPT ![p] = x]
      BY <1>2 DEF KillTunnel, StartTunnel, Sleep, Start
    <2> QED BY <1>a, <2>1, PlainMove
  <1>3. ASSUME NEW p \in Procs, NEW c, EndSession(p, c) PROVE SessionInv'
    BY <1>3, ResetMove DEF EndSession
  <1>4. ASSUME NEW p \in Procs, Connect(p) PROVE SessionInv'
    <2>1. CASE EndSession(p, JL_CANNOT_CONNECT)
      BY <1>3, <2>1
    <2>2. CASE /\ pc' = [pc EXCEPT ![p] = "login"]
               /\ sess' = [sess EXCEPT ![p] = [NoSession EXCEPT !.owed = <<"header">>]]
      <3> DEFINE t == [NoSession EXCEPT !.owed = <<"header">>]
      <3>1. t.owed = <<"header">>
        BY DEF NoSession
      <3>2. AskInv(t)
        <4>1. \A i \in 1 .. Len(t.owed) : t.owed[i] \notin Later
          BY <3>1 DEF Later
        <4>2. "job_done" \notin t.flags
          BY DEF NoSession
        <4> QED BY <4>1, <4>2 DEF AskInv
      <3>3. t \in Sessions
        <4>1. <<"header">> \in Seq(Asks)
          BY DEF Asks
        <4> QED BY <4>1, NoSessionOK, FieldsOK
      <3> HIDE DEF t
      <3> QED BY <1>a, <2>2, <3>2, <3>3, SessionMove DEF t
    <2> QED BY <1>4, <2>1, <2>2 DEF Connect
  <1>5. ASSUME NEW p \in Procs, Stanza(p) PROVE SessionInv'
    <2>1. PICK n : /\ \/ n \in {Node(name) : name \in Unasked}
                      \/ sess[p].owed # <<>> /\ n \in Answers(sess[p], Head(sess[p].owed))
                   /\ Received(p, HookCode(n))
                   /\ sess' = [sess EXCEPT ![p] =
                                 IF HookCode(n) \in {IKS_OK, IKS_HOOK}
                                 THEN OnStream(sess[p], n) ELSE NoSession]
      BY <1>5 DEF Stanza
    <2> DEFINE t == OnStream(sess[p], n)
    <2>2. /\ t \in Sessions /\ AskInv(t)
          /\ HookCode(n) = IKS_HOOK /\ ~t.ended => t.flags = {"authorized", "job_done"}
      BY <1>b, <2>1, StanzaOK
    <2> HIDE DEF t
    <2>3. CASE HookCode(n) = IKS_OK
      <3>1. pc' = pc /\ sess' = [sess EXCEPT ![p] = t] /\ pc[p] = "login"
        <4>1. pc[p] = "login"
          BY <1>5 DEF Stanza
        <4> QED BY <2>1, <2>3, <4>1 DEF Received, t, IKS_OK, IKS_HOOK
      <3>2. pc' = [pc EXCEPT ![p] = "login"]
        BY <3>1 DEF SessionInv
      <3> QED BY <1>a, <2>2, <3>1, <3>2, SessionMove
    <2>4. CASE HookCode(n) = IKS_HOOK
      <3>1. pc' = [pc EXCEPT ![p] = "presence"] /\ sess' = [sess EXCEPT ![p] = t]
        BY <2>1, <2>4 DEF Received, t, IKS_OK, IKS_HOOK
      <3>2. "presence" \notin Serving
        BY DEF Serving
      <3> QED BY <1>a, <2>2, <2>4, <3>1, <3>2, SessionMove
    <2>5. CASE HookCode(n) \notin {IKS_OK, IKS_HOOK}
      <3>1. pc' = [pc EXCEPT ![p] = "sleep"] /\ sess' = [sess EXCEPT ![p] = NoSession]
        BY <2>1, <2>5 DEF Received
      <3> QED BY <3>1, ResetMove
    <2> QED BY <2>3, <2>4, <2>5
  <1>6. ASSUME NEW p \in Procs, Turn(p) \/ RecvFails(p) PROVE SessionInv'
    <2>1. CASE EndSession(p, JL_CANNOT_CONNECT)
      BY <1>3, <2>1
    <2>2. CASE /\ pc[p] = "login" /\ pc' = pc /\ sess[p].counter > 1
               /\ sess' = [sess EXCEPT ![p].counter = @ - 1]
      <3> DEFINE t == [sess[p] EXCEPT !.counter = @ - 1]
      <3>1. t \in Sessions /\ AskInv(t)
        <4>1. t \in Sessions
          <5>1. sess[p].counter \in 1 .. Timeout
            BY <1>b, FieldsOK
          <5>2. sess[p].counter - 1 \in 1 .. Timeout
            BY <2>2, <5>1, JabberAssumption
          <5> QED BY <1>b, <5>2, FieldsOK
        <4>2. t.owed = sess[p].owed /\ t.flags = sess[p].flags
          BY <1>b DEF Sessions
        <4> HIDE DEF t
        <4> QED BY <1>b, <4>1, <4>2, AskKept
      <3>2. pc' = [pc EXCEPT ![p] = "login"] /\ sess' = [sess EXCEPT ![p] = t]
        BY <2>2 DEF SessionInv
      <3> HIDE DEF t
      <3> QED BY <1>a, <3>1, <3>2, SessionMove
    <2> QED BY <1>6, <2>1, <2>2 DEF Turn, RecvFails
  <1>7. ASSUME NEW p \in Procs, NEW s \in Sessions, NEW x \in Serving, NEW l,
               Writes(p, s, x, l), AskInv(s), pc[p] \in {"presence"} \union Serving,
               s.ended = sess[p].ended, s.flags = sess[p].flags
        PROVE  SessionInv'
    <2>1. pc' = [pc EXCEPT ![p] = x] /\ sess' = [sess EXCEPT ![p] = Wire(s)]
      BY <1>7 DEF Writes
    <2>2. ~Wire(s).ended => Wire(s).flags = {"authorized", "job_done"}
      BY <1>7, WireOK DEF SessionInv, LoginInv, RosterFirst
    <2> QED BY <1>7, <1>a, <2>1, <2>2, WireOK, SessionMove
  <1>8. ASSUME NEW p \in Procs, BrokenPipe(p, IKS_NET_RWERR) \/ BrokenPipe(p, JL_SERVER_DISCONNECTED)
        PROVE  SessionInv'
    BY <1>3, <1>8, ResetMove DEF BrokenPipe, Gone
  <1>9. ASSUME NEW p \in Procs, Presence(p) \/ SendMessage(p) \/ Read(p) \/ Alive(p)
        PROVE  SessionInv'
    <2> DEFINE s == [sess[p] EXCEPT !.tv = KeepAlive]
    <2>1. /\ s \in Sessions /\ AskInv(s)
          /\ s.ended = sess[p].ended /\ s.flags = sess[p].flags
      BY <1>b, JabberAssumption, SMTT(30) DEF Sessions, AskInv
    <2> HIDE DEF s
    <2>2. CASE Presence(p)
      <3>1. CASE Writes(p, s, "serve", "login")
        BY <1>7, <1>a, <2>1, <2>2, <3>1 DEF Presence
      <3>2. CASE EndSession(p, JL_NORMAL_ERROR)
        BY <1>3, <3>2
      <3> QED BY <2>2, <3>1, <3>2 DEF Presence, s
    <2>3. CASE SendMessage(p)
      <3>1. CASE Writes(p, sess[p], IF "jabber" \in sess[p].ready THEN "read" ELSE "alive",
                        "sent")
        BY <1>7, <1>a, <1>b, <2>3, <3>1 DEF SendMessage
      <3> QED BY <1>3, <1>8, <2>3, <3>1 DEF SendMessage
    <2>4. CASE Read(p)
      <3>1. CASE pc' = [pc EXCEPT ![p] = "alive"] /\ sess' = sess
        BY <1>a, <2>4, <3>1, ServeMove DEF Read
      <3> QED BY <1>3, <2>4, <3>1 DEF Read
    <2>5. CASE Alive(p)
      <3>1. CASE pc' = [pc EXCEPT ![p] = "serve"] /\ sess' = sess
        BY <1>a, <2>5, <3>1, ServeMove DEF Alive
      <3>2. CASE Writes(p, s, "serve", log)
        BY <1>7, <1>a, <2>1, <2>5, <3>2 DEF Alive
      <3> QED BY <1>8, <2>5, <3>1, <3>2 DEF Alive, s
    <2> QED BY <1>9, <2>2, <2>3, <2>4, <2>5
  <1>10. ASSUME NEW p \in Procs, Select(p) PROVE SessionInv'
    <2> SUFFICES ASSUME Returns(p) PROVE SessionInv'
      BY <1>3, <1>10 DEF Select
    <2>1. PICK r \in SUBSET {"log", "jabber"} :
            /\ pc' = [pc EXCEPT ![p] = IF "log" \in r THEN "send"
                                       ELSE IF "jabber" \in r THEN "read" ELSE "alive"]
            /\ sess' = [sess EXCEPT ![p].ready = r]
      BY DEF Returns
    <2> DEFINE t == [sess[p] EXCEPT !.ready = r]
               x == IF "log" \in r THEN "send"
                    ELSE IF "jabber" \in r THEN "read" ELSE "alive"
    <2>2. /\ t \in Sessions /\ AskInv(t) /\ t.ended = sess[p].ended
          /\ t.idle = sess[p].idle /\ t.tv = sess[p].tv /\ t.flags = sess[p].flags
      BY <1>b DEF Sessions, AskInv
    <2>3. pc' = [pc EXCEPT ![p] = x] /\ sess' = [sess EXCEPT ![p] = t] /\ x \in Serving
      BY <1>a, <2>1
    <2>4. /\ sess[p].idle + sess[p].tv <= KeepAlive
          /\ ~sess[p].ended => sess[p].flags = {"authorized", "job_done"}
      BY <1>10, <1>a DEF Select, SessionInv, TimeInv, LoginInv, RosterFirst
    <2> HIDE DEF t, x
    <2> QED BY <1>a, <2>2, <2>3, <2>4, SessionMove
  <1>11. ASSUME NEW p \in Procs, Tick(p) PROVE SessionInv'
    <2> DEFINE t == [sess[p] EXCEPT !.tv = @ - 1, !.idle = @ + 1]
    <2>1. /\ sess[p].idle + sess[p].tv <= KeepAlive
          /\ ~sess[p].ended => sess[p].flags = {"authorized", "job_done"}
      BY <1>11, <1>a DEF Tick, SessionInv, TimeInv, LoginInv, RosterFirst
    <2>2. sess[p].tv > 0
      BY <1>11 DEF Tick
    <2>3. /\ t \in Sessions /\ AskInv(t) /\ t.ended = sess[p].ended
          /\ t.idle + t.tv <= KeepAlive /\ t.flags = sess[p].flags
      <3>1. /\ t.owed = sess[p].owed /\ t.flags = sess[p].flags /\ t.ended = sess[p].ended
            /\ t.idle = sess[p].idle + 1 /\ t.tv = sess[p].tv - 1
        BY <1>b DEF Sessions
      <3>2. t \in Sessions
        <4>1. sess[p].tv - 1 \in 0 .. KeepAlive /\ sess[p].idle + 1 \in Nat
          <5>1. sess[p].tv \in 0 .. KeepAlive /\ sess[p].idle \in Nat
            BY <1>b, FieldsOK
          <5> QED BY <2>2, <5>1, JabberAssumption
        <4> QED BY <1>b, <4>1, FieldsOK
      <3>3. sess[p].idle \in Nat /\ sess[p].tv \in Nat
        BY <1>b DEF Sessions
      <3> HIDE DEF t
      <3>4. t.idle + t.tv <= KeepAlive
        BY <2>1, <3>1, <3>3, JabberAssumption
      <3> QED BY <1>b, <3>1, <3>2, <3>4, AskKept
    <2>4. pc' = [pc EXCEPT ![p] = "serve"] /\ sess' = [sess EXCEPT ![p] = t]
      BY <1>11 DEF Tick, SessionInv
    <2> HIDE DEF t
    <2> QED BY <1>a, <2>1, <2>3, <2>4, SessionMove
  <1>12. ASSUME NEW p \in Procs, HangUp(p) PROVE SessionInv'
    <2> DEFINE t == [sess[p] EXCEPT !.net = "closed"]
    <2>1. /\ t \in Sessions /\ AskInv(t) /\ t.ended = sess[p].ended
          /\ t.idle = sess[p].idle /\ t.tv = sess[p].tv /\ t.flags = sess[p].flags
      BY <1>b DEF Sessions, AskInv
    <2>2. pc' = [pc EXCEPT ![p] = pc[p]] /\ sess' = [sess EXCEPT ![p] = t]
      BY <1>12 DEF HangUp, SessionInv
    <2>3. /\ pc[p] \in Serving => t.idle + t.tv <= KeepAlive
          /\ pc[p] \in {"presence"} \union Serving /\ ~t.ended =>
               t.flags = {"authorized", "job_done"}
      BY <2>1 DEF SessionInv, TimeInv, LoginInv, RosterFirst
    <2> HIDE DEF t
    <2> QED BY <1>b, <2>1, <2>2, <2>3, SessionMove
  <1>13. CASE TunnelExits
    <2>1. pc' = pc /\ sess' \in [Procs -> Sessions]
      <3>1. \A q \in Procs : [sess[q] EXCEPT !.net = "closed"] \in Sessions
        BY <1>b DEF Sessions
      <3>2. /\ pc' = pc
            /\ sess' = [q \in Procs |-> IF pc[q] \in Connected /\ sess[q].net = "open"
                                       THEN [sess[q] EXCEPT !.net = "closed"] ELSE sess[q]]
        BY <1>13 DEF TunnelExits
      <3> QED BY <1>b, <3>1, <3>2
    <2>2. \A q \in Procs : /\ sess'[q].idle = sess[q].idle /\ sess'[q].tv = sess[q].tv
                           /\ sess'[q].flags = sess[q].flags /\ sess'[q].owed = sess[q].owed
                           /\ sess'[q].ended = sess[q].ended
      BY <1>13, <1>b DEF TunnelExits, Sessions
    <2>3. TimeInv'
      BY <2>1, <2>2 DEF SessionInv, TimeInv
    <2>4. LoginInv'
      BY <2>1, <2>2 DEF SessionInv, LoginInv, RosterFirst, AskInv
    <2> QED BY <2>1, <2>3, <2>4 DEF SessionInv
  <1> QED BY <1>1, <1>2, <1>4, <1>5, <1>6, <1>9, <1>10, <1>11, <1>12, <1>13 DEF Next, Step

----------------------------------------------------------------------------
(* The lock *)

(* What the lock depends on, in a step of process p. *)
LockVars(p, x) ==
  /\ pc' = [pc EXCEPT ![p] = x]
  /\ lock' = lock /\ heir' = heir /\ cloexec' = cloexec

(* Every step keeps LockInv. *)
LEMMA LockNext == TypeOK /\ LockInv /\ Next => LockInv'
  <1> SUFFICES ASSUME TypeOK, LockInv, Next PROVE LockInv'
    OBVIOUS
  <1> USE DEF LockInv, LockFollowsProcess
  <1>a. /\ pc \in [Procs -> PCs] /\ cloexec \in [Procs -> BOOLEAN]
        /\ lock \in Procs \union {None} /\ heir = None /\ None \notin Procs
    BY JabberAssumption DEF TypeOK, PCs
  <1>b. /\ "off" \notin Working /\ "lock" \notin Working
        /\ {"fcntl", "config", "tunnel", "bind", "connect", "sleep"} \subseteq Working
        /\ Connected \subseteq Working \ {"fcntl"} /\ Serving \subseteq Connected
        /\ {"login", "presence"} \subseteq Connected
        /\ {"serve", "send", "read", "alive"} = Serving
    BY DEF Working, Connected, Serving
  <1>1. ASSUME NEW p \in Procs, Gone(p), heir' = heir PROVE LockInv'
    BY <1>1, <1>a, <1>b DEF Gone
  <1>2. ASSUME NEW p \in Procs, NEW x \in Working \ {"fcntl"}, LockVars(p, x),
               pc[p] \in Working, pc[p] = "fcntl" => cloexec[p]
        PROVE  LockInv'
    BY <1>2, <1>a, <1>b DEF LockVars
  <1>3. ASSUME NEW p \in Procs, TryLock(p) PROVE LockInv'
    <2>1. CASE lock = None /\ lock' = p /\ pc' = [pc EXCEPT ![p] = "fcntl"]
               /\ UNCHANGED <<cloexec, heir>>
      BY <2>1, <1>a, <1>b
    <2>2. CASE UNCHANGED <<pc, lock, cloexec, heir>>
      BY <2>2
    <2> QED BY <1>1, <1>3, <2>1, <2>2 DEF TryLock
  <1>4. ASSUME NEW p \in Procs, SetCloexec(p) PROVE LockInv'
    <2>1. CASE Gone(p) /\ heir' = heir
      BY <1>1, <2>1
    <2>2. CASE /\ pc[p] = "fcntl" /\ pc' = [pc EXCEPT ![p] = "config"]
               /\ cloexec' = [cloexec EXCEPT ![p] = TRUE]
               /\ UNCHANGED <<lock, heir>>
      BY <2>2, <1>a, <1>b
    <2> QED BY <1>4, <2>1, <2>2 DEF SetCloexec
  <1>5. ASSUME NEW p \in Procs, ReadConf(p) \/ Kill(p) PROVE LockInv'
    <2>1. CASE Gone(p) /\ heir' = heir
      BY <1>1, <2>1
    <2>2. CASE pc[p] = "config" /\ LockVars(p, "tunnel")
      BY <1>2, <1>b, <2>2
    <2> QED BY <1>5, <2>1, <2>2 DEF ReadConf, Kill, LockVars
  <1>6. ASSUME NEW p \in Procs, KillTunnel(p) \/ Sleep(p) PROVE LockInv'
    <2>1. pc[p] \in {"tunnel", "sleep"} /\ \E x \in {"bind", "tunnel"} : LockVars(p, x)
      BY <1>6 DEF KillTunnel, Sleep, LockVars
    <2> QED BY <1>2, <1>b, <2>1
  <1>7. ASSUME NEW p \in Procs, StartTunnel(p) PROVE LockInv'
    <2>1. pc[p] = "bind" /\ cloexec[p]
      BY <1>7, <1>b DEF StartTunnel
    <2>2. LockVars(p, "connect")
      BY <1>7, <1>a, <2>1 DEF StartTunnel, LockVars
    <2> QED BY <1>2, <1>b, <2>1, <2>2
  <1>8. ASSUME NEW p \in Procs, NEW c, EndSession(p, c), pc[p] \in Working \ {"fcntl"}
        PROVE  LockInv'
    BY <1>2, <1>8, <1>b DEF EndSession, LockVars
  <1>9. ASSUME NEW p \in Procs, Start(p) PROVE LockInv'
    BY <1>9, <1>a, <1>b DEF Start
  <1>10. ASSUME NEW p \in Procs, Connect(p) \/ Turn(p) \/ RecvFails(p) PROVE LockInv'
    <2>1. pc[p] \in Working \ {"fcntl"}
      BY <1>10, <1>b DEF Connect, Turn, RecvFails
    <2>2. CASE LockVars(p, "login")
      BY <1>2, <1>b, <2>1, <2>2
    <2>3. CASE UNCHANGED <<pc, lock, cloexec, heir>>
      BY <2>3
    <2> QED BY <1>8, <1>10, <2>1, <2>2, <2>3 DEF Connect, Turn, RecvFails, LockVars
  <1>11. ASSUME NEW p \in Procs, Stanza(p) PROVE LockInv'
    <2>1. pc[p] = "login" /\ UNCHANGED <<lock, cloexec, heir>>
      BY <1>11 DEF Stanza
    <2>2. \/ pc' = pc
          \/ \E x \in {"presence", "sleep"} : pc' = [pc EXCEPT ![p] = x]
      BY <1>11 DEF Stanza, Received
    <2>3. CASE pc' = pc
      BY <2>1, <2>3
    <2>4. CASE \E x \in {"presence", "sleep"} : LockVars(p, x)
      BY <1>2, <1>b, <2>1, <2>4
    <2> QED BY <2>1, <2>2, <2>3, <2>4 DEF LockVars
  <1>12. ASSUME NEW p \in Procs, Presence(p) \/ SendMessage(p) \/ Read(p) \/ Alive(p)
         PROVE  LockInv'
    <2>1. pc[p] \in Working \ {"fcntl"}
      BY <1>12, <1>b DEF Presence, SendMessage, Read, Alive
    <2>2. CASE \E x \in Serving : LockVars(p, x)
      BY <1>2, <1>b, <2>1, <2>2
    <2>3. CASE \E c : EndSession(p, c)
      BY <1>8, <2>1, <2>3
    <2>4. CASE Gone(p) /\ heir' = heir
      BY <1>1, <2>4
    <2>5. CASE Presence(p)
      BY <1>b, <2>5, <2>2, <2>3 DEF Presence, Writes, LockVars
    <2>6. CASE SendMessage(p)
      BY <1>b, <2>6, <2>2, <2>3, <2>4 DEF SendMessage, Writes, BrokenPipe, LockVars
    <2>7. CASE Read(p)
      BY <1>b, <2>7, <2>2, <2>3 DEF Read, LockVars
    <2>8. CASE Alive(p)
      BY <1>b, <2>8, <2>2, <2>3, <2>4 DEF Alive, Writes, BrokenPipe, LockVars
    <2> QED BY <1>12, <2>5, <2>6, <2>7, <2>8
  <1>13. ASSUME NEW p \in Procs, Select(p) PROVE LockInv'
    <2>1. CASE Returns(p)
      <3>1. pc[p] = "serve" /\ \E x \in {"send", "read", "alive"} : LockVars(p, x)
        BY <1>13, <2>1 DEF Select, Returns, LockVars
      <3> QED BY <1>2, <1>b, <3>1
    <2>2. pc[p] \in Working \ {"fcntl"}
      BY <1>13, <1>b DEF Select
    <2> QED BY <1>8, <1>13, <2>1, <2>2 DEF Select
  <1>14. ASSUME NEW p \in Procs, Tick(p) \/ HangUp(p) PROVE LockInv'
    BY <1>14 DEF Tick, HangUp
  <1>15. CASE TunnelExits
    BY <1>15, <1>a DEF TunnelExits
  <1> QED BY <1>3, <1>4, <1>5, <1>6, <1>7, <1>9, <1>10, <1>11, <1>12, <1>13, <1>14, <1>15
          DEF Next, Step

----------------------------------------------------------------------------
(* The other variables *)

DataInv ==
  /\ tries \in [Procs -> 0 .. LockTries - 1]
  /\ lock \in Procs \union {None} /\ heir \in Procs \union {None}
  /\ cloexec \in [Procs -> BOOLEAN]
  /\ tunnel \in {"none", "up", "dying"}
  /\ log \in {"none", "login", "sent", "disconnected", "cannot connect",
             "authentication failed"}

(* The attempts to get the lock: 0, and one more below the limit. *)
LEMMA TriesInRange ==
  /\ 0 \in 0 .. LockTries - 1
  /\ \A n \in 0 .. LockTries - 1 : n + 1 < LockTries => n + 1 \in 0 .. LockTries - 1
  BY JabberAssumption

(* Every step keeps DataInv. *)
LEMMA DataNext == DataInv /\ Next => DataInv'
  <1> SUFFICES ASSUME DataInv, Next PROVE DataInv'
    OBVIOUS
  <1> USE DEF DataInv
  <1>1. ASSUME NEW p \in Procs, Gone(p), UNCHANGED <<tunnel, heir, log>> PROVE DataInv'
    <2>1. tries' \in [Procs -> 0 .. LockTries - 1]
      BY TriesInRange, <1>1 DEF Gone
    <2>2. cloexec' \in [Procs -> BOOLEAN]
      BY <1>1 DEF Gone
    <2>3. lock' \in Procs \union {None}
      BY <1>1 DEF Gone
    <2> QED BY <1>1, <2>1, <2>2, <2>3
  <1>2. ASSUME NEW p \in Procs, NEW c, EndSession(p, c) PROVE DataInv'
    BY <1>2 DEF EndSession, Entry
  <1>3. ASSUME NEW p \in Procs, TryLock(p) PROVE DataInv'
    <2>1. CASE /\ tries[p] + 1 < LockTries /\ tries' = [tries EXCEPT ![p] = @ + 1]
               /\ UNCHANGED <<lock, heir, cloexec, tunnel, log>>
      <3>1. tries[p] + 1 \in 0 .. LockTries - 1
        BY <2>1, TriesInRange
      <3>2. tries' \in [Procs -> 0 .. LockTries - 1]
        BY <2>1, <3>1
      <3> QED BY <2>1, <3>2
    <2>2. CASE lock' = p /\ UNCHANGED <<tries, heir, cloexec, tunnel, log>>
      BY <2>2
    <2> QED BY <1>1, <1>3, <2>1, <2>2 DEF TryLock
  <1>4. ASSUME NEW p \in Procs, SetCloexec(p) \/ ReadConf(p) \/ Kill(p) PROVE DataInv'
    <2>1. CASE cloexec' = [cloexec EXCEPT ![p] = TRUE]
               /\ UNCHANGED <<tries, lock, heir, tunnel, log>>
      BY <2>1
    <2>2. CASE UNCHANGED <<tries, lock, heir, cloexec, tunnel, log>>
      BY <2>2
    <2> QED BY <1>1, <1>4, <2>1, <2>2 DEF SetCloexec, ReadConf, Kill
  <1>5. ASSUME NEW p \in Procs, KillTunnel(p) \/ StartTunnel(p) PROVE DataInv'
    BY <1>5 DEF KillTunnel, StartTunnel
  <1>6. ASSUME NEW p \in Procs, Sleep(p) \/ Select(p) \/ Tick(p) \/ HangUp(p) PROVE DataInv'
    <2>1. CASE Returns(p)
      BY <2>1 DEF Returns
    <2> QED BY <1>2, <1>6, <2>1 DEF Sleep, Select, Tick, HangUp
  <1>7. ASSUME NEW p \in Procs, Start(p) PROVE DataInv'
    <2>1. tries' \in [Procs -> 0 .. LockTries - 1]
      BY TriesInRange, <1>7 DEF Start
    <2> QED BY <1>7, <2>1 DEF Start
  <1>8. ASSUME NEW p \in Procs, Connect(p) \/ Turn(p) \/ RecvFails(p) PROVE DataInv'
    <2>1. CASE UNCHANGED <<tries, lock, heir, cloexec, tunnel, log>>
      BY <2>1
    <2> QED BY <1>2, <1>8, <2>1 DEF Connect, Turn, RecvFails
  <1>9. ASSUME NEW p \in Procs, Stanza(p) PROVE DataInv'
    BY <1>9 DEF Stanza, Received, Entry
  <1>10. ASSUME NEW p \in Procs, NEW s, NEW x, NEW l, Writes(p, s, x, l),
                l \in {log, "login", "sent"}
         PROVE  DataInv'
    BY <1>10 DEF Writes
  <1>11. ASSUME NEW p \in Procs, NEW c, BrokenPipe(p, c) PROVE DataInv'
    BY <1>1, <1>2, <1>11 DEF BrokenPipe
  <1>12. ASSUME NEW p \in Procs, Presence(p) PROVE DataInv'
    BY <1>2, <1>10, <1>12 DEF Presence
  <1>13. ASSUME NEW p \in Procs, SendMessage(p) PROVE DataInv'
    BY <1>2, <1>10, <1>11, <1>13 DEF SendMessage
  <1>14. ASSUME NEW p \in Procs, Read(p) PROVE DataInv'
    <2>1. CASE UNCHANGED <<tries, lock, heir, cloexec, tunnel, log>>
      BY <2>1
    <2> QED BY <1>2, <1>14, <2>1 DEF Read
  <1>15. ASSUME NEW p \in Procs, Alive(p) PROVE DataInv'
    <2>1. CASE UNCHANGED <<tries, lock, heir, cloexec, tunnel, log>>
      BY <2>1
    <2> QED BY <1>10, <1>11, <1>15, <2>1 DEF Alive
  <1>16. CASE TunnelExits
    BY <1>16 DEF TunnelExits
  <1> QED BY <1>3, <1>4, <1>5, <1>6, <1>7, <1>8, <1>9, <1>12, <1>13, <1>14, <1>15, <1>16
          DEF Next, Step

----------------------------------------------------------------------------
(* Theorems *)

(* The inductive invariant: types, the lock and its one owner, the time select
   has left, and how far the login has come, for any number of loggers that are
   started and killed at any time. *)
THEOREM JabberInvariant == Spec => []JabberInv
  <1>1. Init => JabberInv
    <2> SUFFICES ASSUME Init PROVE JabberInv
      OBVIOUS
    <2>1. "off" \notin Working /\ "off" \notin {"presence"} \union Serving
      BY DEF Working, Connected, Serving
    <2>2. TypeOK
      BY NoSessionOK, JabberAssumption DEF Init, TypeOK
    <2>3. LockInv
      BY <2>1 DEF Init, LockInv, LockFollowsProcess
    <2>4. TimeInv /\ RosterFirst
      BY <2>1 DEF Init, TimeInv, RosterFirst
    <2>5. \A p \in Procs : AskInv(sess[p])
      BY NoSessionOK DEF Init
    <2> QED BY <2>2, <2>3, <2>4, <2>5 DEF JabberInv, LoginInv
  <1>2. JabberInv /\ [Next]_vars => JabberInv'
    <2> SUFFICES ASSUME JabberInv, [Next]_vars PROVE JabberInv'
      OBVIOUS
    <2>1. CASE Next
      <3>1. SessionInv /\ DataInv
        BY DEF JabberInv, TypeOK, SessionInv, DataInv, PCs
      <3>2. SessionInv' /\ DataInv' /\ LockInv'
        BY <2>1, <3>1, SessionNext, DataNext, LockNext DEF JabberInv
      <3> QED BY <3>2 DEF JabberInv, TypeOK, SessionInv, DataInv, PCs
    <2>2. CASE UNCHANGED vars
      BY <2>2 DEF vars, JabberInv, TypeOK, LockInv, LockFollowsProcess, TimeInv, LoginInv,
                  RosterFirst, AskInv
    <2> QED BY <2>1, <2>2
  <1> QED BY <1>1, <1>2, PTL DEF Spec

(* Every variable keeps its type; the counter of a login never passes 0. *)
THEOREM TypeCorrect == Spec => []TypeOK
  BY JabberInvariant, PTL DEF JabberInv

(* Of any number of loggers one at a time is past the lock of main. *)
THEOREM AtMostOneSession == Spec => []OneSession
  <1>1. JabberInv => OneSession
    BY DEF JabberInv, LockInv, OneSession
  <1> QED BY <1>1, JabberInvariant, PTL

(* A logger that is killed gives its lock back: the tunnel does not keep it. *)
THEOREM LockIsReturned == Spec => []LockFollowsProcess
  <1>1. JabberInv => LockFollowsProcess
    BY DEF JabberInv, LockInv
  <1> QED BY <1>1, JabberInvariant, PTL

(* Behind a login on a standing connection are an authorisation and a roster. *)
THEOREM LoginsAreWhole == Spec => []RosterFirst
  <1>1. JabberInv => RosterFirst
    BY DEF JabberInv, LoginInv
  <1> QED BY <1>1, JabberInvariant, PTL

(* A standing connection is never silent for longer than the keep-alive time. *)
THEOREM StaysAlive == Spec => []KeptAlive
  <1>1. JabberInv => KeptAlive
    <2> SUFFICES ASSUME JabberInv, NEW p \in Procs, pc[p] \in Serving
                 PROVE  sess[p].idle <= KeepAlive
      BY DEF KeptAlive
    <2>1. sess[p].idle + sess[p].tv <= KeepAlive
      BY DEF JabberInv, TimeInv
    <2>2. sess[p].tv \in 0 .. KeepAlive /\ sess[p].idle \in Nat
      BY FieldsOK DEF JabberInv, TypeOK
    <2> QED BY <2>1, <2>2, JabberAssumption
  <1> QED BY <1>1, JabberInvariant, PTL

============================================================================
