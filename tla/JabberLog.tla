----------------------------- MODULE JabberLog -----------------------------
(***************************************************************************)
(* The Jabber logger jabber_main.c: it takes a lock, starts an SSL tunnel, *)
(* logs in to a Jabber server through it, passes on the messages of the    *)
(* system log, keeps the connection alive, and tries again ten minutes     *)
(* after it has ended.  Several of them may be started, and any of them    *)
(* may be killed at any time.                                              *)
(*                                                                         *)
(* The server answers what it is asked, in order, sends stanzas nobody has *)
(* asked for, ends the stream or closes the connection when it likes (the  *)
(* one without the other too), or falls silent.  Stanzas are known by what *)
(* on_stream tells apart; a message of the log has no content.             *)
(***************************************************************************)
EXTENDS Integers, Sequences, FiniteSets

CONSTANTS
  Procs,      \* processes that run jabberlog
  None,
  LockTries,  \* attempts to get the lock: 20
  Timeout,    \* opt_timeout
  KeepAlive   \* seconds between two keep-alive messages: 5*60

ASSUME JabberAssumption ==
  /\ None \notin Procs
  /\ LockTries \in Nat \ {0} /\ Timeout \in Nat \ {0} /\ KeepAlive \in Nat \ {0}

\* The codes of the library (ikserror) and those of jabber_main.c, which
\* on_stream returns to the library.
IKS_OK   == 0
IKS_HOOK == 3
IKS_NET_RWERR == 7
JL_NORMAL_ERROR        == 1
JL_AUTHEN_FAILED       == 2
JL_SERVER_DISCONNECTED == 3
JL_CANNOT_CONNECT      == 4

VARIABLES
  pc,       \* where each process is
  tries,    \* i: attempts to get the lock
  lock,     \* the process whose open file has the lock
  cloexec,  \* FD_CLOEXEC is set on the lock file
  tunnel,   \* jabber_stunnel: "none", "up" or, after SIGTERM, "dying"
  heir,     \* the process whose lock file the tunnel has inherited
  sess,     \* the session of each process, and its sockets
  log       \* the last entry made with AddLog

vars == <<pc, tries, lock, cloexec, tunnel, heir, sess, log>>

Serving   == {"serve", "send", "read", "alive"}
Connected == {"login", "presence"} \union Serving
\* The steps that need the lock.
Working   == {"fcntl", "config", "tunnel", "bind", "connect", "sleep"} \union Connected

\* struct session after memset, with the socket and the locals of j_main:
\* flags are authorized and job_done, owed the requests the server has not
\* answered, idle the time since the client last wrote; ended is history: the
\* server has ended the stream.
NoSession ==
  [flags |-> {}, counter |-> Timeout, owed |-> <<>>, ended |-> FALSE,
   net |-> "open", tv |-> KeepAlive, idle |-> 0, ready |-> {}]

Init ==
  /\ pc = [p \in Procs |-> "off"] /\ tries = [p \in Procs |-> 0]
  /\ lock = None /\ cloexec = [p \in Procs |-> FALSE]
  /\ tunnel = "none" /\ heir = None
  /\ sess = [p \in Procs |-> NoSession] /\ log = "none"

----------------------------------------------------------------------------
(* The life of a process *)

Start(p) ==
  /\ pc[p] = "off"
  /\ pc' = [pc EXCEPT ![p] = "lock"]
  /\ tries' = [tries EXCEPT ![p] = 0]
  /\ UNCHANGED <<lock, cloexec, tunnel, heir, sess, log>>

\* The end of a process closes its descriptors.  The lock goes with the last
\* descriptor of the open file, which the tunnel may have.
Gone(p) ==
  /\ pc' = [pc EXCEPT ![p] = "off"]
  /\ lock' = IF lock = p /\ heir # p THEN None ELSE lock
  /\ cloexec' = [cloexec EXCEPT ![p] = FALSE]
  /\ sess' = [sess EXCEPT ![p] = NoSession]
  /\ tries' = [tries EXCEPT ![p] = 0]

Kill(p) ==
  /\ pc[p] # "off"
  /\ Gone(p)
  /\ UNCHANGED <<tunnel, heir, log>>

(* Mutant of TryLock: after the last attempt the program goes on. *)
TryLockAnyway(p) ==
  /\ pc[p] = "lock"
  /\ \/ /\ lock = None
        /\ lock' = p
        /\ pc' = [pc EXCEPT ![p] = "fcntl"]
        /\ UNCHANGED <<tries, cloexec, sess>>
     \/ /\ lock # None /\ tries[p] + 1 < LockTries
        /\ tries' = [tries EXCEPT ![p] = @ + 1]
        /\ UNCHANGED <<pc, lock, cloexec, sess>>
     \/ /\ lock # None /\ tries[p] + 1 = LockTries
        /\ pc' = [pc EXCEPT ![p] = "fcntl"]
        /\ UNCHANGED <<tries, lock, cloexec, sess>>
  /\ UNCHANGED <<tunnel, heir, log>>

\* flock with LOCK_NB, up to twenty times, a second apart.
TryLock(p) ==
  /\ pc[p] = "lock"
  /\ \/ /\ lock = None
        /\ lock' = p
        /\ pc' = [pc EXCEPT ![p] = "fcntl"]
        /\ UNCHANGED <<tries, cloexec, sess>>
     \/ /\ lock # None /\ tries[p] + 1 < LockTries
        /\ tries' = [tries EXCEPT ![p] = @ + 1]
        /\ UNCHANGED <<pc, lock, cloexec, sess>>
     \/ /\ lock # None /\ tries[p] + 1 = LockTries
        /\ Gone(p)
  /\ UNCHANGED <<tunnel, heir, log>>

(* Mutant of SetCloexec: FD_CLOEXEC is not set. *)
SetCloexecForgotten(p) ==
  /\ pc[p] = "fcntl"
  /\ pc' = [pc EXCEPT ![p] = "config"]
  /\ UNCHANGED <<tries, lock, cloexec, tunnel, heir, sess, log>>

SetCloexec(p) ==
  /\ pc[p] = "fcntl"
  /\ \/ /\ pc' = [pc EXCEPT ![p] = "config"]
        /\ cloexec' = [cloexec EXCEPT ![p] = TRUE]
        /\ UNCHANGED <<tries, lock, sess>>
     \/ Gone(p)   \* fcntl fails
  /\ UNCHANGED <<tunnel, heir, log>>

\* The configuration, which may be missing or say that logging is disabled.
ReadConf(p) ==
  /\ pc[p] = "config"
  /\ \/ Gone(p)
     \/ /\ pc' = [pc EXCEPT ![p] = "tunnel"]
        /\ UNCHANGED <<tries, lock, cloexec, sess>>
  /\ UNCHANGED <<tunnel, heir, log>>

\* create_stunnel: killall, which does not wait ...
KillTunnel(p) ==
  /\ pc[p] = "tunnel"
  /\ pc' = [pc EXCEPT ![p] = "bind"]
  /\ tunnel' = IF tunnel = "up" THEN "dying" ELSE tunnel
  /\ UNCHANGED <<tries, lock, cloexec, heir, sess, log>>

\* ... and the new tunnel, which ends at once when the port is still taken or
\* the file of its configuration cannot be written.  Its status is not asked.
StartTunnel(p) ==
  /\ pc[p] = "bind"
  /\ pc' = [pc EXCEPT ![p] = "connect"]
  /\ \/ /\ tunnel = "none"
        /\ tunnel' = "up"
        /\ heir' = IF cloexec[p] THEN None ELSE p
     \/ UNCHANGED <<tunnel, heir>>
  /\ UNCHANGED <<tries, lock, cloexec, sess, log>>

\* A tunnel that goes takes its connections and its descriptors with it.
TunnelExits ==
  /\ tunnel = "dying"
  /\ tunnel' = "none"
  /\ heir' = None
  /\ lock' = IF heir # None /\ lock = heir /\ pc[heir] = "off" THEN None ELSE lock
  /\ sess' = [p \in Procs |->
                IF pc[p] \in Connected /\ sess[p].net = "open"
                THEN [sess[p] EXCEPT !.net = "closed"] ELSE sess[p]]
  /\ UNCHANGED <<pc, tries, cloexec, log>>

----------------------------------------------------------------------------
(* The end of j_main: errout, and the entry in the log *)

Entry(errcode) ==
  IF errcode = JL_CANNOT_CONNECT THEN "cannot connect"
  ELSE IF errcode = JL_AUTHEN_FAILED THEN "authentication failed"
  ELSE IF errcode = JL_SERVER_DISCONNECTED THEN "disconnected" ELSE log

EndSession(p, errcode) ==
  /\ pc' = [pc EXCEPT ![p] = "sleep"]
  /\ sess' = [sess EXCEPT ![p] = NoSession]
  /\ log' = Entry(errcode)
  /\ UNCHANGED <<tries, lock, cloexec, tunnel, heir>>

\* sleep(10*60)
Sleep(p) ==
  /\ pc[p] = "sleep"
  /\ pc' = [pc EXCEPT ![p] = "tunnel"]
  /\ UNCHANGED <<tries, lock, cloexec, tunnel, heir, sess, log>>

----------------------------------------------------------------------------
(* j_connect *)

\* iks_connect_tcp, to the tunnel; the stream header is sent.
Connect(p) ==
  /\ pc[p] = "connect"
  /\ \/ /\ tunnel # "none"
        /\ pc' = [pc EXCEPT ![p] = "login"]
        /\ sess' = [sess EXCEPT ![p] = [NoSession EXCEPT !.owed = <<"header">>]]
        /\ UNCHANGED <<tries, lock, cloexec, tunnel, heir, log>>
     \/ EndSession(p, JL_CANNOT_CONNECT)

Node(name) == [name |-> name, has |-> {}]

\* What the server may answer to the request it owes an answer to.  No rule
\* of the filter matches the answer to the bind request, which has no id, or an
\* error in answer to the request for the roster.
Replies ==
  [header |-> {"start"}, sasl |-> {"success", "failure", "challenge"},
   bind |-> {"unmatched"}, session |-> {"auth_result", "auth_error"},
   roster |-> {"roster_result", "unmatched"}]
Answers(s, ask) ==
  IF ask = "features"
  THEN [name : {"features"},
        has : SUBSET IF "authorized" \in s.flags THEN {"BIND", "SESSION"} ELSE {"MD5", "PLAIN"}]
  ELSE {Node(name) : name \in Replies[ask]}

\* What the client asks on a stanza: on_stream, on_result, and, unseen by
\* on_stream, iks_sasl_challenge.  The features follow a start by themselves.
AskOnFeatures(s, has) ==
  IF "authorized" \in s.flags
  THEN (IF "BIND" \in has THEN <<"bind">> ELSE <<>>)
         \o (IF "SESSION" \in has THEN <<"session">> ELSE <<>>)
  ELSE IF has # {} THEN <<"sasl">> ELSE <<>>
AskOn == [start |-> "features", challenge |-> "sasl", success |-> "header",
          auth_result |-> "roster"]
Requests(s, n) ==
  IF n.name = "features" THEN AskOnFeatures(s, n.has)
  ELSE IF n.name \in DOMAIN AskOn THEN <<AskOn[n.name]>> ELSE <<>>

Codes == [failure |-> JL_AUTHEN_FAILED, stop |-> JL_SERVER_DISCONNECTED,
          error |-> JL_NORMAL_ERROR, roster_result |-> IKS_HOOK]

(* Mutant of HookCode: the login counts as done before the roster has come. *)
HookCodeEarly(n) ==
  IF n.name = "auth_result" THEN IKS_HOOK
  ELSE IF n.name \in DOMAIN Codes THEN Codes[n.name] ELSE IKS_OK

\* What on_stream returns, and iks_recv after it.
HookCode(n) == IF n.name \in DOMAIN Codes THEN Codes[n.name] ELSE IKS_OK

\* A message, presence or iq that no rule of the filter matches, and the end of
\* the stream in order or in error, come unasked.
Unasked == {"other", "stop", "error"}

\* The end of the stream leaves the connection as it is.
OnStream(s, n) ==
  [s EXCEPT !.counter = IF n.name = "challenge" THEN @ ELSE Timeout,
            !.flags = @ \union (IF n.name = "success" THEN {"authorized"} ELSE {})
                        \union (IF n.name = "roster_result" THEN {"job_done"} ELSE {}),
            !.owed = IF n.name \in Unasked THEN @ ELSE Tail(@) \o Requests(s, n),
            !.ended = @ \/ n.name = "stop"]

\* The loop of j_connect on what iks_recv has returned.
Received(p, e) ==
  \/ e = IKS_OK /\ UNCHANGED <<pc, log>>
  \/ e = IKS_HOOK /\ pc' = [pc EXCEPT ![p] = "presence"] /\ UNCHANGED log
  \/ /\ e \notin {IKS_OK, IKS_HOOK}
     /\ pc' = [pc EXCEPT ![p] = "sleep"]
     /\ log' = Entry(JL_CANNOT_CONNECT)

Stanza(p) ==
  /\ pc[p] = "login" /\ sess[p].net = "open"
  /\ \E n \in {Node(name) : name \in Unasked} \union
              (IF sess[p].owed = <<>> THEN {} ELSE Answers(sess[p], Head(sess[p].owed))) :
       LET e == HookCode(n)
       IN  /\ Received(p, e)
           /\ sess' = [sess EXCEPT ![p] =
                         IF e \in {IKS_OK, IKS_HOOK} THEN OnStream(sess[p], n) ELSE NoSession]
  /\ UNCHANGED <<tries, lock, cloexec, tunnel, heir>>

(* Mutant of Turn: the counter is set again on every turn. *)
TurnRewinds(p) ==
  /\ pc[p] = "login" /\ sess[p].net = "open"
  /\ sess' = [sess EXCEPT ![p].counter = Timeout]
  /\ UNCHANGED <<pc, tries, lock, cloexec, tunnel, heir, log>>

\* iks_recv returns after a second, or when it has read all there was.
Turn(p) ==
  /\ pc[p] = "login" /\ sess[p].net = "open"
  /\ \/ /\ sess[p].counter > 1
        /\ sess' = [sess EXCEPT ![p].counter = @ - 1]
        /\ UNCHANGED <<pc, tries, lock, cloexec, tunnel, heir, log>>
     \/ /\ sess[p].counter = 1
        /\ EndSession(p, JL_CANNOT_CONNECT)

\* recv returns no more than 0: IKS_NET_RWERR.
RecvFails(p) ==
  /\ pc[p] = "login" /\ sess[p].net # "open"
  /\ EndSession(p, JL_CANNOT_CONNECT)

\* A write to the socket: the first one after the other end has closed is
\* answered with a reset, and the next one raises SIGPIPE.  Whether that ends
\* the process or is ignored depends on the program that has started it.
Wire(s) == [s EXCEPT !.net = IF @ = "open" THEN @ ELSE "reset", !.idle = 0]
Broken(p) == sess[p].net = "reset"
Writes(p, s, next, entry) ==
  /\ ~Broken(p)
  /\ pc' = [pc EXCEPT ![p] = next]
  /\ sess' = [sess EXCEPT ![p] = Wire(s)]
  /\ log' = entry
  /\ UNCHANGED <<tries, lock, cloexec, tunnel, heir>>
BrokenPipe(p, errcode) ==
  /\ Broken(p)
  /\ \/ Gone(p) /\ UNCHANGED <<tunnel, heir, log>>
     \/ EndSession(p, errcode)

\* The presence, whose result is not looked at, and the socket for the system
\* log, which may fail; then the login is logged.
Presence(p) ==
  /\ pc[p] = "presence"
  /\ \/ Writes(p, [sess[p] EXCEPT !.tv = KeepAlive], "serve", "login")
     \/ EndSession(p, JL_NORMAL_ERROR)

----------------------------------------------------------------------------
(* The loop of j_main *)

\* Time passes while select blocks, and select takes it from tv.
Tick(p) ==
  /\ pc[p] = "serve" /\ sess[p].net = "open" /\ sess[p].tv > 0
  /\ sess' = [sess EXCEPT ![p].tv = @ - 1, ![p].idle = @ + 1]
  /\ UNCHANGED <<pc, tries, lock, cloexec, tunnel, heir, log>>

(* Mutant of Returns: each call of select is given the full time. *)
ReturnsRewinds(p) ==
  /\ \E r \in SUBSET {"log", "jabber"} :
       /\ r # {} \/ sess[p].tv = 0
       /\ sess[p].net # "open" => "jabber" \in r
       /\ pc' = [pc EXCEPT ![p] = IF "log" \in r THEN "send"
                                  ELSE IF "jabber" \in r THEN "read" ELSE "alive"]
       /\ sess' = [sess EXCEPT ![p].ready = r,
                               ![p].tv = IF r = {} THEN @ ELSE KeepAlive]
  /\ UNCHANGED <<tries, lock, cloexec, tunnel, heir, log>>

\* select returns: something can be read, or the time has run out.
Returns(p) ==
  /\ \E r \in SUBSET {"log", "jabber"} :
       /\ r # {} \/ sess[p].tv = 0
       /\ sess[p].net # "open" => "jabber" \in r
       /\ pc' = [pc EXCEPT ![p] = IF "log" \in r THEN "send"
                                  ELSE IF "jabber" \in r THEN "read" ELSE "alive"]
       /\ sess' = [sess EXCEPT ![p].ready = r]
  /\ UNCHANGED <<tries, lock, cloexec, tunnel, heir, log>>

Select(p) ==
  /\ pc[p] = "serve"
  /\ \/ Returns(p)
     \/ EndSession(p, JL_SERVER_DISCONNECTED)   \* select fails

\* A message of the system log is read and sent on.
SendMessage(p) ==
  /\ pc[p] = "send"
  /\ \/ Writes(p, sess[p], IF "jabber" \in sess[p].ready THEN "read" ELSE "alive", "sent")
     \/ BrokenPipe(p, IKS_NET_RWERR)
     \/ EndSession(p, JL_SERVER_DISCONNECTED)   \* the read fails

(* Mutant of Read: the end of the stream is skipped like a message. *)
ReadNoEnd(p) ==
  /\ pc[p] = "read"
  /\ pc' = [pc EXCEPT ![p] = "alive"]
  /\ UNCHANGED <<tries, lock, cloexec, tunnel, heir, sess, log>>

\* What comes from the server is skipped; its end is noticed.
Read(p) ==
  /\ pc[p] = "read"
  /\ \/ /\ sess[p].net = "open"
        /\ pc' = [pc EXCEPT ![p] = "alive"]
        /\ UNCHANGED <<tries, lock, cloexec, tunnel, heir, sess, log>>
     \/ EndSession(p, JL_SERVER_DISCONNECTED)   \* the end, or an error

\* The keep-alive message, when less than a second of the time is left.
Alive(p) ==
  /\ pc[p] = "alive"
  /\ \/ /\ sess[p].tv > 0
        /\ pc' = [pc EXCEPT ![p] = "serve"]
        /\ UNCHANGED <<tries, lock, cloexec, tunnel, heir, sess, log>>
     \/ /\ sess[p].tv = 0
        /\ \/ Writes(p, [sess[p] EXCEPT !.tv = KeepAlive], "serve", log)
           \/ BrokenPipe(p, JL_SERVER_DISCONNECTED)

\* The server, or the tunnel for it, closes the connection.
HangUp(p) ==
  /\ pc[p] \in Connected /\ sess[p].net = "open"
  /\ sess' = [sess EXCEPT ![p].net = "closed"]
  /\ UNCHANGED <<pc, tries, lock, cloexec, tunnel, heir, log>>

----------------------------------------------------------------------------
\* The program's own steps.
Step(p) ==
  \/ TryLock(p) \/ SetCloexec(p) \/ ReadConf(p) \/ KillTunnel(p) \/ StartTunnel(p)
  \/ Connect(p) \/ Turn(p) \/ RecvFails(p) \/ Presence(p)
  \/ Select(p) \/ SendMessage(p) \/ Read(p) \/ Alive(p) \/ Sleep(p)

Next ==
  \/ \E p \in Procs : Step(p) \/ Stanza(p) \/ Tick(p) \/ HangUp(p) \/ Start(p) \/ Kill(p)
  \/ TunnelExits

Spec == Init /\ [][Next]_vars

\* The kernel runs a process that can run, and a second passes.  Nothing is
\* assumed of the server, which may also go on sending for ever.
FairSpec == Spec /\ \A p \in Procs : WF_vars(Step(p))

----------------------------------------------------------------------------
Sessions ==
  [flags : SUBSET {"authorized", "job_done"}, counter : 1 .. Timeout,
   owed : Seq({"header", "features", "sasl", "bind", "session", "roster"}),
   ended : BOOLEAN,
   net : {"open", "closed", "reset"}, tv : 0 .. KeepAlive, idle : Nat,
   ready : SUBSET {"log", "jabber"}]

(* Every variable has its type; in particular the counter of the login never
   passes 0, where the test for the end of the wait looks for it. *)
TypeOK ==
  /\ pc \in [Procs -> {"off", "lock"} \union Working]
  /\ tries \in [Procs -> 0 .. LockTries - 1]
  /\ lock \in Procs \union {None} /\ heir \in Procs \union {None}
  /\ cloexec \in [Procs -> BOOLEAN]
  /\ tunnel \in {"none", "up", "dying"}
  /\ sess \in [Procs -> Sessions]
  /\ log \in {"none", "login", "sent", "disconnected", "cannot connect",
             "authentication failed"}

(* However often jabberlog is started and killed, one process at a time is
   past the lock of main: another would kill its tunnel and take the socket
   of the system log. *)
OneSession == \A p, q \in Procs : pc[p] \in Working /\ pc[q] \in Working => p = q

(* The lock goes with the process that has it: the tunnel, which outlives a
   logger that is killed, does not keep it, so that the next logger can start. *)
LockFollowsProcess == lock # None => pc[lock] \in Working

(* A logged-in client has been authorised and has its roster: it has gone
   through the whole of the login, unless the server has ended the stream, which
   on_stream reports to iks_recv with the code of a login that is done
   (JL_SERVER_DISCONNECTED = IKS_HOOK). *)
RosterFirst ==
  \A p \in Procs : pc[p] \in {"presence"} \union Serving /\ ~sess[p].ended =>
                     sess[p].flags = {"authorized", "job_done"}

(* On a standing connection the client is never silent for longer than the
   keep-alive time, whatever comes from the server or from the system log. *)
KeptAlive ==
  \A p \in Procs : pc[p] \in Serving /\ sess[p].net = "open" => sess[p].idle <= KeepAlive

\* A stanza winds the counter of the login up again.
Rewinds(p) == Stanza(p) /\ sess'[p].counter > sess[p].counter

(* A login ends, in success or not, when the server falls silent, answers and no
   more, or goes on challenging: only a server that goes on sending other stanzas
   can hold it for ever, because on_stream winds the counter up on every one. *)
LoginEnds ==
  \A p \in Procs : <>[](pc[p] = "login") => []<><<Rewinds(p)>>_vars

(* A connection that the server has closed is given up: the loop of j_main
   does not go on with it. *)
DisconnectNoticed ==
  \A p \in Procs : pc[p] \in Serving /\ sess[p].net # "open" ~> pc[p] \notin Serving

----------------------------------------------------------------------------
(* What the program says of itself and does not keep. *)

(* "Login successfully" is logged when the login has been gone through. *)
LoginIsReal == \A p \in Procs : pc[p] \in Serving => "job_done" \in sess[p].flags

(* opt_timeout ends a login whatever the server sends. *)
LoginTimesOut == \A p \in Procs : pc[p] = "login" ~> pc[p] # "login"

(* A session that ends leaves "Server disconnected" in the log. *)
EndIsLogged ==
  [][\A p \in Procs : pc[p] \in Serving /\ pc'[p] = "sleep" => log' = "disconnected"]_vars

(* No write meets a connection that was reset: io_send expects an error there,
   and gets SIGPIPE. *)
NoBrokenPipe == \A p \in Procs : pc[p] = "send" => ~Broken(p)

====
