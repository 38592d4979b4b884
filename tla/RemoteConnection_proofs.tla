----------------------- MODULE RemoteConnection_proofs -----------------------
(***************************************************************************)
(* What holds of the clients of one host for any number of windows, SSH    *)
(* masters, attempts and heartbeats.  RemoteInv says that the state of a   *)
(* client fits the tasks it holds (Sound) and that a master which has been *)
(* started and not killed is held and is the pool's (PoolSound).  Nearly   *)
(* every action gives one client a new record (SetSound); the pool's       *)
(* answer (PoolConnectSound) and reconnect() (ReconnectSound) have lemmas  *)
(* of their own.  Each action is shown to keep RemoteInv and to leave a    *)
(* disconnected client disconnected (Final).                               *)
(***************************************************************************)
EXTENDS RemoteConnection, TLAPS

Started == {"opening", "up", "dead"}

MasterState == {"unused", "opening", "up", "dead", "failed", "killed"}

\* What a step may do to the state of a client that is disconnected.
Final ==
    \A c \in Client : HandedOut(client[c]) /\ client[c].state \in Disconnected =>
        client'[c].state \in {client[c].state, "None", "Released"}

\* The values that the actions write are of their types.
LEMMA Members ==
    /\ \A x \in {"Unopened", "Connecting", "Connected", "HeartbeatMissed", "Reconnecting",
                 "None", "Released", "ReconnectExhausted", "ServerNotRunning"} : x \in State
    /\ 0 \in 0..MaxAttempts /\ 0 \in 0..MaxMissed
    /\ NoConn \in Conn \cup {NoConn}
BY MaxAttemptsAssumption, MaxMissedAssumption DEF State, Disconnected

\* Whoever lets go of a master: what is left satisfies the invariant if every
\* client does and the pool leads to the master that has been started.
LEMMA SettleSound ==
    ASSUME NEW cl \in [Client -> ClientType], \A c \in Client : Sound(cl[c]),
           NEW m \in [Conn -> MasterState], NEW p \in Conn \cup {NoConn},
           \A k \in Conn : m[k] \in Started => p = k,
           Settle(cl, m, p)
    PROVE  RemoteInv'
<1>1. TypeOK'
  BY DEF Settle, TypeOK, MasterState
<1>2. PoolSound'
  BY NoConnAssumption DEF Settle, PoolSound, Started, MasterState
<1> QED BY <1>1, <1>2 DEF RemoteInv, Settle

\* One client becomes r.
LEMMA SetSound ==
    ASSUME RemoteInv, NEW c \in Client, NEW r \in ClientType, Sound(r),
           HandedOut(client[c]) /\ client[c].state \in Disconnected =>
               r.state \in {client[c].state, "None", "Released"},
           Set(c, r)
    PROVE  RemoteInv' /\ Final
<1> DEFINE cl == [client EXCEPT ![c] = r]
<1>1. cl \in [Client -> ClientType] /\ \A d \in Client : Sound(cl[d])
  BY DEF RemoteInv, TypeOK
<1>2. Settle(cl, master, pool)
  BY DEF Set
<1>3. /\ master \in [Conn -> MasterState] /\ pool \in Conn \cup {NoConn}
      /\ \A k \in Conn : master[k] \in Started => pool = k
  BY DEF RemoteInv, TypeOK, PoolSound, Started, MasterState
<1>4. Final
  BY <1>2 DEF Settle, Final, RemoteInv, TypeOK
<1> HIDE DEF cl
<1> QED BY <1>1, <1>2, <1>3, <1>4, SettleSound

\* There is a master to connect that nobody holds.
LEMMA UnheldExists ==
    ASSUME RemoteInv
    PROVE  \E k \in Conn : ~Held(k, client)
<1> DEFINE f == [c \in Client |-> IF client[c].conn # NoConn THEN client[c].conn
                                  ELSE client[c].wait]
<1>1. \A c \in Client : /\ client[c].conn \in Conn \cup {NoConn}
                        /\ client[c].wait \in Conn \cup {NoConn}
                        /\ client[c].conn = NoConn \/ client[c].wait = NoConn
  BY DEF RemoteInv, TypeOK, ClientType, Sound
<1>2. f \in [Client -> Conn \cup {NoConn}]
  BY <1>1
<1>3. PICK k \in Conn : \A c \in Client : f[c] # k
  BY <1>2, ConnAssumption
<1>4. ~Held(k, client)
  BY <1>1, <1>3, NoConnAssumption DEF Held
<1> QED BY <1>4

\* The pool's answer, whichever it is, leaves at most one master started.
LEMMA PoolConnectSound ==
    ASSUME RemoteInv, NEW c \in Client, NEW r,
           \A k \in Conn : LET s == [r EXCEPT !.wait = k] IN
               s \in ClientType /\ Sound(s) /\ s.state = client[c].state,
           PoolConnect(c, r)
    PROVE  RemoteInv' /\ Final
<1>1. CASE Reusable /\ Set(c, [r EXCEPT !.wait = pool])
  <2>1. pool \in Conn
    BY <1>1 DEF Reusable, RemoteInv, TypeOK
  <2> QED BY <1>1, <2>1, SetSound
<1>2. CASE ~Reusable
  <2> DEFINE k == CHOOSE k \in Conn : ~Held(k, client)
             cl == [client EXCEPT ![c] = [r EXCEPT !.wait = k]]
             m == [master EXCEPT ![k] = "opening"]
  <2>1. k \in Conn
    BY UnheldExists
  <2>2. Settle(cl, m, k)
    BY <1>2 DEF PoolConnect
  <2> HIDE DEF k
  <2>3. cl \in [Client -> ClientType] /\ \A d \in Client : Sound(cl[d])
    BY <2>1 DEF RemoteInv, TypeOK
  <2>4. m \in [Conn -> MasterState]
    BY <2>1 DEF RemoteInv, TypeOK, MasterState
  <2>5. \A j \in Conn : m[j] \in Started => k = j
    BY <1>2, <2>1, NoConnAssumption
       DEF RemoteInv, TypeOK, PoolSound, Reusable, HasBeenKilled, Started
  <2>6. Final
    BY <2>1, <2>2 DEF Settle, Final, RemoteInv, TypeOK
  <2> HIDE DEF cl, m
  <2> QED BY <2>1, <2>2, <2>3, <2>4, <2>5, <2>6, SettleSound
<1> QED BY <1>1, <1>2 DEF PoolConnect

-----------------------------------------------------------------------------

\* A client whose state is just being replaced.
AnyClient ==
    [state : State \cup {"ReconnectFailed"}, attempts : 0..MaxAttempts, missed : 0..MaxMissed,
     task : {"none", "open", "start", "ping", "pinged", "kill", "killed", "connect",
             "resync", "ok", "failed", "shutdown"},
     proxy : {"none", "up", "ended", "refused"}, monitor : BOOLEAN, heartbeat : BOOLEAN,
     conn : Conn \cup {NoConn}, wait : Conn \cup {NoConn}]

\* What dropping the tasks of a client leaves of it.
LEMMA DropTasksType ==
    ASSUME NEW r \in AnyClient
    PROVE  /\ DropTasks(r) \in AnyClient
           /\ DropTasks(r) = [r EXCEPT !.monitor = FALSE, !.heartbeat = FALSE, !.proxy = "none"]
           /\ ~DropTasks(r).monitor /\ ~DropTasks(r).heartbeat /\ DropTasks(r).proxy = "none"
           /\ DropTasks(r).state = r.state /\ DropTasks(r).task = r.task
           /\ DropTasks(r).conn = r.conn /\ DropTasks(r).wait = r.wait
BY DEF DropTasks, AnyClient

\* reconnect() leaves a client that is reconnecting or has given up.
LEMMA ReconnectSound ==
    ASSUME NEW r \in AnyClient, r.state \in CanReconnect, r.task = "none", r.wait = NoConn
    PROVE  Reconnect(r) \in ClientType /\ Sound(Reconnect(r))
<1> DEFINE q == DropTasks(r)
           n == NextAttempt(r)
<1>1. /\ q \in AnyClient /\ ~q.monitor /\ ~q.heartbeat /\ q.proxy = "none"
      /\ q.task = "none" /\ q.wait = NoConn
  BY DropTasksType
<1>2. n \in 1..(MaxAttempts + 1)
  BY MaxAttemptsAssumption DEF NextAttempt, AnyClient
<1>3. Reconnect(r) = IF n > MaxAttempts
        THEN [q EXCEPT !.state = "ReconnectExhausted", !.attempts = 0, !.missed = 0,
                       !.conn = NoConn]
        ELSE [q EXCEPT !.state = "Reconnecting", !.attempts = n, !.missed = 0, !.task = "kill"]
  BY DEF Reconnect
<1>0. /\ 0 \in 0..MaxAttempts /\ 0 \in 0..MaxMissed
      /\ "ReconnectExhausted" \in State /\ "Reconnecting" \in State
  BY MaxAttemptsAssumption, MaxMissedAssumption DEF State, Disconnected
<1> HIDE DEF q, n
<1>4. CASE n > MaxAttempts
  <2> DEFINE q1 == [q EXCEPT !.state = "ReconnectExhausted", !.attempts = 0, !.missed = 0,
                             !.conn = NoConn]
  <2>1. q1 \in ClientType
    BY <1>0, <1>1 DEF AnyClient, ClientType
  <2>2. Sound(q1)
    BY <1>1 DEF AnyClient, Sound
  <2> QED BY <1>3, <1>4, <2>1, <2>2
<1>5. CASE ~(n > MaxAttempts)
  <2> DEFINE q2 == [q EXCEPT !.state = "Reconnecting", !.attempts = n, !.missed = 0,
                             !.task = "kill"]
  <2>1. n \in 0..MaxAttempts
    BY <1>2, <1>5, MaxAttemptsAssumption
  <2>2. q2 \in ClientType
    BY <1>0, <1>1, <2>1 DEF AnyClient, ClientType
  <2>3. Sound(q2)
    BY <1>1 DEF AnyClient, Sound
  <2> QED BY <1>3, <1>5, <2>2, <2>3
<1> QED BY <1>4, <1>5

-----------------------------------------------------------------------------

\* The master is there and the proxy is started.
LEMMA NewInv ==
    ASSUME RemoteInv, NEW c \in Client, New(c)
    PROVE  RemoteInv' /\ Final
<1> DEFINE q == client[c]
           r == [q EXCEPT !.state = "Connecting", !.task = "start", !.proxy = "up",
                      !.conn = q.wait, !.wait = NoConn]
<1>1. q \in ClientType /\ Sound(q)
  BY DEF RemoteInv, TypeOK
<1>2. r \in ClientType
  BY <1>1, Members DEF New, ClientType
<1>3. /\ Sound(r)
      /\ HandedOut(q) /\ q.state \in Disconnected => r.state \in {q.state, "None", "Released"}
  BY <1>1, NoConnAssumption DEF New, ClientType, Sound, Disconnected
<1>4. Set(c, r)
  BY DEF New
<1> HIDE DEF r
<1> QED BY <1>2, <1>3, <1>4, SetSound

\* RemoteStarted comes in.
LEMMA RemoteStartedInv ==
    ASSUME RemoteInv, NEW c \in Client, RemoteStarted(c)
    PROVE  RemoteInv' /\ Final
<1> DEFINE q == client[c]
           r == [q EXCEPT !.task = "ping", !.monitor = TRUE]
<1>1. q \in ClientType /\ Sound(q)
  BY DEF RemoteInv, TypeOK
<1>2. r \in ClientType
  BY <1>1, Members DEF RemoteStarted, ClientType
<1>3. /\ Sound(r)
      /\ HandedOut(q) /\ q.state \in Disconnected => r.state \in {q.state, "None", "Released"}
  BY <1>1, NoConnAssumption DEF RemoteStarted, ClientType, Sound, Disconnected
<1>4. Set(c, r)
  BY DEF RemoteStarted
<1> HIDE DEF r
<1> QED BY <1>2, <1>3, <1>4, SetSound

\* The first ping is answered.
LEMMA PingAnsweredInv ==
    ASSUME RemoteInv, NEW c \in Client, PingAnswered(c)
    PROVE  RemoteInv' /\ Final
<1> DEFINE q == client[c]
           r == [q EXCEPT !.task = "pinged"]
<1>1. q \in ClientType /\ Sound(q)
  BY DEF RemoteInv, TypeOK
<1>2. r \in ClientType
  BY <1>1, Members DEF PingAnswered, ClientType
<1>3. /\ Sound(r)
      /\ HandedOut(q) /\ q.state \in Disconnected => r.state \in {q.state, "None", "Released"}
  BY <1>1, NoConnAssumption DEF PingAnswered, ClientType, Sound, Disconnected
<1>4. Set(c, r)
  BY DEF PingAnswered
<1> HIDE DEF r
<1> QED BY <1>2, <1>3, <1>4, SetSound

\* new() returns a connected client.
LEMMA OpenedInv ==
    ASSUME RemoteInv, NEW c \in Client, Opened(c)
    PROVE  RemoteInv' /\ Final
<1> DEFINE q == client[c]
           r == [q EXCEPT !.state = "Connected", !.task = "none", !.heartbeat = TRUE]
<1>1. q \in ClientType /\ Sound(q)
  BY DEF RemoteInv, TypeOK
<1>2. r \in ClientType
  BY <1>1, Members DEF Opened, ClientType
<1>3. /\ Sound(r)
      /\ HandedOut(q) /\ q.state \in Disconnected => r.state \in {q.state, "None", "Released"}
  BY <1>1, NoConnAssumption DEF Opened, HandedOut, ClientType, Sound, Disconnected
<1>4. Set(c, r)
  BY DEF Opened
<1> HIDE DEF r
<1> QED BY <1>2, <1>3, <1>4, SetSound

\* new() fails: the client is as before it was opened.
LEMMA OpenFailsInv ==
    ASSUME RemoteInv, NEW c \in Client, OpenFails(c)
    PROVE  RemoteInv' /\ Final
<1> DEFINE q == client[c]
           r == Fresh
<1>1. q \in ClientType /\ Sound(q)
  BY DEF RemoteInv, TypeOK
<1>2. r \in ClientType
  BY <1>1, Members DEF OpenFails, ClientType, Fresh
<1>3. /\ Sound(r)
      /\ HandedOut(q) /\ q.state \in Disconnected => r.state \in {q.state, "None", "Released"}
  BY <1>1, NoConnAssumption DEF OpenFails, HandedOut, ClientType, Sound, Disconnected, Fresh
<1>4. Set(c, r)
  BY DEF OpenFails
<1> HIDE DEF r
<1> QED BY <1>2, <1>3, <1>4, SetSound

\* An attempt has a master and starts its proxy.
LEMMA AttemptStartsProxyInv ==
    ASSUME RemoteInv, NEW c \in Client, AttemptStartsProxy(c)
    PROVE  RemoteInv' /\ Final
<1> DEFINE q == client[c]
           r == [q EXCEPT !.task = "resync", !.proxy = "up", !.monitor = TRUE,
                      !.conn = q.wait, !.wait = NoConn]
<1>1. q \in ClientType /\ Sound(q)
  BY DEF RemoteInv, TypeOK
<1>2. r \in ClientType
  BY <1>1, Members DEF AttemptStartsProxy, ClientType
<1>3. /\ Sound(r)
      /\ HandedOut(q) /\ q.state \in Disconnected => r.state \in {q.state, "None", "Released"}
  BY <1>1, NoConnAssumption DEF AttemptStartsProxy, ClientType, Sound, Disconnected
<1>4. Set(c, r)
  BY DEF AttemptStartsProxy
<1> HIDE DEF r
<1> QED BY <1>2, <1>3, <1>4, SetSound

\* The resync is answered, and a heartbeat task is there to be used.
LEMMA ResyncAnsweredInv ==
    ASSUME RemoteInv, NEW c \in Client, ResyncAnswered(c)
    PROVE  RemoteInv' /\ Final
<1> DEFINE q == client[c]
           r == [q EXCEPT !.task = "ok", !.heartbeat = TRUE]
<1>1. q \in ClientType /\ Sound(q)
  BY DEF RemoteInv, TypeOK
<1>2. r \in ClientType
  BY <1>1, Members DEF ResyncAnswered, ClientType
<1>3. /\ Sound(r)
      /\ HandedOut(q) /\ q.state \in Disconnected => r.state \in {q.state, "None", "Released"}
  BY <1>1, NoConnAssumption DEF ResyncAnswered, ClientType, Sound, Disconnected
<1>4. Set(c, r)
  BY DEF ResyncAnswered
<1> HIDE DEF r
<1> QED BY <1>2, <1>3, <1>4, SetSound

\* An attempt fails: its tasks are dropped.
LEMMA AttemptFailsInv ==
    ASSUME RemoteInv, NEW c \in Client, AttemptFails(c)
    PROVE  RemoteInv' /\ Final
<1> DEFINE q == client[c]
           r == [DropTasks(q) EXCEPT !.task = "failed", !.wait = NoConn]
<1>1. q \in ClientType /\ Sound(q)
  BY DEF RemoteInv, TypeOK
<1>2. r \in ClientType
  BY <1>1, Members DEF AttemptFails, ClientType, DropTasks
<1>3. /\ Sound(r)
      /\ HandedOut(q) /\ q.state \in Disconnected => r.state \in {q.state, "None", "Released"}
  BY <1>1, NoConnAssumption DEF AttemptFails, ClientType, Sound, Disconnected, DropTasks
<1>4. Set(c, r)
  BY DEF AttemptFails
<1> HIDE DEF r
<1> QED BY <1>2, <1>3, <1>4, SetSound

\* The proxy ends under whoever uses it.
LEMMA ProxyEndsInv ==
    ASSUME RemoteInv, NEW c \in Client, ProxyEnds(c)
    PROVE  RemoteInv' /\ Final
<1> DEFINE q == client[c]
           r == [q EXCEPT !.proxy = "ended"]
<1>1. q \in ClientType /\ Sound(q)
  BY DEF RemoteInv, TypeOK
<1>2. r \in ClientType
  BY <1>1, Members DEF ProxyEnds, ClientType
<1>3. /\ Sound(r)
      /\ HandedOut(q) /\ q.state \in Disconnected => r.state \in {q.state, "None", "Released"}
  BY <1>1, NoConnAssumption DEF ProxyEnds, ClientType, Sound, Disconnected
<1>4. Set(c, r)
  BY DEF ProxyEnds
<1> HIDE DEF r
<1> QED BY <1>2, <1>3, <1>4, SetSound

\* The proxy finds no server, or loses it.
LEMMA ProxyRefusedInv ==
    ASSUME RemoteInv, NEW c \in Client, ProxyRefused(c)
    PROVE  RemoteInv' /\ Final
<1> DEFINE q == client[c]
           r == [q EXCEPT !.proxy = "refused"]
<1>1. q \in ClientType /\ Sound(q)
  BY DEF RemoteInv, TypeOK
<1>2. r \in ClientType
  BY <1>1, Members DEF ProxyRefused, ClientType
<1>3. /\ Sound(r)
      /\ HandedOut(q) /\ q.state \in Disconnected => r.state \in {q.state, "None", "Released"}
  BY <1>1, NoConnAssumption DEF ProxyRefused, ClientType, Sound, Disconnected
<1>4. Set(c, r)
  BY DEF ProxyRefused
<1> HIDE DEF r
<1> QED BY <1>2, <1>3, <1>4, SetSound

\* A heartbeat task that recovers finds a state that is its own.
LEMMA HeartbeatRecoversInv ==
    ASSUME RemoteInv, NEW c \in Client, HeartbeatRecovers(c)
    PROVE  RemoteInv' /\ Final
<1> DEFINE q == client[c]
           r == [q EXCEPT !.missed = 0,
                      !.state = IF @ = "HeartbeatMissed" THEN "Connected" ELSE @]
<1>1. q \in ClientType /\ Sound(q)
  BY DEF RemoteInv, TypeOK
<1>2. r \in ClientType
  BY <1>1, Members DEF HeartbeatRecovers, ClientType
<1>3. /\ Sound(r)
      /\ HandedOut(q) /\ q.state \in Disconnected => r.state \in {q.state, "None", "Released"}
  BY <1>1, NoConnAssumption DEF HeartbeatRecovers, ClientType, Sound, Disconnected
<1>4. Set(c, r)
  BY DEF HeartbeatRecovers
<1> HIDE DEF r
<1> QED BY <1>2, <1>3, <1>4, SetSound

\* The heartbeat task returns.
LEMMA HeartbeatStopsInv ==
    ASSUME RemoteInv, NEW c \in Client, HeartbeatStops(c)
    PROVE  RemoteInv' /\ Final
<1> DEFINE q == client[c]
           r == [q EXCEPT !.heartbeat = FALSE]
<1>1. q \in ClientType /\ Sound(q)
  BY DEF RemoteInv, TypeOK
<1>2. r \in ClientType
  BY <1>1, Members DEF HeartbeatStops, ClientType
<1>3. /\ Sound(r)
      /\ HandedOut(q) /\ q.state \in Disconnected => r.state \in {q.state, "None", "Released"}
  BY <1>1, NoConnAssumption DEF HeartbeatStops, ClientType, Sound, Disconnected
<1>4. Set(c, r)
  BY DEF HeartbeatStops
<1> HIDE DEF r
<1> QED BY <1>2, <1>3, <1>4, SetSound

\* The connection of a released client is dropped.
LEMMA ShutdownEndsInv ==
    ASSUME RemoteInv, NEW c \in Client, ShutdownEnds(c)
    PROVE  RemoteInv' /\ Final
<1> DEFINE q == client[c]
           r == Released
<1>1. q \in ClientType /\ Sound(q)
  BY DEF RemoteInv, TypeOK
<1>2. r \in ClientType
  BY <1>1, Members DEF ShutdownEnds, ClientType, Released, Fresh
<1>3. /\ Sound(r)
      /\ HandedOut(q) /\ q.state \in Disconnected => r.state \in {q.state, "None", "Released"}
  BY <1>1, NoConnAssumption DEF ShutdownEnds, ClientType, Sound, Disconnected, Released, Fresh
<1>4. Set(c, r)
  BY DEF ShutdownEnds
<1> HIDE DEF r
<1> QED BY <1>2, <1>3, <1>4, SetSound

\* A client is opened: the pool is asked for a master.
LEMMA OpenInv ==
    ASSUME RemoteInv, NEW c \in Client, Open(c)
    PROVE  RemoteInv' /\ Final
<1> DEFINE r == [client[c] EXCEPT !.task = "open"]
<1>1. client[c] \in ClientType /\ Sound(client[c])
  BY DEF RemoteInv, TypeOK
<1>2. \A k \in Conn : LET s == [r EXCEPT !.wait = k] IN
          s \in ClientType /\ Sound(s) /\ s.state = client[c].state
  BY <1>1, NoConnAssumption DEF Open, ClientType, Sound
<1>3. PoolConnect(c, r)
  BY DEF Open
<1> HIDE DEF r
<1> QED BY <1>2, <1>3, PoolConnectSound

\* An attempt asks the pool for a master.
LEMMA AttemptConnectsInv ==
    ASSUME RemoteInv, NEW c \in Client, AttemptConnects(c)
    PROVE  RemoteInv' /\ Final
<1> DEFINE r == [client[c] EXCEPT !.task = "connect"]
<1>1. client[c] \in ClientType /\ Sound(client[c])
  BY DEF RemoteInv, TypeOK
<1>2. \A k \in Conn : LET s == [r EXCEPT !.wait = k] IN
          s \in ClientType /\ Sound(s) /\ s.state = client[c].state
  BY <1>1, NoConnAssumption DEF AttemptConnects, ClientType, Sound
<1>3. PoolConnect(c, r)
  BY DEF AttemptConnects
<1> HIDE DEF r
<1> QED BY <1>2, <1>3, PoolConnectSound

\* kill() ends the master for every window, and starts none.
LEMMA AttemptKillsInv ==
    ASSUME RemoteInv, NEW c \in Client, AttemptKills(c)
    PROVE  RemoteInv' /\ Final
<1> DEFINE q == client[c]
           cl == [client EXCEPT ![c] = [q EXCEPT !.task = "killed", !.conn = NoConn]]
           m == [k \in Conn |-> IF k = q.conn THEN "killed" ELSE master[k]]
<1>1. \A d \in Client : client[d] \in ClientType /\ Sound(client[d])
  BY DEF RemoteInv, TypeOK
<1>2. [q EXCEPT !.task = "killed", !.conn = NoConn] \in ClientType
  BY <1>1, ZenonT(60) DEF AttemptKills, ClientType
<1>3. Sound([q EXCEPT !.task = "killed", !.conn = NoConn])
  BY <1>1 DEF AttemptKills, ClientType, Sound
<1>4. cl \in [Client -> ClientType] /\ \A d \in Client : Sound(cl[d])
  BY <1>1, <1>2, <1>3 DEF RemoteInv, TypeOK
<1>5. /\ m \in [Conn -> MasterState] /\ pool \in Conn \cup {NoConn}
      /\ \A k \in Conn : m[k] \in Started => pool = k
  BY DEF RemoteInv, TypeOK, PoolSound, Started, MasterState
<1>6. Settle(cl, m, pool)
  BY DEF AttemptKills
<1>7. Final
  BY <1>1, <1>6 DEF Settle, Final, ClientType, RemoteInv, TypeOK
<1> HIDE DEF cl, m
<1> QED BY <1>4, <1>5, <1>6, <1>7, SettleSound

\* The result of an attempt is applied, followed by another, or dropped.
LEMMA AttemptFinishesInv ==
    ASSUME RemoteInv, NEW c \in Client, AttemptFinishes(c)
    PROVE  RemoteInv' /\ Final
<1> DEFINE q == client[c]
           r == [q EXCEPT !.task = "none"]
<1>1. q \in ClientType /\ Sound(q) /\ q.task \in {"ok", "failed"}
  BY DEF RemoteInv, TypeOK, AttemptFinishes
<1>2. r \in ClientType /\ r.state = q.state /\ r.task = "none" /\ r.wait = NoConn
  BY <1>1 DEF ClientType, Sound
<1>3. CASE q.state # "Reconnecting"
  <2> DEFINE s == [DropTasks(r) EXCEPT !.attempts = 0, !.conn = NoConn]
  <2>1. s \in ClientType
    BY <1>1, Members DEF DropTasks, ClientType
  <2>2. Sound(s) /\ s.state = q.state
    BY <1>1 DEF DropTasks, ClientType, Sound
  <2>3. Set(c, s)
    BY <1>2, <1>3 DEF AttemptFinishes
  <2> HIDE DEF s
  <2> QED BY <2>1, <2>2, <2>3, SetSound
<1>4. CASE q.state = "Reconnecting" /\ q.task = "ok"
  <2> DEFINE s == [r EXCEPT !.state = "Connected", !.attempts = 0]
  <2>1. s \in ClientType
    BY <1>1, Members DEF ClientType
  <2>2. Sound(s)
    BY <1>1 DEF ClientType, Sound
  <2>3. Set(c, s)
    BY <1>2, <1>4 DEF AttemptFinishes
  <2> HIDE DEF s
  <2> QED BY <1>4, <2>1, <2>2, <2>3, SetSound DEF Disconnected
<1>5. CASE q.state = "Reconnecting" /\ q.task # "ok"
  <2> DEFINE s == [r EXCEPT !.state = "ReconnectFailed"]
  <2>1. s \in AnyClient
    BY <1>1 DEF ClientType, AnyClient
  <2>2. s.state \in CanReconnect /\ s.task = "none" /\ s.wait = NoConn
    BY <1>1, <1>2 DEF ClientType, CanReconnect
  <2>3. Set(c, Reconnect(s))
    BY <1>2, <1>5 DEF AttemptFinishes
  <2> HIDE DEF s
  <2> QED BY <1>5, <2>1, <2>2, <2>3, SetSound, ReconnectSound DEF Disconnected
<1> QED BY <1>3, <1>4, <1>5

\* The two results of monitor.
LEMMA MonitorFiresInv ==
    ASSUME RemoteInv, NEW c \in Client, MonitorFires(c)
    PROVE  RemoteInv' /\ Final
<1> DEFINE q == client[c]
           r == [q EXCEPT !.monitor = FALSE]
<1>1. q \in ClientType /\ Sound(q)
  BY DEF RemoteInv, TypeOK
<1>2. r \in ClientType /\ Sound(r) /\ r.state = q.state
  BY <1>1, ZenonT(60) DEF ClientType, Sound
<1>3. CASE q.proxy = "refused"
  <2>1. q.monitor /\ q.state \notin {"Unopened", "ReconnectExhausted"} /\ q.task # "start"
    BY <1>1 DEF MonitorFires, Sound
  <2>2. CASE r.state = "Released"
    BY <1>2, <1>3, <2>2, SetSound DEF MonitorFires, ServerNotRunning
  <2>3. CASE r.state \in {"Connected", "HeartbeatMissed"}
    <3> DEFINE s == [DropTasks(r) EXCEPT !.state = "ServerNotRunning", !.missed = 0,
                                         !.conn = NoConn]
    <3>1. s \in ClientType
      BY <1>1, Members DEF DropTasks, ClientType
    <3>2. Sound(s) /\ s.state = "ServerNotRunning"
      BY <1>1, <1>2, <2>3 DEF DropTasks, ClientType, Sound
    <3>3. Set(c, s)
      BY <1>3, <2>3 DEF MonitorFires, ServerNotRunning
    <3> HIDE DEF s
    <3> QED BY <1>2, <2>3, <3>1, <3>2, <3>3, SetSound DEF Disconnected
  <2>4. CASE r.state \notin {"Released", "Connected", "HeartbeatMissed"}
    <3> DEFINE s == [r EXCEPT !.state = "ServerNotRunning", !.attempts = 0]
    <3>1. s \in ClientType
      BY <1>1, Members DEF ClientType
    <3>2. Sound(s) /\ s.state = "ServerNotRunning"
      BY <1>1, <1>2, <2>1, <2>4 DEF ClientType, Sound
    <3>3. Set(c, s)
      BY <1>3, <2>4 DEF MonitorFires, ServerNotRunning
    <3> HIDE DEF s
    <3> QED BY <2>1, <3>1, <3>2, <3>3, SetSound DEF Disconnected
  <2> QED BY <2>2, <2>3, <2>4
<1>4. CASE q.proxy # "refused" /\ r.state \notin CanReconnect
  <2>1. Set(c, r)
    BY <1>4 DEF MonitorFires, Reconnect
  <2> HIDE DEF r
  <2> QED BY <1>2, <2>1, SetSound
<1>5. CASE q.proxy # "refused" /\ r.state \in CanReconnect
  <2>1. r \in AnyClient /\ r.task = "none" /\ r.wait = NoConn
    BY <1>1, <1>2, <1>5 DEF ClientType, AnyClient, CanReconnect, Sound, State, Disconnected
  <2>2. Set(c, Reconnect(r))
    BY <1>5 DEF MonitorFires
  <2> HIDE DEF r
  <2> QED BY <1>2, <1>5, <2>1, <2>2, SetSound, ReconnectSound DEF CanReconnect, Disconnected
<1> QED BY <1>3, <1>4, <1>5

\* A heartbeat task that reports finds a state that is its own.
LEMMA HeartbeatMissedInv ==
    ASSUME RemoteInv, NEW c \in Client, HeartbeatMissed(c)
    PROVE  RemoteInv' /\ Final
<1> DEFINE q == client[c]
           r == [q EXCEPT !.missed = @ + 1,
                          !.state = IF @ = "Connected" THEN "HeartbeatMissed" ELSE @]
<1>1. q \in ClientType /\ Sound(q) /\ q.heartbeat /\ q.task = "none"
  BY DEF RemoteInv, TypeOK, HeartbeatMissed
<1>2. /\ q.state \in {"Connected", "HeartbeatMissed"} /\ q.wait = NoConn
      /\ q.missed \in 0..MaxMissed
  BY <1>1 DEF Sound, ClientType
<1>3. /\ r.state = "HeartbeatMissed" /\ r.task = "none" /\ r.wait = NoConn
      /\ r.missed = q.missed + 1
  BY <1>1, <1>2 DEF ClientType
<1>4. CASE r.missed >= MaxMissed
  <2> DEFINE s == [r EXCEPT !.missed = 0]
  <2>1. s \in AnyClient
    BY <1>1, <1>2, Members DEF ClientType, AnyClient
  <2>2. s.state \in CanReconnect /\ s.task = "none" /\ s.wait = NoConn
    BY <1>1, <1>2, <1>3 DEF ClientType, CanReconnect
  <2>3. Reconnect(s) = Reconnect(r)
    BY <1>1, <1>2, ZenonT(60) DEF Reconnect, NextAttempt, DropTasks, ClientType, CanReconnect
  <2>4. Set(c, Reconnect(r))
    BY <1>4 DEF HeartbeatMissed
  <2> HIDE DEF s, r
  <2> QED BY <1>2, <2>1, <2>2, <2>3, <2>4, SetSound, ReconnectSound DEF Disconnected
<1>5. CASE ~(r.missed >= MaxMissed)
  <2>1. q.missed + 1 \in 0..MaxMissed
    BY <1>2, <1>3, <1>5, MaxMissedAssumption
  <2>2. r \in ClientType
    BY <1>1, <1>2, <2>1, Members DEF ClientType
  <2>3. Sound(r)
    BY <1>1, <1>2 DEF ClientType, Sound
  <2>4. Set(c, r)
    BY <1>5 DEF HeartbeatMissed
  <2> HIDE DEF r
  <2> QED BY <1>2, <2>2, <2>3, <2>4, SetSound DEF Disconnected
<1> QED BY <1>4, <1>5

\* A released client keeps at most an attempt that nobody waits for.
LEMMA ShutdownProcessesInv ==
    ASSUME RemoteInv, NEW c \in Client, ShutdownProcesses(c)
    PROVE  RemoteInv' /\ Final
<1> DEFINE q == client[c]
<1>1. /\ q \in ClientType /\ Sound(q)
      /\ HandedOut(q) /\ q.state \notin {"Unopened", "Connecting", "Released"}
  BY DEF RemoteInv, TypeOK, HandedOut, Sound, ShutdownProcesses
<1>2. CASE q.state = "Connected"
  <2> DEFINE s == [q EXCEPT !.state = "Released", !.missed = 0, !.task = "shutdown",
                            !.monitor = FALSE, !.heartbeat = FALSE]
  <2>1. s \in ClientType
    BY <1>1, Members DEF ClientType
  <2>2. Sound(s) /\ s.state = "Released"
    BY <1>1, <1>2 DEF ClientType, Sound
  <2>3. Set(c, s)
    BY <1>2 DEF ShutdownProcesses
  <2> HIDE DEF s
  <2> QED BY <2>1, <2>2, <2>3, SetSound
<1>3. CASE q.state # "Connected" /\ q.task # "none"
  <2> DEFINE s == [q EXCEPT !.state = "Released", !.attempts = 0]
  <2>1. s \in ClientType
    BY <1>1, Members DEF ClientType
  <2>2. Sound(s) /\ s.state = "Released"
    BY <1>1, <1>3 DEF ClientType, Sound, HandedOut
  <2>3. Set(c, s)
    BY <1>3 DEF ShutdownProcesses
  <2> HIDE DEF s
  <2> QED BY <2>1, <2>2, <2>3, SetSound
<1>4. CASE q.state # "Connected" /\ q.task = "none"
  <2>1. Released \in ClientType
    BY Members DEF Released, Fresh, ClientType
  <2>2. Sound(Released) /\ Released.state = "Released"
    BY DEF Released, Fresh, Sound
  <2>3. Set(c, Released)
    BY <1>4 DEF ShutdownProcesses
  <2> QED BY <2>1, <2>2, <2>3, SetSound
<1> QED BY <1>2, <1>3, <1>4

\* A state that is taken and not put back leaves at most an attempt.
LEMMA ForceHeartbeatTimeoutInv ==
    ASSUME RemoteInv, NEW c \in Client, NEW n \in {0, MaxAttempts}, ForceHeartbeatTimeout(c, n)
    PROVE  RemoteInv' /\ Final
<1> DEFINE q == client[c]
<1>1. /\ q \in ClientType /\ Sound(q)
      /\ HandedOut(q) /\ q.state \notin {"Unopened", "Connecting", "Released"}
  BY DEF RemoteInv, TypeOK, HandedOut, Sound, ForceHeartbeatTimeout
<1>2. n \in 0..MaxAttempts /\ (n = 0 \/ n > 0)
  BY MaxAttemptsAssumption
<1>3. CASE q.state = "Connected" /\ n = 0
  <2> DEFINE s == [q EXCEPT !.state = "HeartbeatMissed"]
  <2>1. s \in AnyClient
    BY <1>1, Members DEF ClientType, AnyClient
  <2>2. s.state \in CanReconnect /\ s.task = "none" /\ s.wait = NoConn
    BY <1>1, <1>3 DEF ClientType, CanReconnect, Sound
  <2>3. Set(c, Reconnect(s))
    BY <1>3 DEF ForceHeartbeatTimeout
  <2> HIDE DEF s
  <2> QED BY <1>3, <2>1, <2>2, <2>3, SetSound, ReconnectSound DEF Disconnected
<1>4. CASE q.state = "Connected" /\ n > 0
  <2> DEFINE s == [DropTasks(q) EXCEPT !.state = "ReconnectFailed", !.attempts = n]
  <2>1. s \in AnyClient
    BY <1>1, <1>2 DEF DropTasks, ClientType, AnyClient
  <2>2. s.state \in CanReconnect /\ s.task = "none" /\ s.wait = NoConn
    BY <1>1, <1>4 DEF DropTasks, ClientType, CanReconnect, Sound
  <2>3. Set(c, Reconnect(s))
    BY <1>4, <1>2 DEF ForceHeartbeatTimeout
  <2> HIDE DEF s
  <2> QED BY <1>4, <2>1, <2>2, <2>3, SetSound, ReconnectSound DEF Disconnected
<1>5. CASE q.state # "Connected" /\ q.task # "none"
  <2> DEFINE s == [q EXCEPT !.state = "None", !.attempts = 0]
  <2>1. s \in ClientType
    BY <1>1, Members DEF ClientType
  <2>2. Sound(s) /\ s.state = "None"
    BY <1>1, <1>5 DEF ClientType, Sound, HandedOut
  <2>3. Set(c, s)
    BY <1>5 DEF ForceHeartbeatTimeout
  <2> HIDE DEF s
  <2> QED BY <2>1, <2>2, <2>3, SetSound
<1>6. CASE q.state # "Connected" /\ q.task = "none"
  <2> DEFINE s == [Fresh EXCEPT !.state = "None"]
  <2>1. s \in ClientType
    BY Members DEF Fresh, ClientType
  <2>2. Sound(s) /\ s.state = "None"
    BY DEF Fresh, Sound
  <2>3. Set(c, s)
    BY <1>6 DEF ForceHeartbeatTimeout
  <2> HIDE DEF s
  <2> QED BY <2>1, <2>2, <2>3, SetSound
<1> QED BY <1>2, <1>3, <1>4, <1>5, <1>6

\* What becomes of a master by itself, or of one that is killed from outside.
LEMMA MasterInv ==
    ASSUME RemoteInv, UNCHANGED client,
           NEW k, NEW s \in MasterState,
           master' = [master EXCEPT ![k] = s],
           k \in Conn => master[k] # "unused" \/ Held(k, client),
           \/ s = "up" /\ master[k] \in Started /\ UNCHANGED pool
           \/ s \in {"dead", "killed"} /\ (s = "dead" => master[k] \in Started) /\ UNCHANGED pool
           \/ s = "failed" /\ pool' = NoConn /\ k \in Conn /\ master[k] \in Started
    PROVE  RemoteInv' /\ Final
<1>1. TypeOK'
  BY DEF RemoteInv, TypeOK, MasterState
<1>2. PoolSound'
  BY NoConnAssumption DEF RemoteInv, TypeOK, PoolSound, Held, Started, MasterState
<1> QED BY <1>1, <1>2 DEF RemoteInv, Final

-----------------------------------------------------------------------------

\* No client is open.
LEMMA InitRemote == Init => RemoteInv
<1> SUFFICES ASSUME Init PROVE RemoteInv
  OBVIOUS
<1>1. Fresh \in ClientType
  BY Members DEF Fresh, ClientType
<1>2. Sound(Fresh)
  BY DEF Fresh, Sound
<1> QED BY <1>1, <1>2 DEF Init, RemoteInv, TypeOK, PoolSound

\* Every step keeps the invariant and leaves disconnected clients so.
LEMMA NextRemote == RemoteInv /\ [Next]_vars => RemoteInv' /\ Final
<1> SUFFICES ASSUME RemoteInv, [Next]_vars PROVE RemoteInv' /\ Final
  OBVIOUS
<1>1. ASSUME NEW c \in Client, ClientStep(c)
      PROVE  RemoteInv' /\ Final
  BY <1>1, NewInv, OpenedInv, OpenFailsInv, AttemptKillsInv, AttemptConnectsInv,
     AttemptStartsProxyInv, AttemptFailsInv, AttemptFinishesInv, MonitorFiresInv,
     HeartbeatMissedInv, HeartbeatStopsInv, ShutdownEndsInv DEF ClientStep
<1>2. ASSUME NEW k \in Conn, MasterOpened(k) \/ MasterFails(k) \/ MasterDies(k)
      PROVE  RemoteInv' /\ Final
  BY <1>2, MasterInv DEF MasterOpened, MasterFails, MasterDies, Started, MasterState
<1>3. CASE Environment
  BY <1>2, <1>3, RemoteStartedInv, PingAnsweredInv, ResyncAnsweredInv, HeartbeatRecoversInv,
     ProxyEndsInv, ProxyRefusedInv DEF Environment
<1>4. ASSUME NEW c \in Client, ForceDisconnect(c)
      PROVE  RemoteInv' /\ Final
  BY <1>4, MasterInv DEF ForceDisconnect, MasterState, Held
<1>5. CASE User
  BY <1>4, <1>5, OpenInv, ShutdownProcessesInv, ForceHeartbeatTimeoutInv DEF User
<1>6. CASE UNCHANGED vars
  BY <1>6 DEF vars, RemoteInv, TypeOK, PoolSound, Held, Final
<1> QED BY <1>1, <1>3, <1>5, <1>6 DEF Next

\* The invariant of clients, masters and pool, for any number of windows,
\* attempts and missed heartbeats.
THEOREM RemoteInvariance == Spec => []RemoteInv
<1>1. Init => RemoteInv
  BY InitRemote
<1>2. RemoteInv /\ [Next]_vars => RemoteInv'
  BY NextRemote
<1> QED BY <1>1, <1>2, PTL DEF Spec

\* The clients, masters and the pool keep their types; in particular no step
\* ends with a client that has failed to reconnect and does not try again.
THEOREM RemoteTypeCorrect == Spec => []TypeOK
<1>1. RemoteInv => TypeOK
  BY DEF RemoteInv
<1> QED BY <1>1, RemoteInvariance, PTL

\* ConnectionPool::connect never has two masters that nobody has killed.
THEOREM MasterIsSingle == Spec => []SingleMaster
<1>1. RemoteInv => SingleMaster
  BY DEF RemoteInv, PoolSound, SingleMaster
<1> QED BY <1>1, RemoteInvariance, PTL

\* handle_heartbeat_result always finds the state that it unwraps.
THEOREM HeartbeatsHaveStates == Spec => []HeartbeatHasState
<1>1. RemoteInv => HeartbeatHasState
  BY DEF RemoteInv, Sound, HeartbeatHasState
<1> QED BY <1>1, RemoteInvariance, PTL

\* No attempt, heartbeat or monitor revives a client that new() has handed out
\* and that is disconnected.
THEOREM DisconnectedStaysFinal == Spec => DisconnectedIsFinal
<1>1. RemoteInv /\ [Next]_vars =>
        [\A c \in Client : HandedOut(client[c]) /\ client[c].state \in Disconnected =>
          client'[c].state \in {client[c].state, "None", "Released"}]_vars
  BY NextRemote DEF Final
<1> QED BY <1>1, RemoteInvariance, PTL DEF Spec, DisconnectedIsFinal
=============================================================================
