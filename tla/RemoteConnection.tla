-------------------------- MODULE RemoteConnection --------------------------
(***************************************************************************)
(* The life of the connections between the editor's windows and one remote *)
(* host (RemoteClient and ConnectionPool, crates/remote/src/               *)
(* remote_client.rs).  Each window has a client with its own proxy         *)
(* process; the proxies of all windows run over one SSH master, which the  *)
(* pool hands out.  A client is watched by two tasks, `monitor` (awaits    *)
(* the end of the proxy) and `heartbeat` (pings); either may start a       *)
(* reconnect, which kills the master, asks the pool for another one,       *)
(* starts a proxy and resynchronises, up to MAX_RECONNECT_ATTEMPTS times.  *)
(*                                                                         *)
(* All of it runs on the foreground thread: a step is what happens between *)
(* two awaits.  Processes and the network are the environment.             *)
(***************************************************************************)
EXTENDS Naturals, FiniteSets

CONSTANTS
    Client,         \* the RemoteClients (one per window)
    Conn,           \* identities of SSH masters; one nobody holds is reused
    NoConn,
    MaxAttempts,    \* MAX_RECONNECT_ATTEMPTS
    MaxMissed       \* MAX_MISSED_HEARTBEATS

ASSUME NoConnAssumption == NoConn \notin Conn
\* A client holds one master at most, so there is always one to connect anew.
ASSUME ConnAssumption ==
    \A f \in [Client -> Conn \cup {NoConn}] : \E k \in Conn : \A c \in Client : f[c] # k
ASSUME MaxAttemptsAssumption == MaxAttempts \in Nat \ {0}
ASSUME MaxMissedAssumption == MaxMissed \in Nat \ {0}

VARIABLES
    client,         \* each client's state and the tasks it holds
    master,         \* what has become of an SSH master
    pool            \* ConnectionPool: the master its weak entry leads to, or NoConn

vars == <<client, master, pool>>

(* A client: `state` is State ("None" once taken and not put back, "Unopened"
   and "Released" before and after the entity exists); `attempts` the number
   of the reconnect attempt whose result counts; `missed` the heartbeat task's
   count; `task` how far new(), the reconnect task or the shutdown has got;
   `proxy` the proxy process, `monitor` and `heartbeat` whether these tasks
   still watch; `conn` the master held, `wait` the pool's answer it awaits. *)
Fresh == [state |-> "Unopened", attempts |-> 0, missed |-> 0, task |-> "none",
          proxy |-> "none", monitor |-> FALSE, heartbeat |-> FALSE,
          conn |-> NoConn, wait |-> NoConn]

Released == [Fresh EXCEPT !.state = "Released"]

CanReconnect == {"Connected", "HeartbeatMissed", "ReconnectFailed"}

Disconnected == {"ReconnectExhausted", "ServerNotRunning"}

\* Someone has a strong handle on master k, or awaits it, among clients cl.
Held(k, cl) == \E d \in Client : k \in {cl[d].conn, cl[d].wait}

Init ==
    /\ client = [c \in Client |-> Fresh]
    /\ master = [k \in Conn |-> "unused"]
    /\ pool = NoConn

-----------------------------------------------------------------------------
(* The SSH masters. *)

\* has_been_killed: only kill() takes the process out of the connection; a
\* master that died by itself still counts as alive.
HasBeenKilled(k) == master[k] = "killed"

\* Dropping the last handle on a master kills its process, and the pool's weak
\* entry for it is as good as none: masters m and entry p once the clients are
\* cl.
Settle(cl, m, p) ==
    /\ client' = cl
    /\ master' = [k \in Conn |-> IF Held(k, cl) THEN m[k] ELSE "unused"]
    /\ pool' = IF p # NoConn /\ Held(p, cl) THEN p ELSE NoConn

Set(c, r) == Settle([client EXCEPT ![c] = r], master, pool)

\* Mutant: an attempt under way is not joined.
OnlyJoinConnected == pool # NoConn /\ master[pool] # "opening" /\ ~HasBeenKilled(pool)

\* The pool's entry can be used: its connecting task or its connection is
\* still there and has not been killed.
Reusable == pool # NoConn /\ ~HasBeenKilled(pool)

\* ConnectionPool::connect, for the client that becomes r: join what is
\* there, or start connecting a new master.
PoolConnect(c, r) ==
    \/ /\ Reusable
       /\ Set(c, [r EXCEPT !.wait = pool])
    \/ /\ ~Reusable
       /\ LET k == CHOOSE k \in Conn : ~Held(k, client) IN
          Settle([client EXCEPT ![c] = [r EXCEPT !.wait = k]],
                 [master EXCEPT ![k] = "opening"], k)

\* The pool's connecting task ends.
MasterOpened(k) ==
    /\ master[k] = "opening"
    /\ master' = [master EXCEPT ![k] = "up"]
    /\ UNCHANGED <<client, pool>>

MasterFails(k) ==
    /\ master[k] = "opening"
    /\ master' = [master EXCEPT ![k] = "failed"]
    /\ pool' = NoConn
    /\ UNCHANGED client

\* The network or the ssh process dies.
MasterDies(k) ==
    /\ master[k] = "up"
    /\ master' = [master EXCEPT ![k] = "dead"]
    /\ UNCHANGED <<client, pool>>

-----------------------------------------------------------------------------
(* Reconnecting, as a function of the client. *)

\* multiplex_task and heartbeat_task are dropped; the first owns the proxy.
DropTasks(r) == [r EXCEPT !.monitor = FALSE, !.heartbeat = FALSE, !.proxy = "none"]

\* Mutant: the attempts of a failed reconnect are forgotten.
ForgetAttempts(r) == 1

\* The number of the attempt that reconnect() starts from r.
NextAttempt(r) == IF r.state = "ReconnectFailed" THEN r.attempts + 1 ELSE 1

\* reconnect().
Reconnect(r) ==
    IF r.state \notin CanReconnect THEN r
    ELSE IF NextAttempt(r) > MaxAttempts
    THEN [DropTasks(r) EXCEPT !.state = "ReconnectExhausted", !.attempts = 0,
                              !.missed = 0, !.conn = NoConn]
    ELSE [DropTasks(r) EXCEPT !.state = "Reconnecting", !.attempts = NextAttempt(r),
                              !.missed = 0, !.task = "kill"]

-----------------------------------------------------------------------------
(* Opening a client: remote::connect, then RemoteClient::new. *)

Open(c) ==
    /\ client[c].state = "Unopened" /\ client[c].task = "none"
    /\ PoolConnect(c, [client[c] EXCEPT !.task = "open"])

\* The master is there: the proxy is started.
New(c) ==
    LET r == client[c] IN
    /\ r.task = "open" /\ master[r.wait] \notin {"opening", "failed"}
    /\ Set(c, [r EXCEPT !.state = "Connecting", !.task = "start", !.proxy = "up",
                        !.conn = r.wait, !.wait = NoConn])

\* RemoteStarted has come in: the proxy is monitored from now on.
RemoteStarted(c) ==
    /\ client[c].task = "start" /\ client[c].proxy = "up"
    /\ Set(c, [client[c] EXCEPT !.task = "ping", !.monitor = TRUE])

\* The ping is answered; new() has not been polled yet.
PingAnswered(c) ==
    /\ client[c].task = "ping" /\ client[c].proxy = "up"
    /\ Set(c, [client[c] EXCEPT !.task = "pinged"])

\* The state becomes Connected whatever it has become since the ping.
Opened(c) ==
    /\ client[c].task = "pinged"
    /\ Set(c, [client[c] EXCEPT !.state = "Connected", !.task = "none", !.heartbeat = TRUE])

\* No master, no RemoteStarted or no answer in time, or the user cancels.
OpenFails(c) ==
    /\ client[c].task \in {"open", "start", "ping", "pinged"}
    /\ Set(c, Fresh)

-----------------------------------------------------------------------------
(* The reconnect task. *)

\* kill() takes the master's process, if no other client has; whoever else
\* runs a proxy over it loses it.  The attempt keeps the killed connection to
\* have something to kill next time, which then does nothing: NoConn.
AttemptKills(c) ==
    LET r == client[c] IN
    /\ r.task = "kill"
    /\ Settle([client EXCEPT ![c] = [r EXCEPT !.task = "killed", !.conn = NoConn]],
              [k \in Conn |-> IF k = r.conn THEN "killed" ELSE master[k]], pool)

\* The process has ended: on to the pool.
AttemptConnects(c) ==
    /\ client[c].task = "killed"
    /\ PoolConnect(c, [client[c] EXCEPT !.task = "connect"])

AttemptStartsProxy(c) ==
    LET r == client[c] IN
    /\ r.task = "connect" /\ master[r.wait] \notin {"opening", "failed"}
    /\ Set(c, [r EXCEPT !.task = "resync", !.proxy = "up", !.monitor = TRUE,
                        !.conn = r.wait, !.wait = NoConn])

\* FlushBufferedMessages is answered; the reconnect task returns Connected,
\* with a new heartbeat task, and waits to be joined.
ResyncAnswered(c) ==
    /\ client[c].task = "resync" /\ client[c].proxy = "up"
    /\ Set(c, [client[c] EXCEPT !.task = "ok", !.heartbeat = TRUE])

\* The old process could not be waited for, no master could be opened (the
\* failed state keeps the old one), or the resync timed out.
AttemptFails(c) ==
    LET r == client[c] IN
    /\ \/ r.task = "killed"
       \/ r.task = "connect" /\ master[r.wait] = "failed"
       \/ r.task = "resync"
    /\ Set(c, [DropTasks(r) EXCEPT !.task = "failed", !.wait = NoConn])

\* Mutant: the result is applied whatever has become of the client.
FinishAlways(c) ==
    LET r == [client[c] EXCEPT !.task = "none"] IN
    /\ client[c].task \in {"ok", "failed"}
    /\ IF client[c].task = "ok"
       THEN Set(c, [r EXCEPT !.state = "Connected", !.attempts = 0])
       ELSE Set(c, Reconnect([r EXCEPT !.state = "ReconnectFailed"]))

\* Mutant: a failed attempt is not followed by another.
FinishWithoutRetry(c) ==
    LET r == [client[c] EXCEPT !.task = "none"] IN
    /\ client[c].task \in {"ok", "failed"}
    /\ Set(c, CASE r.state # "Reconnecting" ->
                       [DropTasks(r) EXCEPT !.attempts = 0, !.conn = NoConn]
                [] r.state = "Reconnecting" /\ client[c].task = "ok" ->
                       [r EXCEPT !.state = "Connected", !.attempts = 0]
                [] OTHER -> [r EXCEPT !.state = "ReconnectFailed"])

\* The outer task applies the result if the client is still reconnecting, and
\* tries again at once after a failure; otherwise the result is dropped.
AttemptFinishes(c) ==
    LET r == [client[c] EXCEPT !.task = "none"] IN
    /\ client[c].task \in {"ok", "failed"}
    /\ Set(c, CASE r.state # "Reconnecting" ->
                       [DropTasks(r) EXCEPT !.attempts = 0, !.conn = NoConn]
                [] r.state = "Reconnecting" /\ client[c].task = "ok" ->
                       [r EXCEPT !.state = "Connected", !.attempts = 0]
                [] OTHER -> Reconnect([r EXCEPT !.state = "ReconnectFailed"]))

-----------------------------------------------------------------------------
(* The watchers. *)

\* The proxy process ends: the network, its master, or its own exit.
ProxyEnds(c) ==
    /\ client[c].proxy = "up"
    /\ Set(c, [client[c] EXCEPT !.proxy = "ended"])

\* It exits with ServerNotRunning instead: started to reconnect, it found no
\* server, or, whatever it was started for, the server has gone under it.
ProxyRefused(c) ==
    /\ client[c].proxy = "up"
    /\ Set(c, [client[c] EXCEPT !.proxy = "refused"])

\* Mutant: only the value of the state is replaced, not what it holds.
KeepTasks(r) ==
    IF r.state = "Released" THEN r ELSE [r EXCEPT !.state = "ServerNotRunning", !.attempts = 0]

\* The client after set_state(ServerNotRunning).  A state that holds the tasks
\* and the connection is dropped with them; those of new() or of an attempt
\* under way stay with it.
ServerNotRunning(r) ==
    IF r.state = "Released" THEN r
    ELSE IF r.state \in {"Connected", "HeartbeatMissed"}
    THEN [DropTasks(r) EXCEPT !.state = "ServerNotRunning", !.missed = 0, !.conn = NoConn]
    ELSE [r EXCEPT !.state = "ServerNotRunning", !.attempts = 0]

\* monitor.
MonitorFires(c) ==
    LET r == [client[c] EXCEPT !.monitor = FALSE] IN
    /\ client[c].monitor /\ client[c].proxy \in {"ended", "refused"}
    /\ Set(c, IF client[c].proxy = "refused" THEN ServerNotRunning(r) ELSE Reconnect(r))

\* A heartbeat, or other activity, after missed ones: heartbeat_recovered.  The
\* activity channel counts as activity too when it is closed during a ping.
HeartbeatRecovers(c) ==
    /\ client[c].heartbeat /\ client[c].task = "none" /\ client[c].missed > 0
    /\ Set(c, [client[c] EXCEPT !.missed = 0,
                  !.state = IF @ = "HeartbeatMissed" THEN "Connected" ELSE @])

\* A ping is not answered in time: heartbeat_missed, and too many of them.
HeartbeatMissed(c) ==
    LET r == [client[c] EXCEPT !.missed = @ + 1,
                  !.state = IF @ = "Connected" THEN "HeartbeatMissed" ELSE @] IN
    /\ client[c].heartbeat /\ client[c].task = "none" /\ client[c].proxy = "up"
    /\ Set(c, IF r.missed >= MaxMissed THEN Reconnect(r) ELSE r)

\* The activity channel is closed with the proxy: the heartbeat task returns.
HeartbeatStops(c) ==
    /\ client[c].heartbeat /\ client[c].task = "none" /\ client[c].proxy # "up"
    /\ Set(c, [client[c] EXCEPT !.heartbeat = FALSE])

-----------------------------------------------------------------------------
(* What the user and the project do, with a client that new() has returned. *)

HandedOut(r) == r.task \notin {"open", "start", "ping", "pinged"}

\* shutdown_processes, called as the project is released: a connected client
\* has its connection dropped 50 ms later, any other is dropped at once,
\* except for a running attempt, whose result nobody will want.
ShutdownProcesses(c) ==
    LET r == client[c] IN
    /\ HandedOut(r) /\ r.state \notin {"Unopened", "Released"}
    /\ Set(c, CASE r.state = "Connected" ->
                      [r EXCEPT !.state = "Released", !.missed = 0, !.task = "shutdown",
                                !.monitor = FALSE, !.heartbeat = FALSE]
                [] r.state # "Connected" /\ r.task # "none" ->
                      [r EXCEPT !.state = "Released", !.attempts = 0]
                [] OTHER -> Released)

ShutdownEnds(c) ==
    /\ client[c].task = "shutdown"
    /\ Set(c, Released)

\* force_disconnect: the connection of the state, if it has one, is killed.
ForceDisconnect(c) ==
    /\ client[c].state \in {"Connected", "HeartbeatMissed"}
    /\ master' = [master EXCEPT ![client[c].conn] = "killed"]
    /\ UNCHANGED <<client, pool>>

\* force_heartbeat_timeout: a connected client reconnects as if `attempts`
\* had failed; the state of any other has been taken and is not put back.
ForceHeartbeatTimeout(c, attempts) ==
    LET r == client[c] IN
    /\ HandedOut(r) /\ r.state \notin {"Unopened", "Released"}
    /\ Set(c, CASE r.state = "Connected" /\ attempts = 0 ->
                      Reconnect([r EXCEPT !.state = "HeartbeatMissed"])
                [] r.state = "Connected" /\ attempts > 0 ->
                      Reconnect([DropTasks(r) EXCEPT !.state = "ReconnectFailed",
                                                     !.attempts = attempts])
                [] r.state # "Connected" /\ r.task # "none" ->
                      [r EXCEPT !.state = "None", !.attempts = 0]
                [] OTHER -> [Fresh EXCEPT !.state = "None"])

-----------------------------------------------------------------------------

ClientStep(c) ==
    \/ New(c) \/ Opened(c) \/ OpenFails(c)
    \/ AttemptKills(c) \/ AttemptConnects(c) \/ AttemptStartsProxy(c)
    \/ AttemptFails(c) \/ AttemptFinishes(c)
    \/ MonitorFires(c) \/ HeartbeatMissed(c) \/ HeartbeatStops(c)
    \/ ShutdownEnds(c)

Environment ==
    \/ \E c \in Client :
        \/ RemoteStarted(c) \/ PingAnswered(c) \/ ResyncAnswered(c)
        \/ HeartbeatRecovers(c) \/ ProxyEnds(c) \/ ProxyRefused(c)
    \/ \E k \in Conn : MasterOpened(k) \/ MasterFails(k) \/ MasterDies(k)

User ==
    \E c \in Client :
        \/ Open(c) \/ ShutdownProcesses(c) \/ ForceDisconnect(c)
        \/ \E n \in {0, MaxAttempts} : ForceHeartbeatTimeout(c, n)

Next == (\E c \in Client : ClientStep(c)) \/ Environment \/ User

\* Foreground tasks that are ready are polled; a killed process is waited for,
\* and a resync is answered or times out; a proxy does not outlive its master.
\* Opening a master may take for ever: nothing limits how long the user may
\* look at a password prompt, nor the commands that install the server.
Fairness ==
    /\ \A c \in Client :
        /\ WF_vars(AttemptKills(c)) /\ WF_vars(AttemptConnects(c))
        /\ WF_vars(AttemptStartsProxy(c)) /\ WF_vars(AttemptFails(c))
        /\ WF_vars(AttemptFinishes(c)) /\ WF_vars(MonitorFires(c))
        /\ WF_vars(client[c].proxy = "up" /\ master[client[c].conn] # "up" /\ ProxyEnds(c))

Spec == Init /\ [][Next]_vars /\ Fairness

-----------------------------------------------------------------------------
(* Properties. *)

State == {"Unopened", "Connecting", "Connected", "HeartbeatMissed", "Reconnecting",
          "None", "Released"} \cup Disconnected

ClientType ==
    [state : State, attempts : 0..MaxAttempts, missed : 0..MaxMissed,
     task : {"none", "open", "start", "ping", "pinged", "kill", "killed", "connect",
             "resync", "ok", "failed", "shutdown"},
     proxy : {"none", "up", "ended", "refused"}, monitor : BOOLEAN, heartbeat : BOOLEAN,
     conn : Conn \cup {NoConn}, wait : Conn \cup {NoConn}]

\* Type invariant.  ReconnectFailed is never a state at rest: the step that
\* sets it also leaves it again.
TypeOK ==
    /\ client \in [Client -> ClientType]
    /\ master \in [Conn -> {"unused", "opening", "up", "dead", "failed", "killed"}]
    /\ pool \in Conn \cup {NoConn}

\* However the windows' reconnect attempts interleave, the editor never has
\* two SSH masters to the host that nobody has killed: the pool makes every
\* client join the one under way.  And when a connecting task ends, the pool's
\* entry is still the one it was started for (the debug_assert in connect).
SingleMaster ==
    /\ \A j, k \in Conn :
         master[j] \in {"opening", "up", "dead"} /\ master[k] \in {"opening", "up", "dead"} => j = k
    /\ \A k \in Conn : master[k] = "opening" => pool = k

\* handle_heartbeat_result unwraps the state it takes: a heartbeat task that
\* can still report belongs to a client whose state is there, and is one that
\* the heartbeat is about.
HeartbeatHasState ==
    \A c \in Client : client[c].heartbeat /\ client[c].task = "none" =>
        client[c].state \in {"Connected", "HeartbeatMissed"}

\* A client that has been handed out and has told the project that it is
\* disconnected stays so, whatever a reconnect attempt that was still running
\* comes back with.  (new() does not look: see LostProxyIsNoticed.)
DisconnectedIsFinal ==
    [][\A c \in Client : HandedOut(client[c]) /\ client[c].state \in Disconnected =>
           client'[c].state \in {client[c].state, "None", "Released"}]_vars

\* Reconnecting ends if no master is opened for ever: a client that has lost
\* its connection is connected again or gives up, also when other windows keep
\* killing the master under it.
ReconnectEndsIfMastersOpen ==
    (\A k \in Conn : []<>(master[k] # "opening")) =>
        \A c \in Client : client[c].state = "Reconnecting" ~> client[c].state # "Reconnecting"

\* A client that says it is connected and whose proxy has ended does not stay
\* connected: "proxy process terminated unexpectedly", "remote io task died
\* ... reconnecting..." start a reconnect, and a server that is not running
\* disconnects it.
LostProxyIsNoticed ==
    \A c \in Client : (client[c].state = "Connected" /\ client[c].proxy \in {"ended", "refused"}) ~>
        ~(client[c].state = "Connected" /\ client[c].proxy \in {"ended", "refused"})

-----------------------------------------------------------------------------
(* The inductive invariant behind the safety properties. *)

\* How the state of a client and its tasks belong together: what each step of
\* opening and of an attempt may find, whoever took the state in between.
Sound(r) ==
    /\ r.conn = NoConn \/ r.wait = NoConn
    /\ r.wait # NoConn <=> r.task \in {"open", "connect"}
    /\ r.task = "killed" => r.conn = NoConn
    /\ r.task = "open" => r.state = "Unopened"
    /\ r.state = "Unopened" => r.task \in {"none", "open"} /\ r.conn = NoConn
    /\ r.state = "Connecting" => r.task \in {"start", "ping", "pinged"}
    /\ r.task = "start" => r.state = "Connecting" /\ ~r.monitor
    /\ r.task \in {"ping", "pinged"} => r.state \in {"Connecting", "ServerNotRunning"}
    /\ r.state \in {"Connected", "HeartbeatMissed", "ReconnectExhausted"} => r.task = "none"
    /\ r.state \in {"Unopened", "ReconnectExhausted"} => ~r.monitor
    /\ r.heartbeat => r.task \in {"none", "ok"}
    /\ r.heartbeat /\ r.task = "none" => r.state \in {"Connected", "HeartbeatMissed"}

\* A master that nobody holds is none, and one that has been started and not
\* killed is the one the pool leads to.
PoolSound ==
    \A k \in Conn :
        /\ ~Held(k, client) => master[k] = "unused"
        /\ master[k] \in {"opening", "up", "dead"} => pool = k

RemoteInv == TypeOK /\ PoolSound /\ \A c \in Client : Sound(client[c])
=============================================================================
