------------------------------ MODULE Resolver ------------------------------
(***************************************************************************)
(* RemoteSSHResolver (src/src/authResolver.ts) and the SSHConnection       *)
(* objects it makes (src/src/ssh/sshConnection.ts): what each attempt to   *)
(* resolve a host allocates, and what releases it.                         *)
(*                                                                         *)
(* One resolver lives as long as the extension.  VS Code calls resolve()   *)
(* once per attempt; each dials a chain of ProxyJump hops, or spawns a     *)
(* ProxyCommand, dials the destination on top, runs the server's install   *)
(* script, and opens a SOCKS tunnel and the port it returns.  Nothing is   *)
(* released when an attempt fails: the next one starts with the teardown.  *)
(*                                                                         *)
(* An action is the code from one event to the next await of every promise *)
(* the event settles.  reconnect is never set (sshConnection.ts:39-44), so *)
(* a lost client stays lost; its promise stays cached until close().       *)
(***************************************************************************)
EXTENDS Naturals, FiniteSets

CONSTANTS
    MaxAttempt,  \* calls of resolve()
    Hops,        \* hops of a ProxyJump chain
    Transports,  \* what ssh_config may ask for: "direct", "jump", "command"
    Clients,     \* local sockets that connect to a returned port
    Overlap,     \* whether resolve() or dispose() may come while an attempt runs
    Faults       \* what may fail: a "dial", a "drop" of a link, a "forward", a "listen"

Attempt == 1..MaxAttempt

\* The connections of attempt a: its hops <<a, 1>>, <<a, 2>>, ... and Dest(a),
\* which has no hop below it unless the transport is a jump.
Conn == Attempt \X (1..(Hops + 1))
Dest(a) == <<a, Hops + 1>>
None == <<0, 0>>
Tunnel == Attempt \X {"socks", "port"}

ASSUME ResolverAssumption ==
    /\ MaxAttempt \in Nat \ {0}
    /\ Hops \in Nat
    /\ Transports \subseteq {"direct", "jump", "command"}
    /\ Overlap \in BOOLEAN
    /\ Faults \subseteq {"dial", "drop", "forward", "listen"}

VARIABLES
    \* The resolver's fields.  socksTunnel and proxyCommandProcess are the
    \* attempt that made them, or 0; tunnels are the attempts whose TunnelInfo is in it.
    sshConnection, proxyConnections, proxyCommandProcess, socksTunnel, tunnels,
    \* Each call of resolve(): where it is, the connection it waits for, the one
    \* installCodeServer was given, and its configuration: the transport and
    \* enableDynamicForwarding.
    att,
    \* Each SSHConnection: its ssh2 client, and whether a close() is going on.
    conn,
    child, \* the ProxyCommand children
    tunnel, \* listening local servers, with the connection in whose activeTunnels they are
    sock    \* the local clients of the returned ports

fields == <<sshConnection, proxyConnections, proxyCommandProcess, socksTunnel, tunnels>>
vars == <<fields, att, conn, child, tunnel, sock>>

Pc == {"idle", "config", "hop", "connect", "uname", "fetch", "script", "probe",
       "socksport", "socks", "findport", "port", "done", "failed"}
Idle == [pc |-> "idle", using |-> None, server |-> None,
         transport |-> "direct", dynamic |-> FALSE]
NoConn == [client |-> "none", closing |-> FALSE]
NoTunnel == [st |-> "none", on |-> None, via |-> 0]
NoSock == [st |-> "none", port |-> 0]

Init ==
    /\ sshConnection = None
    /\ proxyConnections = {}
    /\ proxyCommandProcess = 0
    /\ socksTunnel = 0
    /\ tunnels = {}
    /\ att = [a \in Attempt |-> Idle]
    /\ conn = [c \in Conn |-> NoConn]
    /\ child = [a \in Attempt |-> "none"]
    /\ tunnel = [t \in Tunnel |-> NoTunnel]
    /\ sock = [k \in Clients |-> NoSock]

------------------------------------------------------------------------------
(* SSHConnection *)

Live(c) == conn[c].client \in {"dialling", "ready"}

\* Connections whose transport is a stream of c.
Riders(c) == {d \in Conn : d[1] = c[1] /\ d[2] > c[2]}

\* connect() of a connection that was closed dials again; one that was given a
\* `sock` has only the ended stream to dial on.
ClientToUse(c) ==
    IF conn[c].client # "none" THEN conn[c].client
    ELSE IF att[c[1]].transport = "direct" \/ (att[c[1]].transport = "jump" /\ c[2] = 1)
           THEN "dialling" ELSE "dead"

Tunnels(c) == {t \in Tunnel : tunnel[t].on = c /\ tunnel[t].st \in {"open", "closing"}}

\* The connection a client of the port of attempt a is forwarded through.
Behind(a) ==
    LET port == tunnel[<<a, "port">>] IN
    IF port.via = 0 THEN port.on ELSE tunnel[<<port.via, "socks">>].on

\* Sockets a server still waits for before it is closed.
Held(t) == {k \in Clients : /\ sock[k].st \in {"waiting", "piped", "stuck"}
                            /\ \/ t = <<sock[k].port, "port">>
                               \/ t = <<tunnel[<<sock[k].port, "port">>].via, "socks">>}

------------------------------------------------------------------------------
(* What the loss of connections does to whoever uses them. *)

\* What attempt a has no more use for is forgotten at each of these.
Goes(a, pc) == [Idle EXCEPT !.pc = pc, !.transport = att[a].transport]
Fail(a) == Goes(a, "failed")
AfterProbe(a) == Goes(a, IF att[a].dynamic THEN "socksport" ELSE "findport")

\* Mutant of AttemptsWithout: nobody is told.
AttemptsUntold(S) == [a \in Attempt |-> att[a]]

\* A command cut off by the loss resolves with the output so far: nothing for
\* uname, an install script without its end marker.  A probe that fails only
\* turns the terminals off.
AttemptsWithout(S) ==
    [a \in Attempt |->
        IF att[a].using \notin S THEN att[a]
        ELSE IF att[a].pc = "probe" THEN AfterProbe(a)
        ELSE IF att[a].pc = "uname" /\ conn[att[a].using].client = "ready"
               THEN [att[a] EXCEPT !.pc = "fetch", !.using = None]
        ELSE Fail(a)]

\* A piped socket ends with its stream.  One whose forwardOut is pending gets the
\* error: the SOCKS server drops it, addTunnel's own handler only reports it.
SocketsWithout(S) ==
    [k \in Clients |->
        IF sock[k].st \notin {"waiting", "piped"} \/ Behind(sock[k].port) \notin S THEN sock[k]
        ELSE IF /\ sock[k].st = "waiting"
                /\ conn[Behind(sock[k].port)].client = "ready"
                /\ tunnel[<<sock[k].port, "port">>].via = 0
               THEN [sock[k] EXCEPT !.st = "stuck"]
        ELSE [sock[k] EXCEPT !.st = "gone"]]

Lost(S) == {c \in S : Live(c)}
ConnectionsWithout(S) ==
    [c \in Conn |-> IF c \in Lost(S) THEN [conn[c] EXCEPT !.client = "dead"] ELSE conn[c]]

Lose(S) ==
    /\ att' = AttemptsWithout(Lost(S))
    /\ sock' = SocketsWithout(Lost(S))

------------------------------------------------------------------------------
(* teardownAttempt, and how a close() goes on. *)

\* Mutant of ToClose: only the end of the chain is closed, the hops are left to it.
ToCloseLast == {sshConnection} \ {None}

\* connectionsToClose
ToClose == ({sshConnection} \cup proxyConnections) \ {None}

\* Mutant of Teardown: the SOCKS tunnel is not forgotten.
TeardownKeepingSocks ==
    /\ tunnel' = [t \in Tunnel |->
                    IF tunnel[t].st = "open" /\ (tunnel[t].on \in ToClose
                                                  \/ (t[1] \in tunnels /\ tunnel[t].via # 0))
                      THEN [tunnel[t] EXCEPT !.st = "closing"] ELSE tunnel[t]]
    /\ conn' = [c \in Conn |-> IF c \in ToClose THEN [conn[c] EXCEPT !.closing = TRUE] ELSE conn[c]]
    /\ child' = [a \in Attempt |-> IF a = proxyCommandProcess /\ child[a] = "running"
                                     THEN "killed" ELSE child[a]]
    /\ tunnels' = {}
    /\ sshConnection' = None
    /\ proxyConnections' = {}
    /\ proxyCommandProcess' = 0
    /\ UNCHANGED socksTunnel

\* Tunnels first, then every connection (each closes the tunnels it has), then
\* the child.  Nothing here is waited for.
Teardown ==
    /\ tunnel' = [t \in Tunnel |->
                    IF tunnel[t].st = "open" /\ (tunnel[t].on \in ToClose
                                                  \/ (t[1] \in tunnels /\ tunnel[t].via # 0))
                      THEN [tunnel[t] EXCEPT !.st = "closing"] ELSE tunnel[t]]
    /\ conn' = [c \in Conn |-> IF c \in ToClose THEN [conn[c] EXCEPT !.closing = TRUE] ELSE conn[c]]
    /\ child' = [a \in Attempt |-> IF a = proxyCommandProcess /\ child[a] = "running"
                                     THEN "killed" ELSE child[a]]
    /\ tunnels' = {}
    /\ sshConnection' = None
    /\ proxyConnections' = {}
    /\ proxyCommandProcess' = 0
    /\ socksTunnel' = 0

\* server.close() calls back once the last socket of the server has gone.
ServerClosed(t) ==
    /\ tunnel[t].st = "closing"
    /\ Held(t) = {}
    /\ tunnel' = [tunnel EXCEPT ![t].st = "closed"]
    /\ UNCHANGED <<fields, att, conn, child, sock>>

\* All its tunnels are closed: end the client, and with it what rides on it.
FinishClose(c) ==
    /\ conn[c].closing
    /\ Tunnels(c) = {}
    /\ conn' = [ConnectionsWithout(Riders(c)) EXCEPT ![c] = NoConn]
    /\ Lose(Riders(c) \cup {c})
    /\ UNCHANGED <<fields, child, tunnel>>

------------------------------------------------------------------------------
(* resolve() *)

Running(a) == att[a].pc \notin {"idle", "done", "failed"}

\* A new attempt: release what earlier ones left, then read the configuration.
Start(a) ==
    /\ att[a].pc = "idle"
    /\ \A b \in Attempt : b < a => att[b].pc # "idle" /\ (Overlap \/ ~Running(b))
    /\ Teardown
    /\ \E transport \in Transports, dynamic \in BOOLEAN :
         att' = [att EXCEPT ![a] = [Idle EXCEPT !.pc = "config", !.transport = transport,
                                               !.dynamic = dynamic]]
    /\ UNCHANGED sock

\* The extension is deactivated.
Dispose ==
    /\ Overlap \/ \A a \in Attempt : ~Running(a)
    /\ \E a \in Attempt : att[a].pc # "idle"
    /\ Teardown
    /\ UNCHANGED <<att, sock>>

\* Dial link i of the chain: a hop, or the destination.
Dial(a, i) ==
    /\ conn' = [conn EXCEPT ![<<a, i>>].client = "dialling"]
    /\ att' = [att EXCEPT ![a] = [@ EXCEPT !.pc = IF i <= Hops THEN "hop" ELSE "connect",
                                          !.using = <<a, i>>]]
    /\ IF i <= Hops
         THEN proxyConnections' = proxyConnections \cup {<<a, i>>} /\ UNCHANGED sshConnection
         ELSE sshConnection' = <<a, i>> /\ UNCHANGED proxyConnections

\* Mutant of Configured: the teardown is waited for.
ConfiguredAfterTeardown(a) ==
    /\ att[a].pc = "config"
    /\ \A c \in Conn : ~conn[c].closing
    /\ IF att[a].transport = "command"
         THEN child' = [child EXCEPT ![a] = "running"] /\ proxyCommandProcess' = a
         ELSE UNCHANGED <<child, proxyCommandProcess>>
    /\ Dial(a, IF att[a].transport = "jump" THEN 1 ELSE Hops + 1)
    /\ UNCHANGED <<socksTunnel, tunnels, tunnel, sock>>

\* The configuration and the identity files are read.
Configured(a) ==
    /\ att[a].pc = "config"
    /\ IF att[a].transport = "command"
         THEN child' = [child EXCEPT ![a] = "running"] /\ proxyCommandProcess' = a
         ELSE UNCHANGED <<child, proxyCommandProcess>>
    /\ Dial(a, IF att[a].transport = "jump" THEN 1 ELSE Hops + 1)
    /\ UNCHANGED <<socksTunnel, tunnels, tunnel, sock>>

\* The hop is connected and has forwarded a stream to the next link.
HopForwarded(a) ==
    /\ att[a].pc = "hop"
    /\ conn[att[a].using].client = "ready"
    /\ Dial(a, att[a].using[2] + 1)
    /\ UNCHANGED <<proxyCommandProcess, socksTunnel, tunnels, child, tunnel, sock>>

\* The hop cannot open a stream to the next link, and stays connected.
HopRefused(a) ==
    /\ "forward" \in Faults
    /\ att[a].pc = "hop"
    /\ conn[att[a].using].client = "ready"
    /\ att' = [att EXCEPT ![a] = Fail(a)]
    /\ UNCHANGED <<fields, conn, child, tunnel, sock>>

\* A client is ready.  An attempt that waited for its destination goes on at
\* once, with the connection that is in the field by then.
Ready(c) ==
    /\ conn[c].client = "dialling"
    /\ conn' = [conn EXCEPT ![c].client = "ready"]
    /\ att' = [a \in Attempt |->
                 IF att[a].pc # "connect" \/ att[a].using # c THEN att[a]
                 ELSE IF sshConnection = None \/ conn[sshConnection].client = "dead" THEN Fail(a)
                 ELSE [att[a] EXCEPT !.pc = "uname", !.using = sshConnection,
                                     !.server = sshConnection]]
    /\ UNCHANGED <<fields, child, tunnel, sock>>

\* A client cannot connect or authenticate, or readyTimeout passes.
DialFails(c) ==
    /\ "dial" \in Faults
    /\ conn[c].client = "dialling"
    /\ conn' = ConnectionsWithout({c})
    /\ Lose({c})
    /\ UNCHANGED <<fields, child, tunnel>>

\* The network drops a link, and everything that rides on it.
Drop(c) ==
    /\ "drop" \in Faults
    /\ conn[c].client = "ready"
    /\ conn' = ConnectionsWithout({c} \cup Riders(c))
    /\ Lose({c} \cup Riders(c))
    /\ UNCHANGED <<fields, child, tunnel>>

\* A killed or crashed ProxyCommand takes the connection on its pipes along.
ChildExits(a) ==
    /\ child[a] = "killed" \/ (child[a] = "running" /\ "drop" \in Faults)
    /\ child' = [child EXCEPT ![a] = "dead"]
    /\ conn' = ConnectionsWithout({Dest(a)})
    /\ Lose({Dest(a)})
    /\ UNCHANGED <<fields, tunnel>>

\* uname has answered, unless the platform was configured: look the release up.
Uname(a) ==
    /\ att[a].pc = "uname"
    /\ conn[att[a].using].client = "ready"
    /\ att' = [att EXCEPT ![a].pc = "fetch", ![a].using = None]
    /\ UNCHANGED <<fields, conn, child, tunnel, sock>>

\* The server's configuration or the release cannot be had.
FetchFails(a) ==
    /\ att[a].pc = "fetch"
    /\ att' = [att EXCEPT ![a] = Fail(a)]
    /\ UNCHANGED <<fields, conn, child, tunnel, sock>>

\* The release is known: run the install script on the connection
\* installCodeServer was given, which exec() dials again if it was closed.
RunScript(a) ==
    /\ att[a].pc = "fetch"
    /\ LET c == att[a].server IN
         /\ conn' = [conn EXCEPT ![c].client = ClientToUse(c)]
         /\ att' = [att EXCEPT ![a] = IF ClientToUse(c) = "dead" THEN Fail(a)
                                      ELSE [@ EXCEPT !.pc = "script", !.using = c]]
    /\ UNCHANGED <<fields, child, tunnel, sock>>

\* The script has ended.  probeTmux runs on the connection in the field, and
\* takes any failure for "not installed".
ScriptDone(a) ==
    /\ att[a].pc = "script"
    /\ conn[att[a].using].client = "ready"
    /\ IF sshConnection = None \/ conn[sshConnection].client = "dead"
         THEN att' = [att EXCEPT ![a] = AfterProbe(a)]
         ELSE att' = [att EXCEPT ![a].pc = "probe", ![a].using = sshConnection]
    /\ UNCHANGED <<fields, conn, child, tunnel, sock>>

\* The script could not install or start the server.
ScriptFails(a) ==
    /\ att[a].pc = "script"
    /\ conn[att[a].using].client = "ready"
    /\ att' = [att EXCEPT ![a] = Fail(a)]
    /\ UNCHANGED <<fields, conn, child, tunnel, sock>>

Probed(a) ==
    /\ att[a].pc = "probe"
    /\ conn[att[a].using].client = "ready"
    /\ att' = [att EXCEPT ![a] = AfterProbe(a)]
    /\ UNCHANGED <<fields, conn, child, tunnel, sock>>

\* addTunnel on the connection in the field: it only starts to listen.
Listen(a, kind) ==
    tunnel' = [tunnel EXCEPT ![<<a, kind>>] = [st |-> "opening", on |-> sshConnection, via |-> 0]]

\* A free port is found for the SOCKS tunnel.
OpenSocks(a) ==
    /\ att[a].pc = "socksport"
    /\ IF sshConnection = None
         THEN att' = [att EXCEPT ![a] = Fail(a)] /\ UNCHANGED tunnel
         ELSE att' = [att EXCEPT ![a].pc = "socks"] /\ Listen(a, "socks")
    /\ UNCHANGED <<fields, conn, child, sock>>

SocksListening(a) ==
    /\ att[a].pc = "socks"
    /\ tunnel' = [tunnel EXCEPT ![<<a, "socks">>].st = "open"]
    /\ socksTunnel' = a
    /\ att' = [att EXCEPT ![a].pc = "findport"]
    /\ UNCHANGED <<sshConnection, proxyConnections, proxyCommandProcess, tunnels, conn, child, sock>>

\* openTunnel for a server that listens on a port: forward through the SOCKS tunnel.
OpenForward(a) ==
    /\ att[a].pc = "findport"
    /\ socksTunnel # 0
    /\ att' = [att EXCEPT ![a].pc = "port"]
    /\ tunnel' = [tunnel EXCEPT ![<<a, "port">>] =
                     [st |-> "opening", on |-> None, via |-> socksTunnel]]
    /\ UNCHANGED <<fields, conn, child, sock>>

\* openTunnel without a SOCKS tunnel, or for a server that listens on a socket.
OpenDirect(a) ==
    /\ att[a].pc = "findport"
    /\ IF sshConnection = None
         THEN att' = [att EXCEPT ![a] = Fail(a)] /\ UNCHANGED tunnel
         ELSE att' = [att EXCEPT ![a].pc = "port"] /\ Listen(a, "port")
    /\ UNCHANGED <<fields, conn, child, sock>>

\* The port listens: it is the result, and onResolveSuccess wires the terminals.
PortListening(a) ==
    /\ att[a].pc = "port"
    /\ tunnel' = [tunnel EXCEPT ![<<a, "port">>].st = "open"]
    /\ tunnels' = tunnels \cup {a}
    /\ att' = [att EXCEPT ![a].pc = "done"]
    /\ UNCHANGED <<sshConnection, proxyConnections, proxyCommandProcess, socksTunnel, conn, child, sock>>

\* The port that was free a moment ago is taken.
ListenFails(a) ==
    /\ "listen" \in Faults
    /\ att[a].pc \in {"socks", "port"}
    /\ tunnel' = [tunnel EXCEPT ![<<a, att[a].pc>>].st = "closed"]
    /\ att' = [att EXCEPT ![a] = Fail(a)]
    /\ UNCHANGED <<fields, conn, child, sock>>

------------------------------------------------------------------------------
(* Clients of a returned port. *)

\* A client connects; the handler calls connect() and then forwardOut.  A SOCKS
\* server that no longer listens, or a lost link, drops it at once.
Accept(k, a) ==
    /\ sock[k].st = "none"
    /\ tunnel[<<a, "port">>].st = "open"
    /\ LET port == tunnel[<<a, "port">>]
           c == Behind(a)
           served == port.via = 0 \/ tunnel[<<port.via, "socks">>].st = "open"
       IN IF served /\ ClientToUse(c) # "dead"
            THEN /\ conn' = [conn EXCEPT ![c].client = ClientToUse(c)]
                 /\ sock' = [sock EXCEPT ![k] = [st |-> "waiting", port |-> a]]
            ELSE /\ sock' = [sock EXCEPT ![k] = [st |-> "gone", port |-> a]]
                 /\ UNCHANGED conn
    /\ UNCHANGED <<fields, att, child, tunnel>>

\* forwardOut answers with a stream.
Pipe(k) ==
    /\ sock[k].st = "waiting"
    /\ conn[Behind(sock[k].port)].client = "ready"
    /\ sock' = [sock EXCEPT ![k].st = "piped"]
    /\ UNCHANGED <<fields, att, conn, child, tunnel>>

\* Mutant of Refused: the SOCKS handshake that fails destroys nothing either.
RefusedNot(k) == "stuck"

\* A SOCKS handshake that fails destroys its client; a direct tunnel only logs.
Refused(k) == IF tunnel[<<sock[k].port, "port">>].via = 0 THEN "stuck" ELSE "gone"

\* forwardOut answers with an error: the SOCKS library ends the client, the
\* handler of addTunnel only reports it.
ForwardFails(k) ==
    /\ "forward" \in Faults
    /\ sock[k].st = "waiting"
    /\ conn[Behind(sock[k].port)].client = "ready"
    /\ sock' = [sock EXCEPT ![k].st = Refused(k)]
    /\ UNCHANGED <<fields, att, conn, child, tunnel>>

\* The client goes away.
Leave(k) ==
    /\ sock[k].st \in {"waiting", "piped", "stuck"}
    /\ sock' = [sock EXCEPT ![k].st = "gone"]
    /\ UNCHANGED <<fields, att, conn, child, tunnel>>

------------------------------------------------------------------------------

Resolve(a) ==
    \/ Configured(a) \/ HopForwarded(a) \/ Uname(a) \/ RunScript(a) \/ ScriptDone(a) \/ Probed(a)
    \/ OpenSocks(a) \/ SocksListening(a) \/ OpenForward(a) \/ OpenDirect(a) \/ PortListening(a)

\* What a server or the network answers may be an error.
Errs(a) == HopRefused(a) \/ FetchFails(a) \/ ScriptFails(a)

Next ==
    \/ \E a \in Attempt : Start(a) \/ Resolve(a) \/ Errs(a) \/ ListenFails(a) \/ ChildExits(a)
    \/ Dispose
    \/ \E c \in Conn : Ready(c) \/ DialFails(c) \/ Drop(c) \/ FinishClose(c)
    \/ \E t \in Tunnel : ServerClosed(t)
    \/ \E k \in Clients : Pipe(k) \/ ForwardFails(k) \/ Leave(k)
    \/ \E k \in Clients, a \in Attempt : Accept(k, a)

Spec == Init /\ [][Next]_vars

\* Files are read, remote commands end, servers listen and close, forwardOut
\* answers, and readyTimeout ends a dial that does not.
Fairness ==
    /\ \A a \in Attempt : WF_vars(Resolve(a)) /\ WF_vars(ChildExits(a))
    /\ \A c \in Conn : WF_vars(Ready(c) \/ DialFails(c)) /\ WF_vars(FinishClose(c))
    /\ \A t \in Tunnel : WF_vars(ServerClosed(t))
    /\ \A k \in Clients : WF_vars(Pipe(k) \/ ForwardFails(k))

FairSpec == Spec /\ Fairness

------------------------------------------------------------------------------
(* Properties *)

FieldTypeOK ==
    /\ sshConnection \in Conn \cup {None}
    /\ proxyConnections \subseteq Conn
    /\ proxyCommandProcess \in 0..MaxAttempt
    /\ socksTunnel \in 0..MaxAttempt
    /\ tunnels \subseteq Attempt

AttemptState == [pc: Pc, using: Conn \cup {None}, server: Conn \cup {None},
                 transport: {"direct", "jump", "command"}, dynamic: BOOLEAN]
ConnState == [client: {"none", "dialling", "ready", "dead"}, closing: BOOLEAN]
TunnelState == [st: {"none", "opening", "open", "closing", "closed"},
                on: Conn \cup {None}, via: 0..MaxAttempt]
SockState == [st: {"none", "waiting", "piped", "stuck", "gone"}, port: 0..MaxAttempt]

\* The shape of every variable; and an attempt that waits for a connection waits
\* for one that can still answer.
TypeOK ==
    /\ FieldTypeOK
    /\ att \in [Attempt -> AttemptState]
    /\ conn \in [Conn -> ConnState]
    /\ child \in [Attempt -> {"none", "running", "killed", "dead"}]
    /\ tunnel \in [Tunnel -> TunnelState]
    /\ sock \in [Clients -> SockState]
    /\ \A a \in Attempt : att[a].using # None => Live(att[a].using)

\* Nothing an attempt allocated is abandoned: a live connection, a ProxyCommand
\* child or a listening server is in the fields the next teardown releases, or
\* is being released, or is the step the attempt is at (authResolver.ts:354-361).
NothingAbandoned ==
    /\ \A c \in Conn : Live(c) => c \in ToClose \/ conn[c].closing
    /\ \A a \in Attempt : child[a] = "running" => proxyCommandProcess = a
    /\ \A t \in Tunnel : tunnel[t].st = "open" =>
         IF tunnel[t].on = None THEN t[1] \in tunnels
         ELSE tunnel[t].on \in ToClose \/ conn[tunnel[t].on].closing

\* A port leads to the host over the connection of the attempt that returned it,
\* never through what an earlier attempt left (authResolver.ts:518-522).
LeadsToOwnHost ==
    \A a \in Attempt : tunnel[<<a, "port">>].st = "open" => Behind(a) = Dest(a)

\* An attempt ends, whatever an earlier one left and whoever still uses it: the
\* teardown is started and not waited for.
AttemptEnds == \A a \in Attempt : Running(a) ~> ~Running(a)

\* An accepted client is forwarded or dropped, not left to hang
\* (authResolver.ts:828-831, sshConnection.ts:371-376): only a direct tunnel leaves
\* one, whose forwardOut failed, to itself.
ClientAnswered ==
    \A k \in Clients :
        sock[k].st = "waiting"
            ~> \/ sock[k].st \in {"piped", "gone"}
               \/ sock[k].st = "stuck" /\ tunnel[<<sock[k].port, "port">>].via = 0

==============================================================================
