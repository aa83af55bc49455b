--------------------------- MODULE ResolverProofs ---------------------------
(***************************************************************************)
(* Theorems about Resolver, for every number of attempts, hops and clients *)
(* and any faults.  As long as VS Code calls resolve() again only when the *)
(* last call has ended (Overlap = FALSE), nothing an attempt allocated is  *)
(* abandoned, and a returned port leads to the host of the attempt that    *)
(* returned it; Reentry is the run that shows why the premise is needed.   *)
(* Types, and that no attempt waits for a lost connection, need none.      *)
(***************************************************************************)
EXTENDS Resolver, TLAPS

(* The inductive invariant. *)

\* The last attempt that was started.
Latest(a) == att[a].pc # "idle" /\ \A b \in Attempt : b > a => att[b].pc = "idle"

\* The places of an attempt whose destination is connected.
Connected(a) ==
    att[a].pc \in {"uname", "fetch", "script", "probe", "socksport", "socks", "findport", "port"}

\* Attempts start in order, and none starts while one runs.
OneAtATime ==
    \A a, b \in Attempt : (att[a].pc = "idle" \/ Running(a)) /\ b > a => att[b].pc = "idle"

\* What is in the fields is the last attempt's; its connections were dialled,
\* and no teardown has reached them.
FieldsOfLatest ==
    /\ \A c \in ToClose : /\ Latest(c[1])
                          /\ conn[c].client # "none"
                          /\ \A d \in Conn : d[1] = c[1] => ~conn[d].closing
    /\ proxyCommandProcess # 0 => Latest(proxyCommandProcess)
    /\ socksTunnel # 0 => /\ Latest(socksTunnel)
                          /\ tunnel[<<socksTunnel, "socks">>].st # "none"

\* No teardown has reached a connection of an attempt that runs or is to come.
Untouched ==
    \A a \in Attempt, c \in Conn :
        (att[a].pc = "idle" \/ Running(a)) /\ c[1] = a => ~conn[c].closing

\* What the fields hold at each place of an attempt.
Places ==
    \A a \in Attempt :
        /\ att[a].using # None => att[a].pc \in {"hop", "connect", "uname", "script", "probe"}
        /\ att[a].pc = "config" => ToClose = {} /\ proxyCommandProcess = 0
        /\ att[a].pc = "hop" => /\ sshConnection = None
                                /\ att[a].using \in Conn
                                /\ att[a].using[1] = a /\ att[a].using[2] <= Hops
        /\ att[a].pc = "connect" => att[a].using = Dest(a)
        /\ att[a].pc = "connect" \/ Connected(a) => sshConnection = Dest(a)
        /\ att[a].pc \in {"uname", "fetch", "script"} => att[a].server = Dest(a)

\* A tunnel is on the destination of its attempt, or goes through the SOCKS
\* tunnel of its attempt, which is.
Wired(t) ==
    \/ tunnel[t].via = 0 /\ tunnel[t].on = Dest(t[1])
    \/ /\ t[2] = "port" /\ tunnel[t].via = t[1] /\ tunnel[t].on = None
       /\ tunnel[<<t[1], "socks">>].st # "none"

Tunneled ==
    \A t \in Tunnel :
        /\ tunnel[t].st # "none" => Wired(t)
        /\ (tunnel[t].st = "opening") <=> (att[t[1]].pc = t[2])
        /\ tunnel[t].st = "open" => IF tunnel[t].on = None THEN t[1] \in tunnels
                                    ELSE tunnel[t].on \in ToClose

Released ==
    /\ \A c \in Conn : Live(c) => c \in ToClose \/ conn[c].closing
    /\ \A a \in Attempt : child[a] = "running" => proxyCommandProcess = a

Sequential == OneAtATime /\ FieldsOfLatest /\ Untouched /\ Places /\ Tunneled /\ Released

------------------------------------------------------------------------------
(* Shapes. *)

LEMMA ConnShape ==
    /\ \A c \in Conn : c[1] \in Attempt /\ c[2] \in 1..(Hops + 1) /\ c = <<c[1], c[2]>>
    /\ \A a \in Attempt : Dest(a) \in Conn /\ Dest(a)[1] = a /\ Dest(a)[2] = Hops + 1
    /\ None \notin Conn
BY ResolverAssumption DEF ResolverAssumption, Conn, Dest, None, Attempt

LEMMA TunnelShape ==
    /\ \A t \in Tunnel : t[1] \in Attempt /\ t[2] \in {"socks", "port"} /\ t = <<t[1], t[2]>>
    /\ \A a \in Attempt, kind \in {"socks", "port"} :
         /\ <<a, kind>> \in Tunnel /\ <<a, kind>>[1] = a /\ <<a, kind>>[2] = kind
BY DEF Tunnel

LEMMA GoesType ==
    ASSUME TypeOK, NEW a \in Attempt, NEW pc \in Pc
    PROVE  /\ Goes(a, pc) \in AttemptState
           /\ Goes(a, pc).pc = pc /\ Goes(a, pc).using = None /\ Goes(a, pc).server = None
BY DEF Goes, Idle, AttemptState, TypeOK

LEMMA ToCloseType == ASSUME TypeOK PROVE ToClose \subseteq Conn
BY DEF TypeOK, FieldTypeOK, ToClose

\* The last attempt is one.
LEMMA LatestIsOne ==
    \A a, b \in Attempt : Latest(a) /\ Latest(b) => a = b
BY DEF Latest, Attempt

LEMMA RunningIsLatest ==
    ASSUME Sequential, NEW a \in Attempt, Running(a)
    PROVE  Latest(a)
BY DEF Sequential, OneAtATime, Latest, Running

------------------------------------------------------------------------------
(* Steps that only move attempts on, and what they do to connections. *)

\* An attempt stays, or goes on from a place where no tunnel is being opened to
\* one where none is yet.
Moves(a) ==
    \/ att'[a] = att[a]
    \/ /\ Running(a)
       /\ att[a].pc \notin {"socks", "port"}
       /\ att'[a].pc \in {"failed", "uname", "fetch", "script", "probe", "socksport", "findport"}
       /\ att'[a].pc # "failed" => att[a].pc = "connect" \/ Connected(a)
       /\ att'[a].pc \in {"uname", "fetch", "script"} => att'[a].server = Dest(a)
       /\ att'[a].using # None => att'[a].pc \in {"uname", "script", "probe"}

LEMMA SequentialMoves ==
    ASSUME TypeOK, Sequential, \A a \in Attempt : Moves(a), UNCHANGED <<fields, tunnel>>,
           \A c \in Conn : /\ conn'[c].closing => conn[c].closing
                           /\ c \in ToClose => conn'[c].client # "none"
                           /\ Live(c)' => Live(c) /\ (conn[c].closing => conn'[c].closing),
           \A a \in Attempt : child'[a] = "running" => child[a] = "running"
    PROVE  Sequential'
<1>1. \A a \in Attempt : /\ (att'[a].pc = "idle") <=> (att[a].pc = "idle")
                         /\ Running(a)' => Running(a)
  BY DEF Moves, Running
<1>2. UNCHANGED ToClose /\ ToClose \subseteq Conn
  BY ToCloseType DEF fields, ToClose
<1>3. OneAtATime'
  BY <1>1 DEF Sequential, OneAtATime
<1>4. FieldsOfLatest'
  <2>1. \A a \in Attempt : Latest(a)' <=> Latest(a)
    BY <1>1 DEF Latest
  <2>2. \A c \in ToClose' : /\ Latest(c[1])'
                            /\ conn'[c].client # "none"
                            /\ \A d \in Conn : d[1] = c[1] => ~conn'[d].closing
    BY <1>2, <2>1, ConnShape DEF Sequential, FieldsOfLatest
  <2>3. UNCHANGED <<proxyCommandProcess, socksTunnel, tunnel>>
    BY DEF fields
  <2>4. proxyCommandProcess # 0 => proxyCommandProcess \in Attempt
    BY ResolverAssumption DEF TypeOK, FieldTypeOK, Attempt, ResolverAssumption
  <2>5. socksTunnel # 0 => socksTunnel \in Attempt
    BY ResolverAssumption DEF TypeOK, FieldTypeOK, Attempt, ResolverAssumption
  <2>6. QED
    BY <2>1, <2>2, <2>3, <2>4, <2>5 DEF Sequential, FieldsOfLatest
<1>5. Untouched'
  BY <1>1 DEF Sequential, Untouched
<1>6. Places'
  <2>1. UNCHANGED <<sshConnection, proxyCommandProcess>>
    BY DEF fields
  <2> SUFFICES ASSUME NEW a \in Attempt
               PROVE  /\ att'[a].using # None => att'[a].pc \in {"hop", "connect", "uname", "script", "probe"}
                      /\ att'[a].pc = "config" => ToClose' = {} /\ proxyCommandProcess' = 0
                      /\ att'[a].pc = "hop" => /\ sshConnection' = None
                                               /\ att'[a].using \in Conn
                                               /\ att'[a].using[1] = a /\ att'[a].using[2] <= Hops
                      /\ att'[a].pc = "connect" => att'[a].using = Dest(a)
                      /\ att'[a].pc = "connect" \/ Connected(a)' => sshConnection' = Dest(a)
                      /\ att'[a].pc \in {"uname", "fetch", "script"} => att'[a].server = Dest(a)
    BY DEF Places
  <2>2. Moves(a)
    OBVIOUS
  <2>3. CASE att'[a] = att[a]
    BY <1>2, <2>1, <2>3 DEF Sequential, Places, Connected
  <2>4. CASE att'[a] # att[a]
    BY <2>1, <2>2, <2>4 DEF Sequential, Places, Moves, Connected
  <2>5. QED
    BY <2>3, <2>4
<1>7. Tunneled'
  <2>1. UNCHANGED tunnels
    BY DEF fields
  <2>2. \A t \in Tunnel : (tunnel[t].st = "opening") <=> (att'[t[1]].pc = t[2])
    BY TunnelShape DEF Sequential, Tunneled, Moves
  <2>3. QED
    BY <1>2, <2>1, <2>2 DEF Sequential, Tunneled, Wired
<1>8. Released'
  <2>1. UNCHANGED proxyCommandProcess
    BY DEF fields
  <2>2. QED
    BY <1>2, <2>1 DEF Sequential, Released
<1>9. QED
  BY <1>3, <1>4, <1>5, <1>6, <1>7, <1>8 DEF Sequential

\* An attempt whose connection is lost fails, or goes on without it.
LEMMA LossMoves ==
    ASSUME TypeOK, Sequential, NEW S \in SUBSET Conn, att' = AttemptsWithout(S), NEW a \in Attempt
    PROVE  /\ Moves(a)
           /\ att'[a] \in AttemptState
           /\ att'[a].using # None => att'[a] = att[a] /\ att[a].using \notin S
<1> DEFINE resumed == [att[a] EXCEPT !.pc = "fetch", !.using = None]
<1>1. att[a] \in AttemptState
  BY DEF TypeOK
<1>2. \/ att'[a] = att[a] /\ att[a].using \notin S
      \/ att[a].using \in S /\ att[a].pc = "probe" /\ att'[a] = AfterProbe(a)
      \/ att[a].using \in S /\ att[a].pc = "uname" /\ att'[a] = resumed
      \/ att[a].using \in S /\ att'[a] = Fail(a)
  BY DEF AttemptsWithout
<1>3. CASE att'[a] = att[a] /\ att[a].using \notin S
  BY <1>1, <1>3 DEF Moves
<1>4. CASE att[a].using \in S /\ att[a].pc = "probe" /\ att'[a] = AfterProbe(a)
  <2>1. /\ att'[a] \in AttemptState /\ att'[a].using = None
        /\ att'[a].pc \in {"socksport", "findport"}
    BY <1>4, GoesType DEF AfterProbe, Pc
  <2>2. QED
    BY <1>4, <2>1 DEF Moves, Running, Connected
<1>5. CASE att[a].using \in S /\ att[a].pc = "uname" /\ att'[a] = resumed
  <2>1. /\ resumed.pc = "fetch" /\ resumed.using = None /\ resumed.server = att[a].server
        /\ resumed \in AttemptState
    BY <1>1 DEF AttemptState, Pc
  <2>2. att[a].server = Dest(a)
    BY <1>5 DEF Sequential, Places
  <2> HIDE DEF resumed
  <2>3. QED
    BY <1>5, <2>1, <2>2 DEF Moves, Running, Connected
<1>6. CASE att[a].using \in S /\ att'[a] = Fail(a)
  <2>1. att'[a] \in AttemptState /\ att'[a].using = None /\ att'[a].pc = "failed"
    BY <1>6, GoesType DEF Fail, Pc
  <2>2. att[a].using # None
    BY <1>6, ConnShape
  <2>3. QED
    BY <2>1, <2>2 DEF Moves, Running, Sequential, Places
<1>7. QED
  BY <1>2, <1>3, <1>4, <1>5, <1>6

LEMMA SocketsType ==
    ASSUME TypeOK, NEW S
    PROVE  SocketsWithout(S) \in [Clients -> SockState]
<1>1. \A k \in Clients : sock[k] \in SockState
  BY DEF TypeOK
<1>2. \A k \in Clients, st \in {"stuck", "gone"} : [sock[k] EXCEPT !.st = st] \in SockState
  BY <1>1 DEF SockState
<1>3. QED
  BY <1>1, <1>2 DEF SocketsWithout

\* The connections of S are lost: a step of the network, a child or a close.
LEMMA LossKeeps ==
    ASSUME TypeOK, Sequential, NEW S \in SUBSET Conn, Lose(S),
           conn' \in [Conn -> ConnState],
           \A c \in Conn : \/ conn'[c] = conn[c] /\ (c \notin S \/ ~Live(c))
                           \/ /\ conn'[c].client \in {"none", "dead"}
                              /\ conn'[c].closing => conn[c].closing
                              /\ c \in ToClose => conn'[c].client # "none",
           child' \in [Attempt -> {"none", "running", "killed", "dead"}],
           \A a \in Attempt : child'[a] = "running" => child[a] = "running",
           \A c \in Conn : Live(c) /\ ~Live(c)' => c \in S,
           UNCHANGED <<fields, tunnel>>
    PROVE  TypeOK' /\ Sequential'
<1>1. Lost(S) \in SUBSET Conn
  BY DEF Lost
<1>2. \A a \in Attempt : /\ Moves(a)
                         /\ att'[a] \in AttemptState
                         /\ att'[a].using # None => att'[a] = att[a] /\ att[a].using \notin Lost(S)
  BY <1>1, LossMoves DEF Lose
<1>3. \A c \in Conn : /\ conn'[c].closing => conn[c].closing
                      /\ c \in ToClose => conn'[c].client # "none"
                      /\ Live(c)' => Live(c) /\ (conn[c].closing => conn'[c].closing)
  <2>1. \A c \in ToClose : conn[c].client # "none"
    BY DEF Sequential, FieldsOfLatest
  <2>2. QED
    BY <2>1 DEF Live
<1>4. Sequential'
  BY <1>2, <1>3, SequentialMoves
<1>5. TypeOK'
  <2>1. att' \in [Attempt -> AttemptState]
    BY <1>2 DEF Lose, AttemptsWithout
  <2>2. sock' \in [Clients -> SockState]
    BY SocketsType DEF Lose
  <2>3. (\A a \in Attempt : att[a].using # None => Live(att[a].using))'
    <3> SUFFICES ASSUME NEW a \in Attempt, att'[a].using # None
                 PROVE  conn'[att'[a].using].client \in {"dialling", "ready"}
      BY DEF Live
    <3> DEFINE c == att[a].using
    <3>1. att'[a].using = c /\ c # None /\ c \notin Lost(S)
      BY <1>2
    <3>2. c \in Conn /\ Live(c)
      BY <3>1 DEF TypeOK, AttemptState
    <3>3. c \notin S
      BY <3>1, <3>2 DEF Lost
    <3> HIDE DEF c
    <3>4. QED
      BY <3>1, <3>2, <3>3 DEF Live
  <2>4. FieldTypeOK'
    BY DEF TypeOK, FieldTypeOK, fields
  <2>5. QED
    BY <2>1, <2>2, <2>3, <2>4 DEF TypeOK
<1>6. QED
  BY <1>4, <1>5

LEMMA ConnectionsWithoutType ==
    ASSUME TypeOK, NEW S \in SUBSET Conn
    PROVE  /\ ConnectionsWithout(S) \in [Conn -> ConnState]
           /\ \A c \in Conn : ConnectionsWithout(S)[c] =
                IF c \in S /\ Live(c) THEN [conn[c] EXCEPT !.client = "dead"] ELSE conn[c]
BY DEF TypeOK, ConnectionsWithout, ConnState, Lost

LEMMA LossesKeep ==
    ASSUME TypeOK, Sequential,
           \/ \E c \in Conn : DialFails(c) \/ Drop(c)
           \/ \E a \in Attempt : ChildExits(a)
    PROVE  TypeOK' /\ Sequential'
<1>1. PICK S \in SUBSET Conn : Lose(S) /\ conn' = ConnectionsWithout(S)
  <2>1. ASSUME NEW c \in Conn PROVE {c} \in SUBSET Conn /\ {c} \cup Riders(c) \in SUBSET Conn
    BY DEF Riders
  <2>2. ASSUME NEW a \in Attempt PROVE {Dest(a)} \in SUBSET Conn
    BY ConnShape
  <2>3. QED
    BY <2>1, <2>2 DEF DialFails, Drop, ChildExits
<1>2. /\ child' \in [Attempt -> {"none", "running", "killed", "dead"}]
      /\ \A a \in Attempt : child'[a] = "running" => child[a] = "running"
      /\ UNCHANGED <<fields, tunnel>>
  BY DEF DialFails, Drop, ChildExits, TypeOK
<1>3. /\ conn' \in [Conn -> ConnState]
      /\ \A c \in Conn : conn'[c] =
           IF c \in S /\ Live(c) THEN [conn[c] EXCEPT !.client = "dead"] ELSE conn[c]
  BY <1>1, ConnectionsWithoutType
<1>4. \A c \in Conn : conn[c] \in ConnState
  BY DEF TypeOK
<1>5. \A c \in Conn : \/ conn'[c] = conn[c] /\ (c \notin S \/ ~Live(c))
                      \/ /\ conn'[c].client = "dead" /\ conn'[c].closing = conn[c].closing
                         /\ c \in S
  BY <1>3, <1>4 DEF ConnState
<1>6. \A c \in Conn : Live(c) /\ ~Live(c)' => c \in S
  BY <1>5 DEF Live
<1>7. QED
  BY <1>1, <1>2, <1>3, <1>5, <1>6, LossKeeps

\* A close that ends touches no connection of the fields.
LEMMA FinishCloseKeeps ==
    ASSUME TypeOK, Sequential, NEW c \in Conn, FinishClose(c)
    PROVE  TypeOK' /\ Sequential'
<1> DEFINE S == Riders(c) \cup {c}
<1>1. Riders(c) \in SUBSET Conn /\ S \in SUBSET Conn
  BY DEF Riders
<1>2. conn[c].closing /\ Lose(S) /\ UNCHANGED <<fields, child, tunnel>>
  BY DEF FinishClose
<1>3. c \notin ToClose
  BY <1>2 DEF Sequential, FieldsOfLatest
<1> DEFINE base == ConnectionsWithout(Riders(c))
<1>4. /\ base \in [Conn -> ConnState]
      /\ \A d \in Conn : base[d] =
           IF d \in Riders(c) /\ Live(d) THEN [conn[d] EXCEPT !.client = "dead"] ELSE conn[d]
  BY <1>1, ConnectionsWithoutType
<1>5. conn' = [base EXCEPT ![c] = NoConn]
  BY DEF FinishClose
<1>6. NoConn \in ConnState /\ NoConn.client = "none" /\ NoConn.closing = FALSE
  BY DEF NoConn, ConnState
<1>7. S = Riders(c) \cup {c}
  OBVIOUS
<1> HIDE DEF base, S
<1>8. /\ conn' \in [Conn -> ConnState]
      /\ conn'[c] = NoConn /\ \A d \in Conn : d # c => conn'[d] = base[d]
  BY <1>4, <1>5, <1>6
<1>9. \A d \in Conn : \/ conn'[d] = conn[d] /\ (d \notin S \/ ~Live(d))
                      \/ /\ conn'[d].client \in {"none", "dead"}
                         /\ conn'[d].closing => conn[d].closing
                         /\ d \in ToClose => conn'[d].client # "none"
                         /\ d \in S
  <2>1. \A d \in Conn : conn[d] \in ConnState
    BY DEF TypeOK
  <2>2. QED
    BY <1>3, <1>4, <1>6, <1>7, <1>8, <2>1 DEF ConnState
<1>10. \A d \in Conn : Live(d) /\ ~Live(d)' => d \in S
  BY <1>9 DEF Live
<1>11. child' \in [Attempt -> {"none", "running", "killed", "dead"}]
  BY <1>2 DEF TypeOK
<1>12. QED
  BY <1>1, <1>2, <1>8, <1>9, <1>10, <1>11, LossKeeps

LEMMA SameConnections ==
    ASSUME Sequential, UNCHANGED <<conn, child>>
    PROVE  /\ \A c \in Conn : /\ conn'[c].closing => conn[c].closing
                              /\ c \in ToClose => conn'[c].client # "none"
                              /\ Live(c)' => Live(c) /\ (conn[c].closing => conn'[c].closing)
           /\ \A a \in Attempt : child'[a] = "running" => child[a] = "running"
BY DEF Sequential, FieldsOfLatest, Live

\* An attempt whose destination is connected goes on, and nothing else does.
LEMMA AttemptKeeps ==
    ASSUME TypeOK, Sequential, NEW a \in Attempt, Connected(a),
           att[a].pc \notin {"socks", "port"},
           NEW rec \in AttemptState, att' = [att EXCEPT ![a] = rec],
           rec.pc \in {"failed", "fetch", "script", "probe", "socksport", "findport"},
           rec.pc \in {"fetch", "script"} => rec.server = Dest(a),
           rec.using # None => Live(rec.using) /\ rec.pc \in {"script", "probe"},
           UNCHANGED <<fields, conn, child, tunnel, sock>>
    PROVE  TypeOK' /\ Sequential'
<1>1. att'[a] = rec /\ \A b \in Attempt : b # a => att'[b] = att[b]
  BY DEF TypeOK
<1>2. \A b \in Attempt : Moves(b)
  BY <1>1 DEF Moves, Running, Connected
<1>3. Sequential'
  BY <1>2, SequentialMoves, SameConnections
<1>4. (\A b \in Attempt : att[b].using # None => Live(att[b].using))'
  BY <1>1 DEF TypeOK, Live
<1>5. TypeOK'
  BY <1>1, <1>4 DEF TypeOK, FieldTypeOK, fields
<1>6. QED
  BY <1>3, <1>5

\* A connection an attempt is connected to was dialled and is its destination.
LEMMA Destination ==
    ASSUME TypeOK, Sequential, NEW a \in Attempt, att[a].pc = "connect" \/ Connected(a)
    PROVE  /\ sshConnection = Dest(a) /\ sshConnection # None /\ sshConnection \in ToClose
           /\ Dest(a) \in Conn /\ conn[Dest(a)] \in ConnState
           /\ conn[Dest(a)].client # "none" /\ ~conn[Dest(a)].closing
<1>1. sshConnection = Dest(a) /\ Dest(a) \in Conn /\ sshConnection # None
  BY ConnShape DEF Sequential, Places
<1>2. sshConnection \in ToClose
  BY <1>1 DEF ToClose
<1>3. QED
  BY <1>1, <1>2 DEF Sequential, FieldsOfLatest, TypeOK

LEMMA ResolveKeeps ==
    ASSUME TypeOK, Sequential, NEW a \in Attempt,
           Uname(a) \/ RunScript(a) \/ ScriptDone(a) \/ Probed(a)
    PROVE  TypeOK' /\ Sequential'
<1>1. Connected(a) /\ att[a].pc \notin {"socks", "port"}
  BY DEF Connected, Uname, RunScript, ScriptDone, Probed
<1>2. /\ att[a] \in AttemptState /\ Fail(a) \in AttemptState /\ AfterProbe(a) \in AttemptState
      /\ Fail(a).pc = "failed" /\ Fail(a).using = None
      /\ AfterProbe(a).pc \in {"socksport", "findport"} /\ AfterProbe(a).using = None
  BY GoesType DEF TypeOK, Fail, AfterProbe, Pc
<1> DEFINE d == Dest(a)
<1>3. /\ sshConnection = d /\ sshConnection # None /\ d \in Conn
      /\ conn[d] \in ConnState /\ conn[d].client # "none"
  BY <1>1, Destination
<1>4. conn[d].client # "dead" => Live(d)
  BY <1>3 DEF Live, ConnState
<1>5. CASE Uname(a)
  <2> DEFINE rec == [att[a] EXCEPT !.pc = "fetch", !.using = None]
  <2>1. att' = [att EXCEPT ![a] = rec] /\ UNCHANGED <<fields, conn, child, tunnel, sock>>
    BY <1>2, <1>5 DEF Uname, TypeOK, AttemptState
  <2>2. rec \in AttemptState /\ rec.pc = "fetch" /\ rec.using = None /\ rec.server = att[a].server
    BY <1>2 DEF AttemptState, Pc
  <2>3. att[a].server = Dest(a)
    BY <1>5 DEF Uname, Sequential, Places
  <2> HIDE DEF rec
  <2>4. QED
    BY <1>1, <2>1, <2>2, <2>3, AttemptKeeps
<1>6. CASE RunScript(a)
  <2>1. att[a].server = d
    BY <1>6 DEF RunScript, Sequential, Places
  <2>2. ClientToUse(d) = conn[d].client
    BY <1>3 DEF ClientToUse
  <2> DEFINE run == [att[a] EXCEPT !.pc = "script", !.using = d]
  <2>3. /\ att' = [att EXCEPT ![a] = IF conn[d].client = "dead" THEN Fail(a) ELSE run]
        /\ conn' = [conn EXCEPT ![d].client = conn[d].client]
        /\ UNCHANGED <<fields, child, tunnel, sock>>
    BY <1>6, <2>1, <2>2 DEF RunScript
  <2>4. UNCHANGED conn
    BY <1>3, <2>3 DEF TypeOK, ConnState
  <2>5. run \in AttemptState /\ run.pc = "script" /\ run.using = d /\ run.server = d
    BY <1>2, <1>3, <2>1 DEF AttemptState, Pc
  <2>6. CASE conn[d].client = "dead"
    BY <1>1, <1>2, <2>3, <2>4, <2>6, AttemptKeeps
  <2>7. CASE conn[d].client # "dead"
    <3> HIDE DEF run
    <3>1. QED
      BY <1>1, <1>4, <2>3, <2>4, <2>5, <2>7, AttemptKeeps
  <2>8. QED
    BY <2>6, <2>7
<1>7. CASE ScriptDone(a)
  <2> DEFINE probe == [att[a] EXCEPT !.pc = "probe", !.using = d]
  <2>1. probe \in AttemptState /\ probe.pc = "probe" /\ probe.using = d
    BY <1>2, <1>3 DEF AttemptState, Pc
  <2>2. /\ \/ att' = [att EXCEPT ![a] = AfterProbe(a)]
           \/ conn[d].client # "dead" /\ att' = [att EXCEPT ![a] = probe]
        /\ UNCHANGED <<fields, conn, child, tunnel, sock>>
    BY <1>2, <1>3, <1>7 DEF ScriptDone, TypeOK, AttemptState
  <2> HIDE DEF probe, d
  <2>3. CASE att' = [att EXCEPT ![a] = AfterProbe(a)]
    BY <1>1, <1>2, <2>2, <2>3, AttemptKeeps
  <2>4. CASE conn[d].client # "dead" /\ att' = [att EXCEPT ![a] = probe]
    BY <1>1, <1>4, <2>1, <2>2, <2>4, AttemptKeeps
  <2>5. QED
    BY <2>2, <2>3, <2>4
<1>8. CASE Probed(a)
  BY <1>1, <1>2, <1>8, AttemptKeeps DEF Probed
<1>9. QED
  BY <1>5, <1>6, <1>7, <1>8

\* An attempt that gets an error ends, and what it allocated stays where it is.
LEMMA ErrsKeeps ==
    ASSUME TypeOK, Sequential, NEW a \in Attempt, Errs(a)
    PROVE  TypeOK' /\ Sequential'
<1>1. /\ Running(a) /\ att[a].pc \notin {"socks", "port"}
      /\ att' = [att EXCEPT ![a] = Fail(a)] /\ UNCHANGED <<fields, conn, child, tunnel, sock>>
  BY DEF Errs, HopRefused, FetchFails, ScriptFails, Running
<1>2. Fail(a) \in AttemptState /\ Fail(a).pc = "failed" /\ Fail(a).using = None
  BY GoesType DEF TypeOK, Fail, Pc
<1>3. att'[a] = Fail(a) /\ \A b \in Attempt : b # a => att'[b] = att[b]
  BY <1>1 DEF TypeOK
<1>4. \A b \in Attempt : Moves(b)
  BY <1>1, <1>2, <1>3 DEF Moves
<1>5. Sequential'
  BY <1>1, <1>4, SequentialMoves, SameConnections
<1>6. (\A b \in Attempt : att[b].using # None => Live(att[b].using))'
  BY <1>1, <1>2, <1>3 DEF TypeOK, Live
<1>7. TypeOK'
  BY <1>1, <1>2, <1>6 DEF TypeOK, FieldTypeOK, fields
<1>8. QED
  BY <1>5, <1>7

\* A client is ready; the attempt that waited for its destination goes on, and
\* the field still holds it.
LEMMA ReadyKeeps ==
    ASSUME TypeOK, Sequential, NEW c \in Conn, Ready(c)
    PROVE  TypeOK' /\ Sequential'
<1>1. /\ conn[c].client = "dialling" /\ conn' = [conn EXCEPT ![c].client = "ready"]
      /\ UNCHANGED <<fields, child, tunnel, sock>>
  BY DEF Ready
<1>2. /\ conn' \in [Conn -> ConnState]
      /\ \A d \in Conn : /\ conn'[d].closing = conn[d].closing
                         /\ d # c => conn'[d] = conn[d]
      /\ conn'[c].client = "ready"
  BY <1>1 DEF TypeOK, ConnState
<1>3. \A d \in Conn : Live(d)' <=> Live(d)
  BY <1>1, <1>2 DEF Live
<1>4. ASSUME NEW a \in Attempt
      PROVE  /\ Moves(a) /\ att'[a] \in AttemptState
             /\ att'[a].using # None => att'[a].using = att[a].using
  <2> DEFINE on == [att[a] EXCEPT !.pc = "uname", !.using = sshConnection, !.server = sshConnection]
  <2>0. att[a] \in AttemptState
    BY DEF TypeOK
  <2>1. CASE att[a].pc # "connect" \/ att[a].using # c
    <3>1. att'[a] = att[a]
      BY <2>1 DEF Ready
    <3>2. QED
      BY <2>0, <3>1 DEF Moves
  <2>2. CASE att[a].pc = "connect" /\ att[a].using = c
    <3>1. sshConnection = Dest(a) /\ sshConnection \in Conn /\ att[a].using = Dest(a)
      BY <2>2, Destination DEF Sequential, Places
    <3>2. sshConnection # None /\ conn[sshConnection].client # "dead"
      BY <1>1, <2>2, <3>1, ConnShape
    <3>3. att'[a] = on
      BY <2>2, <3>2 DEF Ready
    <3>4. /\ on \in AttemptState /\ on.pc = "uname" /\ on.using = sshConnection
          /\ on.server = sshConnection
      BY <2>0, <3>1 DEF AttemptState, Pc
    <3> HIDE DEF on
    <3>5. QED
      BY <2>2, <3>1, <3>3, <3>4 DEF Moves, Running
  <2>3. QED
    BY <2>1, <2>2
<1>5. Sequential'
  <2>1. \A d \in Conn : /\ conn'[d].closing => conn[d].closing
                        /\ d \in ToClose => conn'[d].client # "none"
                        /\ Live(d)' => Live(d) /\ (conn[d].closing => conn'[d].closing)
    BY <1>2, <1>3 DEF Sequential, FieldsOfLatest
  <2>2. \A a \in Attempt : child'[a] = "running" => child[a] = "running"
    BY <1>1
  <2>3. QED
    BY <1>1, <1>4, <2>1, <2>2, SequentialMoves
<1>6. TypeOK'
  <2>1. att' \in [Attempt -> AttemptState]
    BY <1>4 DEF Ready
  <2>2. (\A a \in Attempt : att[a].using # None => Live(att[a].using))'
    <3> SUFFICES ASSUME NEW a \in Attempt, att'[a].using # None
                 PROVE  conn'[att'[a].using].client \in {"dialling", "ready"}
      BY DEF Live
    <3> DEFINE d == att[a].using
    <3>1. att'[a].using = d /\ d # None
      BY <1>4
    <3>2. d \in Conn /\ Live(d)
      BY <3>1 DEF TypeOK, AttemptState
    <3> HIDE DEF d
    <3>3. QED
      BY <1>3, <3>1, <3>2 DEF Live
  <2>3. QED
    BY <1>1, <1>2, <2>1, <2>2 DEF TypeOK, FieldTypeOK, fields
<1>7. QED
  BY <1>5, <1>6

------------------------------------------------------------------------------
(* Dialling a link of the chain. *)

LEMMA OneRuns ==
    ASSUME Sequential, NEW a \in Attempt, NEW b \in Attempt, Running(a), Running(b)
    PROVE  a = b
BY RunningIsLatest, LatestIsOne

LEMMA DialKeeps ==
    ASSUME TypeOK, Sequential, NEW a \in Attempt, NEW i \in 1..(Hops + 1),
           att[a].pc \in {"config", "hop"}, sshConnection = None, Dial(a, i),
           \/ UNCHANGED <<child, proxyCommandProcess>>
           \/ /\ proxyCommandProcess = 0 /\ proxyCommandProcess' = a
              /\ child' = [child EXCEPT ![a] = "running"],
           UNCHANGED <<socksTunnel, tunnels, tunnel, sock>>
    PROVE  TypeOK' /\ Sequential'
<1> DEFINE c == <<a, i>>
           rec == [att[a] EXCEPT !.pc = IF i <= Hops THEN "hop" ELSE "connect", !.using = c]
<1>1. c \in Conn /\ c[1] = a /\ c[2] = i /\ (i > Hops => c = Dest(a)) /\ c # None
  <2>1. i > Hops => i = Hops + 1
    BY ResolverAssumption DEF ResolverAssumption
  <2>2. c \in Conn
    BY DEF Conn
  <2>3. QED
    BY <2>1, <2>2, ConnShape DEF Dest
<1>2. Running(a) /\ Latest(a)
  BY RunningIsLatest DEF Running
<1>3. /\ conn' = [conn EXCEPT ![c].client = "dialling"]
      /\ att' = [att EXCEPT ![a] = rec]
      /\ \/ i <= Hops /\ proxyConnections' = proxyConnections \cup {c} /\ UNCHANGED sshConnection
         \/ i > Hops /\ sshConnection' = c /\ UNCHANGED proxyConnections
  BY ResolverAssumption DEF Dial, TypeOK, AttemptState, ResolverAssumption
<1>4. /\ rec \in AttemptState /\ rec.using = c
      /\ rec.pc = IF i <= Hops THEN "hop" ELSE "connect"
  <2> DEFINE pc == IF i <= Hops THEN "hop" ELSE "connect"
  <2>1. pc \in Pc /\ att[a] \in AttemptState
    BY DEF TypeOK, Pc
  <2> HIDE DEF pc, c
  <2>2. [att[a] EXCEPT !.pc = pc, !.using = c] \in AttemptState
    BY <1>1, <2>1 DEF AttemptState
  <2>3. [att[a] EXCEPT !.pc = pc, !.using = c].using = c
        /\ [att[a] EXCEPT !.pc = pc, !.using = c].pc = pc
    BY <2>1 DEF AttemptState
  <2>4. QED
    BY <2>2, <2>3 DEF pc
<1> HIDE DEF c, rec
<1>5. att'[a] = rec /\ \A b \in Attempt : b # a => att'[b] = att[b]
  BY <1>3 DEF TypeOK
<1>6. /\ conn' \in [Conn -> ConnState]
      /\ conn'[c].client = "dialling" /\ conn'[c].closing = conn[c].closing
      /\ \A d \in Conn : d # c => conn'[d] = conn[d]
  BY <1>1, <1>3 DEF TypeOK, ConnState
<1>7. ToClose' = ToClose \cup {c} /\ ToClose \subseteq Conn
  BY <1>1, <1>3, ToCloseType DEF ToClose
<1>8. \A b \in Attempt : b # a => ~Running(b)
  BY <1>2, OneRuns
<1>9. \A b \in Attempt : /\ (att'[b].pc = "idle") <=> (att[b].pc = "idle")
                         /\ Running(b)' <=> Running(b)
                         /\ Latest(b)' <=> Latest(b)
  <2>1. \A b \in Attempt : /\ (att'[b].pc = "idle") <=> (att[b].pc = "idle")
                           /\ Running(b)' <=> Running(b)
    BY <1>2, <1>4, <1>5 DEF Running
  <2>2. QED
    BY <2>1 DEF Latest
<1>10. OneAtATime'
  BY <1>9 DEF Sequential, OneAtATime
<1>11. FieldsOfLatest'
  <2>1. \A d \in ToClose' : /\ Latest(d[1])'
                            /\ conn'[d].client # "none"
                            /\ \A e \in Conn : e[1] = d[1] => ~conn'[e].closing
    <3>1. \A e \in Conn : conn'[e].closing = conn[e].closing
      BY <1>6
    <3>2. \A d \in ToClose : Latest(d[1])' /\ \A e \in Conn : e[1] = d[1] => ~conn'[e].closing
      BY <1>7, <1>9, <3>1, ConnShape DEF Sequential, FieldsOfLatest
    <3>3. \A d \in ToClose : conn'[d].client # "none"
      BY <1>6, <1>7 DEF Sequential, FieldsOfLatest
    <3>4. Latest(a)' /\ \A e \in Conn : e[1] = a => ~conn'[e].closing
      BY <1>2, <1>9, <3>1 DEF Sequential, Untouched
    <3>5. QED
      BY <1>1, <1>6, <1>7, <3>2, <3>3, <3>4
  <2>2. proxyCommandProcess' # 0 => Latest(proxyCommandProcess)'
    <3>1. proxyCommandProcess # 0 => proxyCommandProcess \in Attempt
      BY ResolverAssumption DEF TypeOK, FieldTypeOK, Attempt, ResolverAssumption
    <3>2. proxyCommandProcess' = proxyCommandProcess \/ proxyCommandProcess' = a
      OBVIOUS
    <3>3. CASE proxyCommandProcess' = proxyCommandProcess
      BY <1>9, <3>1, <3>3 DEF Sequential, FieldsOfLatest, Latest
    <3>4. CASE proxyCommandProcess' = a
      BY <1>2, <1>9, <3>4 DEF Latest
    <3>5. QED
      BY <3>2, <3>3, <3>4
  <2>3. socksTunnel' # 0 => Latest(socksTunnel)' /\ tunnel'[<<socksTunnel', "socks">>].st # "none"
    <3>1. socksTunnel # 0 => socksTunnel \in Attempt
      BY ResolverAssumption DEF TypeOK, FieldTypeOK, Attempt, ResolverAssumption
    <3>2. QED
      BY <1>9, <3>1 DEF Sequential, FieldsOfLatest, Latest
  <2>4. QED
    BY <2>1, <2>2, <2>3 DEF FieldsOfLatest
<1>12. Untouched'
  BY <1>6, <1>9 DEF Sequential, Untouched
<1>13. Places'
  <2>1. \A b \in Attempt \ {a} : att'[b].pc \in {"idle", "done", "failed"} /\ att'[b].using = None
    BY <1>5, <1>8 DEF Running, Sequential, Places
  <2>2. \A b \in Attempt \ {a} :
          /\ att'[b].pc \notin {"config", "hop", "connect", "uname", "fetch", "script"}
          /\ ~Connected(b)'
    BY <2>1 DEF Connected
  <2>3. i <= Hops => sshConnection' = None
    BY <1>3, ResolverAssumption DEF ResolverAssumption
  <2>4. i > Hops => sshConnection' = Dest(a) /\ c = Dest(a)
    BY <1>1, <1>3, ResolverAssumption DEF ResolverAssumption
  <2>5. i <= Hops \/ i > Hops
    BY ResolverAssumption DEF ResolverAssumption
  <2>6. /\ att'[a].using = c /\ c \in Conn /\ c[1] = a
        /\ (i <= Hops /\ att'[a].pc = "hop" /\ c[2] <= Hops) \/ (i > Hops /\ att'[a].pc = "connect")
    BY <1>1, <1>4, <1>5, <2>5, ResolverAssumption DEF ResolverAssumption
  <2>7. QED
    BY <2>1, <2>2, <2>3, <2>4, <2>6 DEF Places, Connected
<1>14. Tunneled'
  <2>1. \A t \in Tunnel : (tunnel[t].st = "opening") <=> (att'[t[1]].pc = t[2])
    BY <1>4, <1>5, TunnelShape DEF Sequential, Tunneled
  <2>2. QED
    BY <1>7, <2>1 DEF Sequential, Tunneled, Wired
<1>15. Released'
  <2>1. \A d \in Conn : Live(d)' => d \in ToClose' \/ conn'[d].closing
    BY <1>6, <1>7 DEF Sequential, Released, Live
  <2>2. \A b \in Attempt : child'[b] = "running" => proxyCommandProcess' = b
    <3>1. CASE UNCHANGED <<child, proxyCommandProcess>>
      BY <3>1 DEF Sequential, Released
    <3>2. CASE /\ proxyCommandProcess = 0 /\ proxyCommandProcess' = a
               /\ child' = [child EXCEPT ![a] = "running"]
      <4>1. \A b \in Attempt : child[b] # "running"
        BY <3>2, ResolverAssumption DEF Sequential, Released, Attempt, ResolverAssumption
      <4>2. QED
        BY <3>2, <4>1 DEF TypeOK
    <3>3. QED
      BY <3>1, <3>2
  <2>3. QED
    BY <2>1, <2>2 DEF Released
<1>16. TypeOK'
  <2>1. FieldTypeOK'
    <3>1. a \in 0..MaxAttempt
      BY ResolverAssumption DEF Attempt, ResolverAssumption
    <3>2. QED
      BY <1>1, <1>3, <3>1 DEF TypeOK, FieldTypeOK
  <2>2. att' \in [Attempt -> AttemptState] /\ child' \in [Attempt -> {"none", "running", "killed", "dead"}]
    BY <1>3, <1>4 DEF TypeOK
  <2>3. (\A b \in Attempt : att[b].using # None => Live(att[b].using))'
    <3> SUFFICES ASSUME NEW b \in Attempt, att'[b].using # None
                 PROVE  conn'[att'[b].using].client \in {"dialling", "ready"}
      BY DEF Live
    <3>1. b = a
      BY <1>5, <1>8 DEF Sequential, Places, Running
    <3>2. QED
      BY <1>4, <1>5, <1>6, <3>1
  <2>4. QED
    BY <1>6, <2>1, <2>2, <2>3 DEF TypeOK
<1>17. QED
  BY <1>10, <1>11, <1>12, <1>13, <1>14, <1>15, <1>16 DEF Sequential

LEMMA ChainKeeps ==
    ASSUME TypeOK, Sequential, NEW a \in Attempt, Configured(a) \/ HopForwarded(a)
    PROVE  TypeOK' /\ Sequential'
<1>1. CASE Configured(a)
  <2> DEFINE i == IF att[a].transport = "jump" THEN 1 ELSE Hops + 1
  <2>1. i \in 1..(Hops + 1)
    BY ResolverAssumption DEF ResolverAssumption
  <2>2. att[a].pc = "config" /\ sshConnection = None /\ proxyCommandProcess = 0
    BY <1>1 DEF Configured, Sequential, Places, ToClose
  <2>3. /\ Dial(a, i) /\ UNCHANGED <<socksTunnel, tunnels, tunnel, sock>>
        /\ \/ UNCHANGED <<child, proxyCommandProcess>>
           \/ child' = [child EXCEPT ![a] = "running"] /\ proxyCommandProcess' = a
    BY <1>1 DEF Configured
  <2> HIDE DEF i
  <2>4. QED
    BY <2>1, <2>2, <2>3, DialKeeps
<1>2. CASE HopForwarded(a)
  <2> DEFINE i == att[a].using[2] + 1
  <2>1. att[a].pc = "hop" /\ sshConnection = None /\ att[a].using \in Conn /\ att[a].using[2] <= Hops
    BY <1>2 DEF HopForwarded, Sequential, Places
  <2>2. i \in 1..(Hops + 1)
    BY <2>1, ConnShape, ResolverAssumption DEF ResolverAssumption
  <2>3. /\ Dial(a, i)
        /\ UNCHANGED <<proxyCommandProcess, socksTunnel, tunnels, child, tunnel, sock>>
    BY <1>2 DEF HopForwarded
  <2> HIDE DEF i
  <2>4. QED
    BY <2>1, <2>2, <2>3, DialKeeps
<1>3. QED
  BY <1>1, <1>2

------------------------------------------------------------------------------
(* Tunnels. *)

\* One tunnel of a connected attempt changes, and the attempt moves with it.
LEMMA TunnelKeeps ==
    ASSUME TypeOK, Sequential, NEW a \in Attempt, Connected(a), NEW kind \in {"socks", "port"},
           NEW rec \in AttemptState, rec.using = None,
           rec.pc \in {"socks", "findport", "port", "done", "failed"},
           NEW tun \in TunnelState, tun.st # "none",
           (tun.st = "opening") <=> (rec.pc = kind),
           att[a].pc \in {"socks", "port"} => att[a].pc = kind,
           rec.pc \in {"socks", "port"} => rec.pc = kind,
           \/ tun.via = 0 /\ tun.on = Dest(a)
           \/ kind = "port" /\ tun.via = a /\ tun.on = None /\ tunnel[<<a, "socks">>].st # "none",
           tun.st = "open" /\ tun.on = None => a \in tunnels',
           att' = [att EXCEPT ![a] = rec], tunnel' = [tunnel EXCEPT ![<<a, kind>>] = tun],
           tunnels' = tunnels \/ tunnels' = tunnels \cup {a},
           socksTunnel' = socksTunnel \/ (socksTunnel' = a /\ kind = "socks"),
           UNCHANGED <<sshConnection, proxyConnections, proxyCommandProcess, conn, child, sock>>
    PROVE  TypeOK' /\ Sequential'
<1> DEFINE own == <<a, kind>>
<1>1. att'[a] = rec /\ \A b \in Attempt : b # a => att'[b] = att[b]
  BY DEF TypeOK
<1>2. own \in Tunnel /\ own[1] = a /\ own[2] = kind
  BY TunnelShape
<1>3. tunnel'[own] = tun /\ \A t \in Tunnel : t # own => tunnel'[t] = tunnel[t]
  BY <1>2 DEF TypeOK
<1>4. /\ sshConnection = Dest(a) /\ Dest(a) \in Conn /\ Dest(a) \in ToClose
      /\ UNCHANGED ToClose
  BY Destination DEF ToClose
<1>5. Running(a) /\ \A b \in Attempt : b # a => ~Running(b)
  BY OneRuns DEF Connected, Running
<1>6. \A b \in Attempt : /\ (att'[b].pc = "idle") <=> (att[b].pc = "idle")
                         /\ Running(b)' => Running(b)
                         /\ Latest(b)' <=> Latest(b)
  <2>1. \A b \in Attempt : /\ (att'[b].pc = "idle") <=> (att[b].pc = "idle")
                           /\ Running(b)' => Running(b)
    BY <1>1, <1>5 DEF Running
  <2>2. QED
    BY <2>1 DEF Latest
<1> HIDE DEF own
<1>7. \A b \in Attempt : <<b, "socks">> \in Tunnel /\ tunnel[<<b, "socks">>].st # "none"
                           => tunnel'[<<b, "socks">>].st # "none"
  BY <1>3
<1>8. OneAtATime'
  BY <1>6 DEF Sequential, OneAtATime
<1>9. FieldsOfLatest'
  <2>1. \A c \in ToClose' : /\ Latest(c[1])'
                            /\ conn'[c].client # "none"
                            /\ \A d \in Conn : d[1] = c[1] => ~conn'[d].closing
    BY <1>4, <1>6, ToCloseType, ConnShape DEF Sequential, FieldsOfLatest
  <2>2. proxyCommandProcess' # 0 => Latest(proxyCommandProcess)'
    <3>1. proxyCommandProcess # 0 => proxyCommandProcess \in Attempt
      BY ResolverAssumption DEF TypeOK, FieldTypeOK, Attempt, ResolverAssumption
    <3>2. QED
      BY <1>6, <3>1 DEF Sequential, FieldsOfLatest, Latest
  <2>3. socksTunnel' # 0 => Latest(socksTunnel)' /\ tunnel'[<<socksTunnel', "socks">>].st # "none"
    <3>1. CASE socksTunnel' = a /\ kind = "socks"
      <4>1. Latest(a)'
        BY <1>5, <1>6, RunningIsLatest
      <4>2. <<socksTunnel', "socks">> = own
        BY <3>1 DEF own
      <4>3. QED
        BY <1>3, <3>1, <4>1, <4>2 DEF Latest
    <3>2. CASE UNCHANGED socksTunnel
      <4>1. socksTunnel # 0 => socksTunnel \in Attempt
        BY ResolverAssumption DEF TypeOK, FieldTypeOK, Attempt, ResolverAssumption
      <4>2. socksTunnel # 0 => Latest(socksTunnel)'
        BY <1>6, <3>2, <4>1 DEF Sequential, FieldsOfLatest, Latest
      <4>3. socksTunnel # 0 => tunnel'[<<socksTunnel, "socks">>].st # "none"
        BY <1>7, <4>1, TunnelShape DEF Sequential, FieldsOfLatest
      <4>4. QED
        BY <3>2, <4>2, <4>3
    <3>3. QED
      BY <3>1, <3>2
  <2>4. QED
    BY <2>1, <2>2, <2>3 DEF FieldsOfLatest
<1>10. Untouched'
  BY <1>6 DEF Sequential, Untouched
<1>11. Places'
  <2>1. \A b \in Attempt : b # a => att'[b].pc \in {"idle", "done", "failed"} /\ att'[b].using = None
    BY <1>1, <1>5 DEF Running, Sequential, Places
  <2>2. QED
    BY <1>1, <1>4, <2>1 DEF Places, Connected
<1>12. Tunneled'
  <2>1. \A t \in Tunnel : tunnel'[t].st # "none" => Wired(t)'
    <3>1. ASSUME NEW t \in Tunnel, t # own, tunnel'[t].st # "none" PROVE Wired(t)'
      <4>1. Wired(t) /\ tunnel'[t] = tunnel[t]
        BY <1>3, <3>1 DEF Sequential, Tunneled
      <4>2. t[1] \in Attempt /\ <<t[1], "socks">> \in Tunnel
        BY TunnelShape
      <4>3. QED
        BY <1>7, <4>1, <4>2 DEF Wired
    <3>2. Wired(own)'
      <4>1. <<a, "socks">> \in Tunnel
        BY TunnelShape
      <4>2. QED
        BY <1>2, <1>3, <1>7, <4>1 DEF Wired
    <3>3. QED
      BY <3>1, <3>2
  <2>2. \A t \in Tunnel : (tunnel'[t].st = "opening") <=> (att'[t[1]].pc = t[2])
    <3> SUFFICES ASSUME NEW t \in Tunnel
                 PROVE  (tunnel'[t].st = "opening") <=> (att'[t[1]].pc = t[2])
      OBVIOUS
    <3>1. t[1] \in Attempt /\ t[2] \in {"socks", "port"} /\ t = <<t[1], t[2]>>
      BY TunnelShape
    <3>2. (tunnel[t].st = "opening") <=> (att[t[1]].pc = t[2])
      BY DEF Sequential, Tunneled
    <3>3. CASE t[1] # a
      BY <1>1, <1>2, <1>3, <3>1, <3>2, <3>3
    <3>4. CASE t[1] = a /\ t[2] = kind
      <4>1. t = own
        BY <3>1, <3>4 DEF own
      <4>2. QED
        BY <1>1, <1>3, <3>4, <4>1
    <3>5. CASE t[1] = a /\ t[2] # kind
      <4>1. tunnel'[t] = tunnel[t]
        BY <1>2, <1>3, <3>5
      <4>2. QED
        BY <1>1, <3>1, <3>2, <3>5, <4>1
    <3>6. QED
      BY <3>3, <3>4, <3>5
  <2>3. \A t \in Tunnel : tunnel'[t].st = "open" => IF tunnel'[t].on = None THEN t[1] \in tunnels'
                                                    ELSE tunnel'[t].on \in ToClose'
    <3>1. tun.on = None \/ tun.on = Dest(a)
      OBVIOUS
    <3>2. QED
      BY <1>2, <1>3, <1>4, <3>1 DEF Sequential, Tunneled
  <2>4. QED
    BY <2>1, <2>2, <2>3 DEF Tunneled
<1>13. Released'
  BY <1>4 DEF Sequential, Released, Live
<1>14. TypeOK'
  <2>1. FieldTypeOK'
    <3>1. a \in 0..MaxAttempt
      BY ResolverAssumption DEF Attempt, ResolverAssumption
    <3>2. QED
      BY <3>1 DEF TypeOK, FieldTypeOK
  <2>2. (\A b \in Attempt : att[b].using # None => Live(att[b].using))'
    BY <1>1 DEF TypeOK, Live
  <2>3. QED
    BY <2>1, <2>2 DEF TypeOK
<1>15. QED
  BY <1>8, <1>9, <1>10, <1>11, <1>12, <1>13, <1>14 DEF Sequential

LEMMA TunnelsKeep ==
    ASSUME TypeOK, Sequential, NEW a \in Attempt,
           \/ OpenSocks(a) \/ SocksListening(a) \/ OpenForward(a) \/ OpenDirect(a)
           \/ PortListening(a) \/ ListenFails(a)
    PROVE  TypeOK' /\ Sequential'
<1>1. Connected(a) /\ att[a].using = None /\ att[a] \in AttemptState
  BY DEF OpenSocks, SocksListening, OpenForward, OpenDirect, PortListening, ListenFails, Connected,
     Sequential, Places, TypeOK
<1>2. sshConnection = Dest(a) /\ sshConnection # None /\ Dest(a) \in Conn
  BY <1>1, Destination
<1> DEFINE to(pc) == [att[a] EXCEPT !.pc = pc]
<1>3. \A pc \in {"socks", "findport", "port", "done"} :
        to(pc) \in AttemptState /\ to(pc).pc = pc /\ to(pc).using = None
  BY <1>1 DEF AttemptState, Pc
<1>4. \A kind \in {"socks", "port"} :
        /\ <<a, kind>> \in Tunnel /\ tunnel[<<a, kind>>] \in TunnelState
        /\ <<a, kind>>[1] = a /\ <<a, kind>>[2] = kind
        /\ att[a].pc = kind => tunnel[<<a, kind>>].st # "none"
        /\ tunnel[<<a, kind>>].st # "none" => Wired(<<a, kind>>)
  <2>1. ASSUME NEW kind \in {"socks", "port"}
        PROVE  <<a, kind>> \in Tunnel /\ <<a, kind>>[1] = a /\ <<a, kind>>[2] = kind
    BY TunnelShape
  <2>2. QED
    BY <2>1 DEF Sequential, Tunneled, TypeOK
<1>5. \A kind \in {"socks", "port"}, st \in {"open", "closed"} :
        LET tun == [tunnel[<<a, kind>>] EXCEPT !.st = st] IN
        /\ tun \in TunnelState /\ tun.st = st
        /\ tun.on = tunnel[<<a, kind>>].on /\ tun.via = tunnel[<<a, kind>>].via
  BY <1>4 DEF TunnelState
<1> DEFINE direct == [st |-> "opening", on |-> Dest(a), via |-> 0]
           forward == [st |-> "opening", on |-> None, via |-> a]
<1>6. direct \in TunnelState /\ forward \in TunnelState
  BY <1>2, ResolverAssumption DEF TunnelState, Attempt, ResolverAssumption
<1>7. \A kind \in {"socks", "port"} :
        att[a].pc = kind =>
          \/ tunnel[<<a, kind>>].via = 0 /\ tunnel[<<a, kind>>].on = Dest(a)
          \/ /\ kind = "port" /\ tunnel[<<a, kind>>].via = a /\ tunnel[<<a, kind>>].on = None
             /\ tunnel[<<a, "socks">>].st # "none"
  BY <1>4 DEF Wired
<1>8. CASE OpenSocks(a)
  <2>1. /\ att' = [att EXCEPT ![a] = to("socks")] /\ tunnel' = [tunnel EXCEPT ![<<a, "socks">>] = direct]
        /\ UNCHANGED <<fields, conn, child, sock>> /\ att[a].pc = "socksport"
    BY <1>1, <1>2, <1>8 DEF OpenSocks, Listen, TypeOK, AttemptState
  <2>2. direct.st = "opening" /\ direct.via = 0 /\ direct.on = Dest(a)
    OBVIOUS
  <2> HIDE DEF to, direct
  <2>3. QED
    BY <1>1, <1>3, <1>6, <2>1, <2>2, TunnelKeeps DEF fields
<1>9. CASE SocksListening(a)
  <2> DEFINE tun == [tunnel[<<a, "socks">>] EXCEPT !.st = "open"]
  <2>1. /\ att' = [att EXCEPT ![a] = to("findport")] /\ tunnel' = [tunnel EXCEPT ![<<a, "socks">>] = tun]
        /\ socksTunnel' = a /\ att[a].pc = "socks"
        /\ UNCHANGED <<sshConnection, proxyConnections, proxyCommandProcess, tunnels, conn, child, sock>>
    BY <1>1, <1>4, <1>9 DEF SocksListening, TypeOK, AttemptState, TunnelState
  <2>2. /\ tun \in TunnelState /\ tun.st = "open"
        /\ tun.on = tunnel[<<a, "socks">>].on /\ tun.via = tunnel[<<a, "socks">>].via
    BY <1>5
  <2>3. tun.via = 0 /\ tun.on = Dest(a)
    BY <1>7, <2>1, <2>2
  <2> HIDE DEF to, tun
  <2>4. tun.on # None
    BY <1>2, <2>3
  <2>5. QED
    BY <1>1, <1>3, <2>1, <2>2, <2>3, <2>4, TunnelKeeps
<1>10. CASE OpenForward(a)
  <2>1. socksTunnel = a /\ tunnel[<<a, "socks">>].st # "none"
    <3>1. socksTunnel \in Attempt /\ Latest(socksTunnel) /\ tunnel[<<socksTunnel, "socks">>].st # "none"
      BY <1>10, ResolverAssumption DEF OpenForward, Sequential, FieldsOfLatest, TypeOK, FieldTypeOK,
         Attempt, ResolverAssumption
    <3>2. Latest(a)
      BY <1>1, RunningIsLatest DEF Connected, Running
    <3>3. QED
      BY <3>1, <3>2, LatestIsOne
  <2>2. /\ att' = [att EXCEPT ![a] = to("port")] /\ tunnel' = [tunnel EXCEPT ![<<a, "port">>] = forward]
        /\ UNCHANGED <<fields, conn, child, sock>> /\ att[a].pc = "findport"
    BY <1>1, <1>10, <2>1 DEF OpenForward, TypeOK, AttemptState
  <2>3. forward.st = "opening" /\ forward.via = a /\ forward.on = None
    OBVIOUS
  <2> HIDE DEF to, forward
  <2>4. QED
    BY <1>1, <1>3, <1>6, <2>1, <2>2, <2>3, TunnelKeeps DEF fields
<1>11. CASE OpenDirect(a)
  <2>1. /\ att' = [att EXCEPT ![a] = to("port")] /\ tunnel' = [tunnel EXCEPT ![<<a, "port">>] = direct]
        /\ UNCHANGED <<fields, conn, child, sock>> /\ att[a].pc = "findport"
    BY <1>1, <1>2, <1>11 DEF OpenDirect, Listen, TypeOK, AttemptState
  <2>2. direct.st = "opening" /\ direct.via = 0 /\ direct.on = Dest(a)
    OBVIOUS
  <2> HIDE DEF to, direct
  <2>3. QED
    BY <1>1, <1>3, <1>6, <2>1, <2>2, TunnelKeeps DEF fields
<1>12. CASE PortListening(a)
  <2> DEFINE tun == [tunnel[<<a, "port">>] EXCEPT !.st = "open"]
  <2>1. /\ att' = [att EXCEPT ![a] = to("done")] /\ tunnel' = [tunnel EXCEPT ![<<a, "port">>] = tun]
        /\ tunnels' = tunnels \cup {a} /\ att[a].pc = "port"
        /\ UNCHANGED <<sshConnection, proxyConnections, proxyCommandProcess, socksTunnel, conn, child, sock>>
    BY <1>1, <1>4, <1>12 DEF PortListening, TypeOK, AttemptState, TunnelState
  <2>2. /\ tun \in TunnelState /\ tun.st = "open"
        /\ tun.on = tunnel[<<a, "port">>].on /\ tun.via = tunnel[<<a, "port">>].via
    BY <1>5
  <2>3. \/ tun.via = 0 /\ tun.on = Dest(a)
        \/ tun.via = a /\ tun.on = None /\ tunnel[<<a, "socks">>].st # "none"
    BY <1>7, <2>1, <2>2
  <2> HIDE DEF to, tun
  <2>4. QED
    BY <1>1, <1>3, <2>1, <2>2, <2>3, TunnelKeeps
<1>13. CASE ListenFails(a)
  <2> DEFINE kind == att[a].pc
             tun == [tunnel[<<a, kind>>] EXCEPT !.st = "closed"]
  <2>1. /\ att' = [att EXCEPT ![a] = Fail(a)] /\ tunnel' = [tunnel EXCEPT ![<<a, kind>>] = tun]
        /\ kind \in {"socks", "port"}
        /\ UNCHANGED <<fields, conn, child, sock>>
    BY <1>4, <1>13 DEF ListenFails, TypeOK, TunnelState
  <2>2. /\ tun \in TunnelState /\ tun.st = "closed"
        /\ tun.on = tunnel[<<a, kind>>].on /\ tun.via = tunnel[<<a, kind>>].via
    BY <1>5, <2>1
  <2>3. \/ tun.via = 0 /\ tun.on = Dest(a)
        \/ kind = "port" /\ tun.via = a /\ tun.on = None /\ tunnel[<<a, "socks">>].st # "none"
    BY <1>7, <2>1, <2>2
  <2>4. Fail(a) \in AttemptState /\ Fail(a).pc = "failed" /\ Fail(a).using = None
    BY GoesType DEF Fail, Pc
  <2> HIDE DEF tun
  <2>5. QED
    BY <1>1, <2>1, <2>2, <2>3, <2>4, TunnelKeeps DEF fields
<1>14. QED
  BY <1>8, <1>9, <1>10, <1>11, <1>12, <1>13

\* A server that stops listening was released before.
LEMMA ServerClosedKeeps ==
    ASSUME TypeOK, Sequential, NEW t \in Tunnel, ServerClosed(t)
    PROVE  TypeOK' /\ Sequential'
<1>1. /\ tunnel' = [tunnel EXCEPT ![t].st = "closed"] /\ tunnel[t].st = "closing"
      /\ UNCHANGED <<fields, att, conn, child, sock>>
  BY DEF ServerClosed
<1>2. /\ tunnel' \in [Tunnel -> TunnelState]
      /\ \A u \in Tunnel : u # t => tunnel'[u] = tunnel[u]
      /\ tunnel'[t].st = "closed"
      /\ tunnel'[t].on = tunnel[t].on /\ tunnel'[t].via = tunnel[t].via
  BY <1>1 DEF TypeOK, TunnelState
<1>3. UNCHANGED ToClose
  BY <1>1 DEF fields, ToClose
<1>4. OneAtATime' /\ Untouched'
  BY <1>1 DEF Sequential, OneAtATime, Untouched, Running
<1>5. FieldsOfLatest'
  <2>1. socksTunnel # 0 => <<socksTunnel, "socks">> \in Tunnel
    <3>1. socksTunnel # 0 => socksTunnel \in Attempt
      BY ResolverAssumption DEF TypeOK, FieldTypeOK, Attempt, ResolverAssumption
    <3>2. QED
      BY <3>1, TunnelShape
  <2>2. socksTunnel # 0 => tunnel'[<<socksTunnel, "socks">>].st # "none"
    BY <1>2, <2>1 DEF Sequential, FieldsOfLatest
  <2>3. QED
    BY <1>1, <1>3, <2>2 DEF Sequential, FieldsOfLatest, Latest, fields
<1>6. Places'
  BY <1>1, <1>3 DEF Sequential, Places, Connected, fields
<1>7. Tunneled'
  <2>1. \A u \in Tunnel : u[1] \in Attempt /\ <<u[1], "socks">> \in Tunnel
    BY TunnelShape
  <2>2. \A u \in Tunnel : tunnel'[u].st # "none" => Wired(u)'
    BY <1>1, <1>2, <2>1 DEF Sequential, Tunneled, Wired
  <2>3. QED
    BY <1>1, <1>2, <1>3, <2>2 DEF Sequential, Tunneled, fields
<1>8. Released'
  BY <1>1, <1>3 DEF Sequential, Released, Live, fields
<1>9. TypeOK'
  BY <1>1, <1>2 DEF TypeOK, FieldTypeOK, fields, Live
<1>10. QED
  BY <1>4, <1>5, <1>6, <1>7, <1>8, <1>9 DEF Sequential

------------------------------------------------------------------------------
(* The teardown. *)

\* With no attempt running it reaches all there is.
LEMMA TeardownReleases ==
    ASSUME TypeOK, Sequential, \A a \in Attempt : ~Running(a), Teardown
    PROVE  /\ ToClose' = {} /\ sshConnection' = None /\ proxyCommandProcess' = 0 /\ socksTunnel' = 0
           /\ FieldTypeOK'
           /\ conn' \in [Conn -> ConnState]
           /\ \A c \in Conn : /\ conn'[c].client = conn[c].client
                              /\ conn'[c].closing <=> conn[c].closing \/ c \in ToClose
           /\ tunnel' \in [Tunnel -> TunnelState]
           /\ \A t \in Tunnel : /\ tunnel'[t].st \notin {"opening", "open"}
                                /\ (tunnel'[t].st = "none") <=> (tunnel[t].st = "none")
                                /\ tunnel'[t].on = tunnel[t].on /\ tunnel'[t].via = tunnel[t].via
           /\ child' \in [Attempt -> {"none", "running", "killed", "dead"}]
           /\ \A a \in Attempt : child'[a] # "running"
<1>1. /\ sshConnection' = None /\ proxyConnections' = {} /\ proxyCommandProcess' = 0
      /\ socksTunnel' = 0 /\ tunnels' = {}
  BY DEF Teardown
<1>2. ToClose' = {} /\ FieldTypeOK'
  BY <1>1, ResolverAssumption DEF ToClose, FieldTypeOK, ResolverAssumption
<1>3. conn' = [c \in Conn |-> IF c \in ToClose THEN [conn[c] EXCEPT !.closing = TRUE] ELSE conn[c]]
  BY DEF Teardown
<1>4. /\ conn' \in [Conn -> ConnState]
      /\ \A c \in Conn : /\ conn'[c].client = conn[c].client
                         /\ conn'[c].closing <=> conn[c].closing \/ c \in ToClose
  BY <1>3 DEF TypeOK, ConnState
<1>5. child' = [a \in Attempt |-> IF a = proxyCommandProcess /\ child[a] = "running"
                                    THEN "killed" ELSE child[a]]
  BY DEF Teardown
<1>6. /\ child' \in [Attempt -> {"none", "running", "killed", "dead"}]
      /\ \A a \in Attempt : child'[a] # "running"
  BY <1>5 DEF TypeOK, Sequential, Released
<1> DEFINE released(t) == \/ tunnel[t].on \in ToClose
                          \/ t[1] \in tunnels /\ tunnel[t].via # 0
<1>7. tunnel' = [t \in Tunnel |-> IF tunnel[t].st = "open" /\ released(t)
                                    THEN [tunnel[t] EXCEPT !.st = "closing"] ELSE tunnel[t]]
  BY DEF Teardown
<1>8. ASSUME NEW t \in Tunnel
      PROVE  tunnel[t].st # "opening" /\ (tunnel[t].st = "open" => released(t))
  <2>1. t[1] \in Attempt /\ t[2] \in {"socks", "port"}
    BY TunnelShape
  <2>2. tunnel[t].st # "opening"
    BY <2>1 DEF Sequential, Tunneled, Running
  <2>3. ASSUME tunnel[t].st = "open" PROVE released(t)
    <3>1. CASE tunnel[t].on # None
      BY <2>3, <3>1 DEF Sequential, Tunneled
    <3>2. CASE tunnel[t].on = None
      <4>1. t[1] \in tunnels /\ Wired(t)
        BY <2>3, <3>2 DEF Sequential, Tunneled
      <4>2. tunnel[t].via = t[1]
        BY <2>1, <3>2, <4>1, ConnShape DEF Wired
      <4>3. t[1] # 0
        BY <2>1 DEF Attempt
      <4>4. QED
        BY <4>1, <4>2, <4>3
    <3>3. QED
      BY <3>1, <3>2
  <2>4. QED
    BY <2>2, <2>3
<1>9. ASSUME NEW t \in Tunnel
      PROVE  /\ tunnel'[t] \in TunnelState
             /\ tunnel'[t].st \notin {"opening", "open"}
             /\ (tunnel'[t].st = "none") <=> (tunnel[t].st = "none")
             /\ tunnel'[t].on = tunnel[t].on /\ tunnel'[t].via = tunnel[t].via
  <2>1. tunnel[t] \in TunnelState /\ tunnel[t].st # "opening" /\ (tunnel[t].st = "open" => released(t))
    BY <1>8 DEF TypeOK
  <2> HIDE DEF released
  <2>2. \/ tunnel[t].st = "open" /\ tunnel'[t] = [tunnel[t] EXCEPT !.st = "closing"]
        \/ tunnel[t].st # "open" /\ tunnel'[t] = tunnel[t]
    BY <1>7, <2>1
  <2>3. QED
    BY <2>1, <2>2 DEF TunnelState
<1>10. tunnel' \in [Tunnel -> TunnelState]
  BY <1>7, <1>9
<1>11. QED
  BY <1>1, <1>2, <1>4, <1>6, <1>9, <1>10

\* An attempt starts when no other runs, or the extension is deactivated then.
LEMMA TeardownKeeps ==
    ASSUME TypeOK, Sequential, \A a \in Attempt : ~Running(a), Teardown, UNCHANGED sock,
           att' \in [Attempt -> AttemptState],
           \A a \in Attempt :
             \/ att'[a] = att[a]
             \/ /\ att[a].pc = "idle" /\ att'[a].pc = "config" /\ att'[a].using = None
                /\ \A b \in Attempt : b < a => att[b].pc # "idle"
                /\ \A b \in Attempt : b # a => att'[b] = att[b]
    PROVE  TypeOK' /\ Sequential'
<1>1. /\ ToClose' = {} /\ sshConnection' = None /\ proxyCommandProcess' = 0 /\ socksTunnel' = 0
      /\ FieldTypeOK'
      /\ conn' \in [Conn -> ConnState]
      /\ \A c \in Conn : /\ conn'[c].client = conn[c].client
                         /\ conn'[c].closing <=> conn[c].closing \/ c \in ToClose
      /\ tunnel' \in [Tunnel -> TunnelState]
      /\ \A t \in Tunnel : /\ tunnel'[t].st \notin {"opening", "open"}
                           /\ (tunnel'[t].st = "none") <=> (tunnel[t].st = "none")
                           /\ tunnel'[t].on = tunnel[t].on /\ tunnel'[t].via = tunnel[t].via
      /\ child' \in [Attempt -> {"none", "running", "killed", "dead"}]
      /\ \A a \in Attempt : child'[a] # "running"
  BY TeardownReleases
<1>2. \A a \in Attempt : \/ att[a].pc = "idle" /\ att'[a].pc \in {"idle", "config"}
                         \/ att[a].pc \in {"done", "failed"} /\ att'[a] = att[a]
  BY DEF Running
<1>3. \A a \in Attempt : att'[a].using = None
  BY <1>2 DEF Sequential, Places
<1>4. OneAtATime'
  <2> SUFFICES ASSUME NEW a \in Attempt, NEW b \in Attempt, b > a,
                      att'[a].pc \in {"idle", "config"}
               PROVE  att'[b].pc = "idle"
    BY <1>2 DEF OneAtATime, Running
  <2>1. att[a].pc = "idle" /\ att[b].pc = "idle"
    BY <1>2 DEF Sequential, OneAtATime
  <2>2. a < b /\ a # b
    BY DEF Attempt
  <2>3. QED
    BY <2>1, <2>2
<1>5. FieldsOfLatest'
  BY <1>1 DEF FieldsOfLatest
<1>6. Untouched'
  <2> SUFFICES ASSUME NEW a \in Attempt, NEW c \in Conn, c[1] = a,
                      att'[a].pc \in {"idle", "config"}
               PROVE  ~conn'[c].closing
    BY <1>2 DEF Untouched, Running
  <2>1. att[a].pc = "idle"
    BY <1>2
  <2>2. ~conn[c].closing /\ c \notin ToClose
    BY <2>1 DEF Sequential, Untouched, FieldsOfLatest, Latest
  <2>3. QED
    BY <1>1, <2>2
<1>7. Places'
  BY <1>1, <1>2, <1>3 DEF Places, Connected
<1>8. Tunneled'
  <2>1. \A t \in Tunnel : att'[t[1]].pc # t[2]
    BY <1>2, TunnelShape
  <2>2. \A t \in Tunnel : tunnel'[t].st # "none" => Wired(t)'
    BY <1>1, TunnelShape DEF Sequential, Tunneled, Wired
  <2>3. QED
    BY <1>1, <2>1, <2>2 DEF Tunneled
<1>9. Released'
  <2>1. \A c \in Conn : Live(c)' => conn'[c].closing
    BY <1>1 DEF Sequential, Released, Live
  <2>2. QED
    BY <1>1, <2>1 DEF Released
<1>10. TypeOK'
  BY <1>1, <1>3 DEF TypeOK
<1>11. QED
  BY <1>4, <1>5, <1>6, <1>7, <1>8, <1>9, <1>10 DEF Sequential

LEMMA StartKeeps ==
    ASSUME TypeOK, Sequential, Overlap = FALSE, NEW a \in Attempt, Start(a)
    PROVE  TypeOK' /\ Sequential'
<1>1. \A b \in Attempt : ~Running(b)
  <2>1. att[a].pc = "idle" /\ \A b \in Attempt : b < a => ~Running(b)
    BY DEF Start
  <2>2. \A b \in Attempt : b > a => att[b].pc = "idle"
    BY <2>1 DEF Sequential, OneAtATime
  <2>3. \A b \in Attempt : b < a \/ b = a \/ b > a
    BY DEF Attempt
  <2>4. QED
    BY <2>1, <2>2, <2>3 DEF Running
<1>2. PICK transport \in Transports, dynamic \in BOOLEAN :
        att' = [att EXCEPT ![a] = [Idle EXCEPT !.pc = "config", !.transport = transport,
                                              !.dynamic = dynamic]]
  BY DEF Start
<1> DEFINE rec == [Idle EXCEPT !.pc = "config", !.transport = transport, !.dynamic = dynamic]
<1>3. rec \in AttemptState /\ rec.pc = "config" /\ rec.using = None
  BY ResolverAssumption DEF ResolverAssumption, Idle, AttemptState, Pc
<1> HIDE DEF rec
<1>4. att' = [att EXCEPT ![a] = rec]
  BY <1>2 DEF rec
<1>5. /\ att' \in [Attempt -> AttemptState]
      /\ att'[a] = rec /\ \A b \in Attempt : b # a => att'[b] = att[b]
  BY <1>3, <1>4 DEF TypeOK
<1>6. QED
  BY <1>1, <1>3, <1>5, TeardownKeeps DEF Start

LEMMA DisposeKeeps ==
    ASSUME TypeOK, Sequential, Overlap = FALSE, Dispose
    PROVE  TypeOK' /\ Sequential'
<1>1. (\A a \in Attempt : ~Running(a)) /\ Teardown /\ UNCHANGED <<att, sock>>
  BY DEF Dispose
<1>2. QED
  BY <1>1, TeardownKeeps DEF TypeOK

------------------------------------------------------------------------------
(* Clients of a returned port. *)

\* An open port leads to the destination of its attempt.
LEMMA LeadsHome ==
    ASSUME TypeOK, Sequential, NEW a \in Attempt, tunnel[<<a, "port">>].st # "none"
    PROVE  Behind(a) = Dest(a)
<1> DEFINE port == <<a, "port">>
           socks == <<a, "socks">>
<1>1. /\ port \in Tunnel /\ port[1] = a /\ port[2] = "port"
      /\ socks \in Tunnel /\ socks[1] = a /\ socks[2] = "socks"
  BY TunnelShape
<1>2. a # 0
  BY DEF Attempt
<1>3. Wired(port) /\ (tunnel[socks].st # "none" => Wired(socks))
  BY <1>1 DEF Sequential, Tunneled
<1>4. CASE tunnel[port].via = 0
  BY <1>1, <1>2, <1>3, <1>4 DEF Wired, Behind
<1>5. CASE tunnel[port].via # 0
  <2>1. tunnel[port].via = a /\ tunnel[socks].st # "none"
    BY <1>1, <1>3, <1>5 DEF Wired
  <2>2. tunnel[socks].on = Dest(a)
    BY <1>1, <1>3, <2>1 DEF Wired
  <2>3. QED
    BY <1>5, <2>1, <2>2 DEF Behind
<1>6. QED
  BY <1>4, <1>5

LEMMA SocketsKeep ==
    ASSUME TypeOK, Sequential,
           \/ \E k \in Clients : Pipe(k) \/ ForwardFails(k) \/ Leave(k)
           \/ \E k \in Clients, a \in Attempt : Accept(k, a)
           \/ UNCHANGED vars
    PROVE  TypeOK' /\ Sequential'
<1>1. UNCHANGED <<fields, att, child, tunnel>>
  BY DEF Pipe, ForwardFails, Leave, Accept, vars
<1>2. UNCHANGED conn /\ sock' \in [Clients -> SockState]
  <2>1. ASSUME NEW k \in Clients, Pipe(k) \/ ForwardFails(k) \/ Leave(k)
        PROVE  UNCHANGED conn /\ sock' \in [Clients -> SockState]
    BY <2>1 DEF Pipe, ForwardFails, Leave, Refused, TypeOK, SockState
  <2>2. ASSUME NEW k \in Clients, NEW a \in Attempt, Accept(k, a)
        PROVE  UNCHANGED conn /\ sock' \in [Clients -> SockState]
    <3> DEFINE port == <<a, "port">>
               served == tunnel[port].via = 0 \/ tunnel[<<tunnel[port].via, "socks">>].st = "open"
    <3>1. tunnel[port].st = "open" /\ Behind(a) = Dest(a)
      BY <2>2, LeadsHome DEF Accept
    <3>2. Dest(a) \in Conn /\ conn[Dest(a)] \in ConnState
      BY ConnShape DEF TypeOK
    <3>3. served => conn[Dest(a)].client # "none"
      <4>1. /\ port \in Tunnel /\ port[1] = a /\ port[2] = "port"
            /\ <<a, "socks">> \in Tunnel /\ <<a, "socks">>[1] = a /\ <<a, "socks">>[2] = "socks"
        BY TunnelShape
      <4>2. Wired(port) /\ (tunnel[<<a, "socks">>].st = "open" => Wired(<<a, "socks">>))
        BY <3>1, <4>1 DEF Sequential, Tunneled
      <4>3. CASE tunnel[port].via = 0
        <5>1. tunnel[port].on = Dest(a)
          BY <4>1, <4>2, <4>3 DEF Wired, Attempt
        <5>2. Dest(a) \in ToClose
          BY <3>1, <3>2, <4>1, <5>1, ConnShape DEF Sequential, Tunneled
        <5>3. QED
          BY <5>2 DEF Sequential, FieldsOfLatest
      <4>4. CASE tunnel[port].via # 0 /\ served
        <5>1. tunnel[<<a, "socks">>].st = "open"
          BY <4>1, <4>2, <4>4 DEF Wired
        <5>2. tunnel[<<a, "socks">>].on = Dest(a)
          BY <4>1, <4>2, <5>1 DEF Wired
        <5>3. Dest(a) \in ToClose
          BY <3>2, <4>1, <5>1, <5>2, ConnShape DEF Sequential, Tunneled
        <5>4. QED
          BY <5>3 DEF Sequential, FieldsOfLatest
      <4>5. QED
        BY <4>3, <4>4
    <3>4. \/ /\ served /\ conn' = [conn EXCEPT ![Dest(a)].client = ClientToUse(Dest(a))]
             /\ sock' = [sock EXCEPT ![k] = [st |-> "waiting", port |-> a]]
          \/ UNCHANGED conn /\ sock' = [sock EXCEPT ![k] = [st |-> "gone", port |-> a]]
      BY <2>2, <3>1 DEF Accept
    <3>5. served => ClientToUse(Dest(a)) = conn[Dest(a)].client
      BY <3>3 DEF ClientToUse
    <3>6. a \in 0..MaxAttempt
      BY ResolverAssumption DEF Attempt, ResolverAssumption
    <3> HIDE DEF served
    <3>7. UNCHANGED conn
      BY <3>2, <3>4, <3>5 DEF TypeOK, ConnState
    <3>8. sock' \in [Clients -> SockState]
      BY <3>4, <3>6 DEF TypeOK, SockState
    <3>9. QED
      BY <3>7, <3>8
  <2>3. CASE UNCHANGED vars
    BY <2>3 DEF vars, TypeOK
  <2>4. QED
    BY <2>1, <2>2, <2>3
<1>3. \A a \in Attempt : Moves(a)
  BY <1>1 DEF Moves
<1>4. Sequential'
  BY <1>1, <1>2, <1>3, SequentialMoves, SameConnections
<1>5. TypeOK'
  BY <1>1, <1>2 DEF TypeOK, FieldTypeOK, fields, Live
<1>6. QED
  BY <1>4, <1>5

------------------------------------------------------------------------------

LEMMA SequentialInv ==
    ASSUME Overlap = FALSE
    PROVE  Spec => [](TypeOK /\ Sequential)
<1>1. Init => TypeOK /\ Sequential
  <2> SUFFICES ASSUME Init PROVE TypeOK /\ Sequential
    OBVIOUS
  <2>1. TypeOK
    BY ResolverAssumption DEF Init, TypeOK, FieldTypeOK, Idle, NoConn, NoTunnel, NoSock, AttemptState,
       ConnState, TunnelState, SockState, Pc, ResolverAssumption
  <2>2. ToClose = {}
    BY DEF Init, ToClose
  <2>3. /\ \A a \in Attempt : att[a].pc = "idle" /\ att[a].using = None
        /\ \A c \in Conn : conn[c].client = "none" /\ conn[c].closing = FALSE
        /\ \A t \in Tunnel : tunnel[t].st = "none"
        /\ \A a \in Attempt : child[a] = "none"
        /\ proxyCommandProcess = 0 /\ socksTunnel = 0
    BY DEF Init, Idle, NoConn, NoTunnel
  <2>4. Sequential
    BY <2>2, <2>3, TunnelShape DEF Sequential, OneAtATime, FieldsOfLatest, Untouched, Places, Tunneled,
       Released, Live, Connected, Running
  <2>5. QED
    BY <2>1, <2>4
<1>2. TypeOK /\ Sequential /\ [Next]_vars => TypeOK' /\ Sequential'
  <2> SUFFICES ASSUME TypeOK, Sequential, [Next]_vars PROVE TypeOK' /\ Sequential'
    OBVIOUS
  <2>1. ASSUME NEW a \in Attempt,
               Start(a) \/ Resolve(a) \/ Errs(a) \/ ListenFails(a) \/ ChildExits(a)
        PROVE  TypeOK' /\ Sequential'
    BY <2>1, StartKeeps, ChainKeeps, ResolveKeeps, ErrsKeeps, TunnelsKeep, LossesKeep DEF Resolve
  <2>2. ASSUME NEW c \in Conn, Ready(c) \/ DialFails(c) \/ Drop(c) \/ FinishClose(c)
        PROVE  TypeOK' /\ Sequential'
    BY <2>2, ReadyKeeps, LossesKeep, FinishCloseKeeps
  <2>3. QED
    BY <2>1, <2>2, DisposeKeeps, ServerClosedKeeps, SocketsKeep DEF Next
<1>3. QED
  BY <1>1, <1>2, PTL DEF Spec

\* Called one attempt at a time, resolve() abandons nothing it allocated, on any
\* transport and whatever fails: the next teardown finds every live connection,
\* ProxyCommand child and listening server in the resolver's fields, or it is
\* being released already (authResolver.ts:354-361).
THEOREM NothingIsAbandoned ==
    ASSUME Overlap = FALSE
    PROVE  Spec => [](TypeOK /\ NothingAbandoned)
<1>1. TypeOK /\ Sequential => NothingAbandoned
  BY DEF Sequential, Released, Tunneled, NothingAbandoned
<1>2. QED
  BY <1>1, SequentialInv, PTL

\* And a port it returned leads to its own destination, through its own SOCKS
\* tunnel when there is one (authResolver.ts:518-522).
THEOREM PortLeadsHome ==
    ASSUME Overlap = FALSE
    PROVE  Spec => []LeadsToOwnHost
<1>1. TypeOK /\ Sequential => LeadsToOwnHost
  BY LeadsHome DEF LeadsToOwnHost
<1>2. QED
  BY <1>1, SequentialInv, PTL

------------------------------------------------------------------------------
(* Attempts that overlap: types, and that every wait can be answered. *)

Early == {"idle", "config", "hop"}
Waiting == {"hop", "connect", "uname", "script", "probe"}

\* The connection in the field was dialled and no teardown has reached it; an
\* attempt waits where it has something to wait for.
DialledField ==
    sshConnection # None => /\ conn[sshConnection].client # "none" /\ ~conn[sshConnection].closing
                            /\ \E a \in Attempt : sshConnection = Dest(a) /\ att[a].pc \notin Early
HopsInField == \A c \in proxyConnections : c[2] <= Hops
WaitsFor ==
    \A a \in Attempt :
        /\ att[a].pc \in Early => ~conn[Dest(a)].closing
        /\ att[a].using # None => att[a].pc \in Waiting
        /\ att[a].pc = "hop" => att[a].using \in Conn /\ att[a].using[1] = a /\ att[a].using[2] <= Hops
        /\ att[a].pc \in {"uname", "fetch", "script"} => att[a].server \in Conn
Dialled == DialledField /\ HopsInField /\ WaitsFor

Children == {"none", "running", "killed", "dead"}

LEMMA DestinationsDiffer == \A a, b \in Attempt : Dest(a) = Dest(b) => a = b
BY ConnShape

\* An attempt stays, waiting for a live connection if for one, or goes on.
Onward(a) ==
    \/ /\ att'[a] = att[a]
       /\ att[a].using # None => conn'[att[a].using].client \in {"dialling", "ready"}
    \/ /\ att'[a].pc \notin Early
       /\ att'[a].using # None => /\ conn'[att'[a].using].client \in {"dialling", "ready"}
                                  /\ att'[a].pc \in Waiting
       /\ att'[a].pc \in {"uname", "fetch", "script"} => att'[a].server \in Conn

\* Attempts go on, connections are lost, closed or dialled again; no field of the
\* connections changes.
LEMMA OnwardKeeps ==
    ASSUME TypeOK, Dialled, \A a \in Attempt : Onward(a),
           FieldTypeOK', att' \in [Attempt -> AttemptState], conn' \in [Conn -> ConnState],
           child' \in [Attempt -> Children], tunnel' \in [Tunnel -> TunnelState],
           sock' \in [Clients -> SockState],
           \A c \in Conn : /\ conn'[c].closing => conn[c].closing
                           /\ conn[c].client # "none" /\ ~conn[c].closing => conn'[c].client # "none",
           UNCHANGED <<sshConnection, proxyConnections>>
    PROVE  TypeOK' /\ Dialled'
<1>1. \A a \in Attempt : Dest(a) \in Conn
  BY ConnShape
<1>2. DialledField'
  BY <1>1 DEF TypeOK, FieldTypeOK, Dialled, DialledField, Onward
<1>3. HopsInField'
  BY DEF Dialled, HopsInField
<1>4. WaitsFor'
  BY <1>1 DEF Dialled, WaitsFor, Onward, Early
<1>5. \A a \in Attempt : att'[a].using # None => conn'[att'[a].using].client \in {"dialling", "ready"}
  BY DEF Onward
<1>6. TypeOK'
  BY <1>5 DEF TypeOK, Live, Children
<1>7. QED
  BY <1>2, <1>3, <1>4, <1>6 DEF Dialled

\* What an attempt waits for is a connection.
LEMMA UsingLive ==
    ASSUME TypeOK, NEW a \in Attempt
    PROVE  att[a] \in AttemptState /\ (att[a].using # None => att[a].using \in Conn /\ Live(att[a].using))
BY DEF TypeOK, AttemptState

\* Those that waited for a lost connection are told.
LEMMA LossOnward ==
    ASSUME TypeOK, Dialled, NEW S \in SUBSET Conn, Lose(S),
           \A c \in Conn : c \notin S => conn'[c] = conn[c] \/ ~Live(c)
    PROVE  att' \in [Attempt -> AttemptState] /\ \A a \in Attempt : Onward(a)
<1>1. ASSUME NEW a \in Attempt PROVE att'[a] \in AttemptState /\ Onward(a)
  <2> DEFINE c == att[a].using
             resumed == [att[a] EXCEPT !.pc = "fetch", !.using = None]
  <2>1. att[a] \in AttemptState /\ (c # None => c \in Conn /\ Live(c))
    BY UsingLive
  <2>2. \/ att'[a] = att[a] /\ c \notin Lost(S)
        \/ c \in Lost(S) /\ att[a].pc = "probe" /\ att'[a] = AfterProbe(a)
        \/ c \in Lost(S) /\ att[a].pc = "uname" /\ att'[a] = resumed
        \/ c \in Lost(S) /\ att'[a] = Fail(a)
    BY <2>1, ConnShape DEF Lose, AttemptsWithout, Lost
  <2>3. CASE att'[a] = att[a] /\ c \notin Lost(S)
    <3>1. c # None => conn'[c] = conn[c] /\ conn[c].client \in {"dialling", "ready"}
      BY <2>1, <2>3 DEF Lost, Live
    <3>2. QED
      BY <2>1, <2>3, <3>1 DEF Onward
  <2>4. CASE c \in Lost(S) /\ att[a].pc = "probe" /\ att'[a] = AfterProbe(a)
    BY <2>4, GoesType DEF AfterProbe, Pc, Onward, Early
  <2>5. CASE c \in Lost(S) /\ att[a].pc = "uname" /\ att'[a] = resumed
    <3>1. resumed \in AttemptState /\ resumed.pc = "fetch" /\ resumed.using = None
          /\ resumed.server = att[a].server
      BY <2>1 DEF AttemptState, Pc
    <3>2. att[a].server \in Conn
      BY <2>5 DEF Dialled, WaitsFor
    <3> HIDE DEF resumed
    <3>3. QED
      BY <2>5, <3>1, <3>2 DEF Onward, Early
  <2>6. CASE c \in Lost(S) /\ att'[a] = Fail(a)
    BY <2>6, GoesType DEF Fail, Pc, Onward, Early
  <2>7. QED
    BY <2>2, <2>3, <2>4, <2>5, <2>6
<1>2. QED
  BY <1>1 DEF Lose, AttemptsWithout

\* The connections of S are lost, those of a close that ends among them.
LossOf(S) ==
    /\ Lose(S) /\ UNCHANGED <<fields, tunnel>>
    /\ child' \in [Attempt -> Children]
    /\ conn' \in [Conn -> ConnState]
    /\ \A c \in Conn : /\ c \notin S => conn'[c] = conn[c] \/ ~Live(c)
                       /\ conn'[c].closing => conn[c].closing
                       /\ conn[c].client # "none" /\ ~conn[c].closing => conn'[c].client # "none"

LEMMA LossesOf ==
    ASSUME TypeOK,
           \/ \E c \in Conn : DialFails(c) \/ Drop(c) \/ FinishClose(c)
           \/ \E a \in Attempt : ChildExits(a)
    PROVE  \E S \in SUBSET Conn : LossOf(S)
<1>1. \A c \in Conn : conn[c] \in ConnState
  BY DEF TypeOK
<1>2. ASSUME NEW S \in SUBSET Conn, conn' = ConnectionsWithout(S), Lose(S),
             UNCHANGED <<fields, tunnel>>, child' \in [Attempt -> Children]
      PROVE  LossOf(S)
  <2>1. /\ conn' \in [Conn -> ConnState]
        /\ \A c \in Conn : conn'[c] =
             IF c \in S /\ Live(c) THEN [conn[c] EXCEPT !.client = "dead"] ELSE conn[c]
    BY <1>2, ConnectionsWithoutType
  <2>2. \A c \in Conn : /\ c \notin S => conn'[c] = conn[c] \/ ~Live(c)
                        /\ conn'[c].closing => conn[c].closing
                        /\ conn[c].client # "none" => conn'[c].client # "none"
    BY <1>1, <2>1 DEF ConnState
  <2>3. QED
    BY <1>2, <2>1, <2>2 DEF LossOf
<1>3. child \in [Attempt -> Children]
  BY DEF TypeOK, Children
<1>4. ASSUME NEW c \in Conn, DialFails(c) PROVE \E S \in SUBSET Conn : LossOf(S)
  <2>1. {c} \in SUBSET Conn
    OBVIOUS
  <2>2. LossOf({c})
    BY <1>2, <1>3, <1>4, <2>1 DEF DialFails
  <2>3. QED
    BY <2>1, <2>2
<1>5. ASSUME NEW c \in Conn, Drop(c) PROVE \E S \in SUBSET Conn : LossOf(S)
  <2> DEFINE S == {c} \cup Riders(c)
  <2>1. S \in SUBSET Conn
    BY DEF Riders
  <2>2. conn' = ConnectionsWithout(S) /\ Lose(S) /\ UNCHANGED <<fields, child, tunnel>>
    BY <1>5 DEF Drop
  <2> HIDE DEF S
  <2>3. LossOf(S)
    BY <1>2, <1>3, <2>1, <2>2
  <2>4. QED
    BY <2>1, <2>3
<1>6. ASSUME NEW a \in Attempt, ChildExits(a) PROVE \E S \in SUBSET Conn : LossOf(S)
  <2> DEFINE S == {Dest(a)}
  <2>1. S \in SUBSET Conn
    BY ConnShape
  <2>2. child' = [child EXCEPT ![a] = "dead"]
    BY <1>6 DEF ChildExits
  <2>3. child' \in [Attempt -> Children]
    BY <1>3, <2>2 DEF Children
  <2>4. conn' = ConnectionsWithout(S) /\ Lose(S) /\ UNCHANGED <<fields, tunnel>>
    BY <1>6 DEF ChildExits
  <2> HIDE DEF S
  <2>5. LossOf(S)
    BY <1>2, <2>1, <2>3, <2>4
  <2>6. QED
    BY <2>1, <2>5
<1>7. ASSUME NEW c \in Conn, FinishClose(c) PROVE \E S \in SUBSET Conn : LossOf(S)
  <2> DEFINE S == Riders(c) \cup {c}
             base == ConnectionsWithout(Riders(c))
  <2>1. Riders(c) \in SUBSET Conn /\ S \in SUBSET Conn
    BY DEF Riders
  <2>2. /\ base \in [Conn -> ConnState]
        /\ \A d \in Conn : base[d] =
             IF d \in Riders(c) /\ Live(d) THEN [conn[d] EXCEPT !.client = "dead"] ELSE conn[d]
    BY <2>1, ConnectionsWithoutType
  <2>3. /\ conn[c].closing /\ Lose(S) /\ UNCHANGED <<fields, child, tunnel>>
        /\ conn' = [base EXCEPT ![c] = NoConn]
    BY <1>7 DEF FinishClose
  <2>4. NoConn \in ConnState /\ NoConn.closing = FALSE
    BY DEF NoConn, ConnState
  <2>5. S = Riders(c) \cup {c}
    OBVIOUS
  <2> HIDE DEF S, base
  <2>6. conn' \in [Conn -> ConnState] /\ conn'[c] = NoConn /\ \A d \in Conn : d # c => conn'[d] = base[d]
    BY <2>2, <2>3, <2>4
  <2>7. \A d \in Conn : /\ d \notin S => conn'[d] = conn[d] \/ ~Live(d)
                        /\ conn'[d].closing => conn[d].closing
                        /\ conn[d].client # "none" /\ ~conn[d].closing => conn'[d].client # "none"
    BY <1>1, <2>2, <2>3, <2>4, <2>5, <2>6 DEF ConnState
  <2>8. LossOf(S)
    BY <1>3, <2>3, <2>6, <2>7 DEF LossOf
  <2>9. QED
    BY <2>1, <2>8
<1>8. QED
  BY <1>4, <1>5, <1>6, <1>7

LEMMA OverlapLosses ==
    ASSUME TypeOK, Dialled, NEW S \in SUBSET Conn, LossOf(S)
    PROVE  TypeOK' /\ Dialled'
<1>1. att' \in [Attempt -> AttemptState] /\ \A a \in Attempt : Onward(a)
  BY LossOnward DEF LossOf
<1>2. sock' \in [Clients -> SockState]
  BY SocketsType DEF LossOf, Lose
<1>3. FieldTypeOK' /\ tunnel' \in [Tunnel -> TunnelState] /\ UNCHANGED <<sshConnection, proxyConnections>>
  BY DEF LossOf, TypeOK, FieldTypeOK, fields
<1>4. QED
  BY <1>1, <1>2, <1>3, OnwardKeeps DEF LossOf

\* One attempt goes on, with or without a connection to wait for, and what it does to
\* its connection and its tunnels loses nobody's.
LEMMA OneOnward ==
    ASSUME TypeOK, Dialled, NEW a \in Attempt, NEW rec \in AttemptState,
           att' = [att EXCEPT ![a] = rec], rec.pc \notin Early,
           rec.using # None => rec.pc \in Waiting /\ conn'[rec.using].client \in {"dialling", "ready"},
           rec.pc \in {"uname", "fetch", "script"} => rec.server \in Conn,
           FieldTypeOK', conn' \in [Conn -> ConnState], tunnel' \in [Tunnel -> TunnelState],
           \A c \in Conn : /\ conn'[c].closing = conn[c].closing
                           /\ Live(c) => conn'[c].client \in {"dialling", "ready"}
                           /\ conn[c].client # "none" => conn'[c].client # "none",
           UNCHANGED <<sshConnection, proxyConnections, child, sock>>
    PROVE  TypeOK' /\ Dialled'
<1>1. att'[a] = rec /\ \A b \in Attempt : b # a => att'[b] = att[b]
  BY DEF TypeOK
<1>2. \A b \in Attempt : att[b].using # None => conn'[att[b].using].client \in {"dialling", "ready"}
  BY UsingLive
<1>3. \A b \in Attempt : Onward(b)
  BY <1>1, <1>2 DEF Onward
<1>4. /\ att' \in [Attempt -> AttemptState] /\ child' \in [Attempt -> Children]
      /\ sock' \in [Clients -> SockState]
  BY DEF TypeOK, Children
<1>5. QED
  BY <1>3, <1>4, OnwardKeeps

\* The connection in the field, for whoever reads it.
LEMMA FieldConnection ==
    ASSUME TypeOK, Dialled, sshConnection # None
    PROVE  /\ sshConnection \in Conn /\ conn[sshConnection] \in ConnState
           /\ conn[sshConnection].client # "dead" => conn[sshConnection].client \in {"dialling", "ready"}
BY DEF TypeOK, FieldTypeOK, Dialled, DialledField, ConnState

LEMMA SameLives ==
    ASSUME TypeOK, UNCHANGED conn
    PROVE  /\ conn' \in [Conn -> ConnState]
           /\ \A c \in Conn : /\ conn'[c].closing = conn[c].closing
                              /\ Live(c) => conn'[c].client \in {"dialling", "ready"}
                              /\ conn[c].client # "none" => conn'[c].client # "none"
BY DEF TypeOK, Live

LEMMA OverlapResolve ==
    ASSUME TypeOK, Dialled, NEW a \in Attempt,
           Uname(a) \/ RunScript(a) \/ ScriptDone(a) \/ Probed(a)
    PROVE  TypeOK' /\ Dialled'
<1>1. /\ att[a] \in AttemptState /\ Fail(a) \in AttemptState /\ AfterProbe(a) \in AttemptState
      /\ Fail(a).pc = "failed" /\ Fail(a).using = None
      /\ AfterProbe(a).pc \in {"socksport", "findport"} /\ AfterProbe(a).using = None
  BY GoesType DEF TypeOK, Fail, AfterProbe, Pc
<1>2. FieldTypeOK /\ tunnel \in [Tunnel -> TunnelState]
  BY DEF TypeOK
<1>3. ASSUME UNCHANGED <<fields, tunnel>>
      PROVE  FieldTypeOK' /\ tunnel' \in [Tunnel -> TunnelState] /\ UNCHANGED <<sshConnection, proxyConnections>>
  BY <1>2, <1>3 DEF FieldTypeOK, fields
<1>4. \A r \in {Fail(a), AfterProbe(a)} :
        r \in AttemptState /\ r.using = None /\ r.pc \notin Early /\ r.pc \notin {"uname", "fetch", "script"}
  BY <1>1 DEF Early
<1>5. CASE Uname(a)
  <2> DEFINE rec == [att[a] EXCEPT !.pc = "fetch", !.using = None]
  <2>1. att' = [att EXCEPT ![a] = rec] /\ UNCHANGED <<fields, conn, child, tunnel, sock>>
    BY <1>1, <1>5 DEF Uname, TypeOK, AttemptState
  <2>2. rec \in AttemptState /\ rec.pc = "fetch" /\ rec.using = None /\ rec.server = att[a].server
    BY <1>1 DEF AttemptState, Pc
  <2>3. att[a].server \in Conn /\ "fetch" \notin Early
    BY <1>5 DEF Uname, Dialled, WaitsFor, Early
  <2> HIDE DEF rec
  <2>4. QED
    BY <1>3, <2>1, <2>2, <2>3, OneOnward, SameLives
<1>6. CASE RunScript(a)
  <2> DEFINE c == att[a].server
             run == [att[a] EXCEPT !.pc = "script", !.using = c]
  <2>1. c \in Conn /\ c # None /\ conn[c] \in ConnState
    BY <1>6, ConnShape DEF RunScript, Dialled, WaitsFor, TypeOK
  <2>2. /\ att' = [att EXCEPT ![a] = IF ClientToUse(c) = "dead" THEN Fail(a) ELSE run]
        /\ conn' = [conn EXCEPT ![c].client = ClientToUse(c)]
        /\ UNCHANGED <<fields, child, tunnel, sock>>
    BY <1>6 DEF RunScript
  <2>3. run \in AttemptState /\ run.pc = "script" /\ run.using = c /\ run.server = c
    BY <1>1, <2>1 DEF AttemptState, Pc
  <2>4. /\ ClientToUse(c) \in {"dialling", "ready", "dead"}
        /\ conn[c].client # "none" => ClientToUse(c) = conn[c].client
    BY <2>1 DEF ClientToUse, ConnState
  <2> HIDE DEF c, run
  <2>5. /\ conn' \in [Conn -> ConnState] /\ conn'[c].client = ClientToUse(c)
        /\ \A d \in Conn : /\ conn'[d].closing = conn[d].closing
                           /\ Live(d) => conn'[d].client \in {"dialling", "ready"}
                           /\ conn[d].client # "none" => conn'[d].client # "none"
    BY <2>1, <2>2, <2>4 DEF TypeOK, ConnState, Live
  <2>6. CASE ClientToUse(c) = "dead"
    <3>1. att' = [att EXCEPT ![a] = Fail(a)]
      BY <2>2, <2>6
    <3>2. QED
      BY <1>3, <1>4, <2>2, <2>5, <3>1, OneOnward
  <2>7. CASE ClientToUse(c) # "dead"
    <3>1. att' = [att EXCEPT ![a] = run] /\ conn'[run.using].client \in {"dialling", "ready"}
      BY <2>2, <2>3, <2>4, <2>5, <2>7
    <3>2. run.pc \notin Early /\ run.pc \in Waiting /\ run.server \in Conn
      BY <2>1, <2>3 DEF Early, Waiting
    <3>3. QED
      BY <1>3, <2>2, <2>3, <2>5, <3>1, <3>2, OneOnward
  <2>8. QED
    BY <2>6, <2>7
<1>7. CASE ScriptDone(a)
  <2> DEFINE probe == [att[a] EXCEPT !.pc = "probe", !.using = sshConnection]
  <2>1. UNCHANGED <<fields, conn, child, tunnel, sock>>
    BY <1>7 DEF ScriptDone
  <2>2. CASE sshConnection = None \/ conn[sshConnection].client = "dead"
    <3>1. att' = [att EXCEPT ![a] = AfterProbe(a)]
      BY <1>7, <2>2 DEF ScriptDone
    <3>2. QED
      BY <1>3, <1>4, <2>1, <3>1, OneOnward, SameLives
  <2>3. CASE ~(sshConnection = None \/ conn[sshConnection].client = "dead")
    <3>1. sshConnection \in Conn /\ conn[sshConnection].client \in {"dialling", "ready"}
      BY <2>3, FieldConnection
    <3>2. probe \in AttemptState /\ probe.pc = "probe" /\ probe.using = sshConnection
      BY <1>1, <3>1 DEF AttemptState, Pc
    <3>3. att' = [att EXCEPT ![a] = probe]
      BY <1>1, <1>7, <2>3 DEF ScriptDone, TypeOK, AttemptState
    <3> HIDE DEF probe
    <3>4. probe.pc \notin Early /\ probe.pc \in Waiting /\ probe.pc \notin {"uname", "fetch", "script"}
          /\ conn'[probe.using].client \in {"dialling", "ready"}
      BY <2>1, <3>1, <3>2 DEF Early, Waiting
    <3>5. QED
      BY <1>3, <2>1, <3>2, <3>3, <3>4, OneOnward, SameLives
  <2>4. QED
    BY <2>2, <2>3
<1>8. CASE Probed(a)
  BY <1>3, <1>4, <1>8, OneOnward, SameLives DEF Probed
<1>9. QED
  BY <1>5, <1>6, <1>7, <1>8

LEMMA OverlapErrs ==
    ASSUME TypeOK, Dialled, NEW a \in Attempt, Errs(a)
    PROVE  TypeOK' /\ Dialled'
<1>1. att' = [att EXCEPT ![a] = Fail(a)] /\ UNCHANGED <<fields, conn, child, tunnel, sock>>
  BY DEF Errs, HopRefused, FetchFails, ScriptFails
<1>2. Fail(a) \in AttemptState /\ Fail(a).pc = "failed" /\ Fail(a).using = None
  BY GoesType DEF TypeOK, Fail, Pc
<1>3. FieldTypeOK' /\ tunnel' \in [Tunnel -> TunnelState] /\ UNCHANGED <<sshConnection, proxyConnections>>
  BY <1>1 DEF TypeOK, FieldTypeOK, fields
<1>4. QED
  BY <1>1, <1>2, <1>3, OneOnward, SameLives DEF Early

\* The tunnels of an attempt open, or fail to.
LEMMA OverlapTunnels ==
    ASSUME TypeOK, Dialled, NEW a \in Attempt,
           \/ OpenSocks(a) \/ SocksListening(a) \/ OpenForward(a) \/ OpenDirect(a)
           \/ PortListening(a) \/ ListenFails(a)
    PROVE  TypeOK' /\ Dialled'
<1>1. att[a] \in AttemptState /\ FieldTypeOK /\ tunnel \in [Tunnel -> TunnelState]
      /\ UNCHANGED <<sshConnection, proxyConnections, conn, child, sock>>
  BY DEF TypeOK, OpenSocks, SocksListening, OpenForward, OpenDirect, PortListening, ListenFails, fields
<1>2. FieldTypeOK'
  <2>1. a \in 0..MaxAttempt
    BY ResolverAssumption DEF Attempt, ResolverAssumption
  <2>2. UNCHANGED fields \/ (socksTunnel' = a /\ UNCHANGED <<proxyCommandProcess, tunnels>>)
        \/ (tunnels' = tunnels \cup {a} /\ UNCHANGED <<proxyCommandProcess, socksTunnel>>)
    BY DEF OpenSocks, SocksListening, OpenForward, OpenDirect, PortListening, ListenFails
  <2>3. QED
    BY <1>1, <2>1, <2>2 DEF FieldTypeOK, fields
<1>3. tunnel' \in [Tunnel -> TunnelState]
  <2>1. \A kind \in {"socks", "port"} : <<a, kind>> \in Tunnel
    BY TunnelShape
  <2>2. \/ UNCHANGED tunnel
        \/ \E t \in Tunnel, s \in {"open", "closed"} : tunnel' = [tunnel EXCEPT ![t].st = s]
        \/ \E t \in Tunnel : tunnel' = [tunnel EXCEPT ![t] = [st |-> "opening", on |-> sshConnection, via |-> 0]]
        \/ \E t \in Tunnel : tunnel' = [tunnel EXCEPT ![t] = [st |-> "opening", on |-> None, via |-> socksTunnel]]
    BY <2>1 DEF OpenSocks, SocksListening, OpenForward, OpenDirect, PortListening, ListenFails, Listen
  <2>3. /\ [st |-> "opening", on |-> sshConnection, via |-> 0] \in TunnelState
        /\ [st |-> "opening", on |-> None, via |-> socksTunnel] \in TunnelState
    BY <1>1, ResolverAssumption DEF FieldTypeOK, TunnelState, ResolverAssumption
  <2>4. ASSUME NEW t \in Tunnel, NEW s \in {"open", "closed"}, tunnel' = [tunnel EXCEPT ![t].st = s]
        PROVE  tunnel' \in [Tunnel -> TunnelState]
    BY <1>1, <2>4 DEF TunnelState
  <2>5. QED
    BY <1>1, <2>2, <2>3, <2>4
<1>4. ASSUME NEW pc \in Pc, att' = [att EXCEPT ![a].pc = pc], att[a].using = None,
             pc \notin Early, pc \notin {"uname", "fetch", "script"}
      PROVE  TypeOK' /\ Dialled'
  <2> DEFINE rec == [att[a] EXCEPT !.pc = pc]
  <2>1. rec \in AttemptState /\ rec.pc = pc /\ rec.using = None
    BY <1>1, <1>4 DEF AttemptState
  <2>2. att' = [att EXCEPT ![a] = rec]
    BY <1>4 DEF TypeOK
  <2> HIDE DEF rec
  <2>3. QED
    BY <1>1, <1>2, <1>3, <1>4, <2>1, <2>2, OneOnward, SameLives
<1>5. ASSUME att' = [att EXCEPT ![a] = Fail(a)] PROVE TypeOK' /\ Dialled'
  <2>1. Fail(a) \in AttemptState /\ Fail(a).pc = "failed" /\ Fail(a).using = None
    BY GoesType DEF Fail, Pc
  <2>2. "failed" \notin Early
    BY DEF Early
  <2>3. QED
    BY <1>1, <1>2, <1>3, <1>5, <2>1, <2>2, OneOnward, SameLives
<1>6. \/ att' = [att EXCEPT ![a] = Fail(a)]
      \/ \E pc \in {"socks", "findport", "port", "done"} : att' = [att EXCEPT ![a].pc = pc]
  BY DEF OpenSocks, SocksListening, OpenForward, OpenDirect, PortListening, ListenFails
<1>7. att[a].using = None
  BY DEF Dialled, WaitsFor, Waiting, OpenSocks, SocksListening, OpenForward, OpenDirect,
         PortListening, ListenFails
<1>8. \A pc \in {"socks", "findport", "port", "done"} :
        pc \in Pc /\ pc \notin Early /\ pc \notin {"uname", "fetch", "script"}
  BY DEF Pc, Early
<1>9. QED
  BY <1>4, <1>5, <1>6, <1>7, <1>8

\* A client is ready: whoever waited for it goes on with the connection in the field.
LEMMA OverlapReady ==
    ASSUME TypeOK, Dialled, NEW c \in Conn, Ready(c)
    PROVE  TypeOK' /\ Dialled'
<1>1. /\ conn[c].client = "dialling" /\ conn' = [conn EXCEPT ![c].client = "ready"]
      /\ UNCHANGED <<fields, child, tunnel, sock>>
  BY DEF Ready
<1>2. /\ conn' \in [Conn -> ConnState]
      /\ \A d \in Conn : /\ conn'[d].closing = conn[d].closing
                         /\ Live(d) => conn'[d].client \in {"dialling", "ready"}
                         /\ conn[d].client # "none" => conn'[d].client # "none"
  BY <1>1 DEF TypeOK, ConnState, Live
<1>3. ASSUME NEW a \in Attempt PROVE att'[a] \in AttemptState /\ Onward(a)
  <2> DEFINE on == [att[a] EXCEPT !.pc = "uname", !.using = sshConnection, !.server = sshConnection]
  <2>1. att[a] \in AttemptState
        /\ (att[a].using # None => conn'[att[a].using].client \in {"dialling", "ready"})
    BY <1>2, UsingLive
  <2>2. \/ att'[a] = att[a]
        \/ att'[a] = Fail(a)
        \/ /\ att'[a] = on /\ sshConnection # None /\ conn[sshConnection].client # "dead"
    BY DEF Ready
  <2>3. CASE att'[a] = att[a]
    BY <2>1, <2>3 DEF Onward
  <2>4. CASE att'[a] = Fail(a)
    BY <2>4, GoesType DEF Fail, Pc, Onward, Early
  <2>5. CASE att'[a] = on /\ sshConnection # None /\ conn[sshConnection].client # "dead"
    <3>1. sshConnection \in Conn /\ conn'[sshConnection].client \in {"dialling", "ready"}
      BY <1>2, <2>5, FieldConnection DEF Live
    <3>2. /\ on \in AttemptState /\ on.pc = "uname" /\ on.using = sshConnection
          /\ on.server = sshConnection
      BY <2>1, <3>1 DEF AttemptState, Pc
    <3> HIDE DEF on
    <3>3. QED
      BY <2>5, <3>1, <3>2 DEF Onward, Early, Waiting
  <2>6. QED
    BY <2>2, <2>3, <2>4, <2>5
<1>4. att' \in [Attempt -> AttemptState]
  BY <1>3 DEF Ready
<1>5. /\ FieldTypeOK' /\ tunnel' \in [Tunnel -> TunnelState] /\ sock' \in [Clients -> SockState]
      /\ child' \in [Attempt -> Children] /\ UNCHANGED <<sshConnection, proxyConnections>>
  BY <1>1 DEF TypeOK, FieldTypeOK, fields, Children
<1>6. QED
  BY <1>2, <1>3, <1>4, <1>5, OnwardKeeps

\* A link is dialled, whatever another attempt has done to the fields.
LEMMA OverlapDial ==
    ASSUME TypeOK, Dialled, NEW a \in Attempt, NEW i \in 1..(Hops + 1),
           att[a].pc \in {"config", "hop"}, Dial(a, i),
           proxyCommandProcess' \in {proxyCommandProcess, a},
           child' = child \/ child' = [child EXCEPT ![a] = "running"],
           UNCHANGED <<socksTunnel, tunnels, tunnel, sock>>
    PROVE  TypeOK' /\ Dialled'
<1> DEFINE c == <<a, i>>
           pc == IF i <= Hops THEN "hop" ELSE "connect"
           rec == [att[a] EXCEPT !.pc = pc, !.using = c]
<1>1. c \in Conn /\ c[1] = a /\ c[2] = i /\ c # None /\ Dest(a) \in Conn /\ Dest(a)[2] = Hops + 1
      /\ (~(i <= Hops) => c = Dest(a))
  <2>1. ~(i <= Hops) => i = Hops + 1
    BY ResolverAssumption DEF ResolverAssumption
  <2>2. c \in Conn
    BY DEF Conn
  <2>3. QED
    BY <2>1, <2>2, ConnShape DEF Dest
<1>2. /\ conn' = [conn EXCEPT ![c].client = "dialling"]
      /\ att' = [att EXCEPT ![a] = rec]
      /\ IF i <= Hops THEN proxyConnections' = proxyConnections \cup {c} /\ UNCHANGED sshConnection
                      ELSE sshConnection' = c /\ UNCHANGED proxyConnections
  BY DEF Dial, TypeOK, AttemptState
<1>3. pc \in {"hop", "connect"} /\ (pc = "hop" <=> i <= Hops) /\ pc \in Pc /\ att[a] \in AttemptState
  BY DEF TypeOK, Pc
<1> HIDE DEF c, pc
<1>4. rec \in AttemptState /\ rec.using = c /\ rec.pc = pc
  BY <1>1, <1>3 DEF AttemptState
<1> HIDE DEF rec
<1>5. att'[a] = rec /\ \A b \in Attempt : b # a => att'[b] = att[b]
  BY <1>2 DEF TypeOK
<1>6. /\ conn' \in [Conn -> ConnState]
      /\ conn'[c].client = "dialling"
      /\ \A d \in Conn : d # c => conn'[d] = conn[d]
      /\ \A d \in Conn : conn'[d].closing = conn[d].closing
      /\ \A d \in Conn : conn[d].client # "none" => conn'[d].client # "none"
  BY <1>1, <1>2 DEF TypeOK, ConnState
<1>7. att[a].pc \in Early /\ ~conn[Dest(a)].closing
  BY DEF Early, Dialled, WaitsFor
<1>8. DialledField'
  <2>1. CASE i <= Hops
    <3> SUFFICES ASSUME sshConnection # None
                 PROVE  /\ conn'[sshConnection].client # "none" /\ ~conn'[sshConnection].closing
                        /\ \E b \in Attempt : sshConnection = Dest(b) /\ att'[b].pc \notin Early
      BY <1>2, <2>1 DEF DialledField
    <3>1. sshConnection \in Conn
      BY FieldConnection
    <3>2. PICK b \in Attempt : sshConnection = Dest(b) /\ att[b].pc \notin Early
      BY DEF Dialled, DialledField
    <3>3. att'[b].pc \notin Early
      BY <1>5, <1>7, <3>2
    <3>4. QED
      BY <1>6, <3>1, <3>2, <3>3 DEF Dialled, DialledField
  <2>2. CASE ~(i <= Hops)
    BY <1>1, <1>2, <1>3, <1>4, <1>5, <1>6, <1>7, <2>2 DEF DialledField, Early
  <2>3. QED
    BY <2>1, <2>2
<1>9. HopsInField'
  BY <1>1, <1>2 DEF Dialled, HopsInField
<1>10. WaitsFor'
  <2>1. \A b \in Attempt : Dest(b) \in Conn
    BY ConnShape
  <2>2. ASSUME NEW b \in Attempt, b # a
        PROVE  /\ att'[b].pc \in Early => ~conn'[Dest(b)].closing
               /\ att'[b].using # None => att'[b].pc \in Waiting
               /\ att'[b].pc = "hop" => /\ att'[b].using \in Conn /\ att'[b].using[1] = b
                                        /\ att'[b].using[2] <= Hops
               /\ att'[b].pc \in {"uname", "fetch", "script"} => att'[b].server \in Conn
    BY <1>5, <1>6, <2>1, <2>2 DEF Dialled, WaitsFor
  <2>3. /\ att'[a].pc \in Early => ~conn'[Dest(a)].closing
        /\ att'[a].pc \in Waiting /\ att'[a].pc \notin {"uname", "fetch", "script"}
        /\ att'[a].pc = "hop" => att'[a].using \in Conn /\ att'[a].using[1] = a /\ att'[a].using[2] <= Hops
    BY <1>1, <1>3, <1>4, <1>5, <1>6, <1>7 DEF Waiting
  <2>4. QED
    BY <2>2, <2>3 DEF WaitsFor
<1>11. TypeOK'
  <2>1. a \in 0..MaxAttempt
    BY ResolverAssumption DEF Attempt, ResolverAssumption
  <2>2. FieldTypeOK'
    BY <1>1, <1>2, <2>1 DEF TypeOK, FieldTypeOK
  <2>3. att' \in [Attempt -> AttemptState] /\ child' \in [Attempt -> {"none", "running", "killed", "dead"}]
    BY <1>2, <1>4 DEF TypeOK
  <2>4. \A b \in Attempt : att'[b].using # None => conn'[att'[b].using].client \in {"dialling", "ready"}
    BY <1>4, <1>5, <1>6, UsingLive DEF Live
  <2>5. QED
    BY <1>6, <2>2, <2>3, <2>4 DEF TypeOK, Live
<1>12. QED
  BY <1>8, <1>9, <1>10, <1>11 DEF Dialled

LEMMA OverlapChain ==
    ASSUME TypeOK, Dialled, NEW a \in Attempt, Configured(a) \/ HopForwarded(a)
    PROVE  TypeOK' /\ Dialled'
<1>1. CASE Configured(a)
  <2> DEFINE i == IF att[a].transport = "jump" THEN 1 ELSE Hops + 1
  <2>1. i \in 1..(Hops + 1)
    BY ResolverAssumption DEF ResolverAssumption
  <2>2. /\ att[a].pc = "config" /\ Dial(a, i) /\ UNCHANGED <<socksTunnel, tunnels, tunnel, sock>>
        /\ proxyCommandProcess' \in {proxyCommandProcess, a}
        /\ child' = child \/ child' = [child EXCEPT ![a] = "running"]
    BY <1>1 DEF Configured
  <2> HIDE DEF i
  <2>3. QED
    BY <2>1, <2>2, OverlapDial
<1>2. CASE HopForwarded(a)
  <2> DEFINE i == att[a].using[2] + 1
  <2>1. att[a].pc = "hop" /\ att[a].using \in Conn /\ att[a].using[2] <= Hops
    BY <1>2 DEF HopForwarded, Dialled, WaitsFor
  <2>2. i \in 1..(Hops + 1)
    BY <2>1, ConnShape, ResolverAssumption DEF ResolverAssumption
  <2>3. /\ Dial(a, i) /\ UNCHANGED <<socksTunnel, tunnels, tunnel, sock>>
        /\ proxyCommandProcess' = proxyCommandProcess /\ child' = child
    BY <1>2 DEF HopForwarded
  <2> HIDE DEF i
  <2>4. QED
    BY <2>1, <2>2, <2>3, OverlapDial
<1>3. QED
  BY <1>1, <1>2

\* A teardown reaches the connections of the fields and none that is still to be dialled.
LEMMA OverlapTeardown ==
    ASSUME TypeOK, Dialled, Teardown, UNCHANGED sock,
           att' \in [Attempt -> AttemptState],
           \A a \in Attempt :
             \/ att'[a] = att[a]
             \/ att[a].pc = "idle" /\ att'[a].pc = "config" /\ att'[a].using = None
    PROVE  TypeOK' /\ Dialled'
<1>1. sshConnection' = None /\ proxyConnections' = {} /\ FieldTypeOK'
  BY ResolverAssumption DEF Teardown, FieldTypeOK, ResolverAssumption
<1>2. conn' = [c \in Conn |-> IF c \in ToClose THEN [conn[c] EXCEPT !.closing = TRUE] ELSE conn[c]]
  BY DEF Teardown
<1>3. /\ conn' \in [Conn -> ConnState]
      /\ \A c \in Conn : /\ conn'[c].client = conn[c].client
                         /\ conn'[c].closing <=> conn[c].closing \/ c \in ToClose
  BY <1>2 DEF TypeOK, ConnState
<1>4. child' \in [Attempt -> {"none", "running", "killed", "dead"}]
  BY DEF Teardown, TypeOK
<1>5. tunnel' \in [Tunnel -> TunnelState]
  <2>1. ASSUME NEW t \in Tunnel
        PROVE  tunnel[t] \in TunnelState /\ [tunnel[t] EXCEPT !.st = "closing"] \in TunnelState
    BY DEF TypeOK, TunnelState
  <2>2. QED
    BY <2>1 DEF Teardown
<1>6. ASSUME NEW a \in Attempt, att[a].pc \in Early PROVE Dest(a) \notin ToClose
  <2>1. Dest(a) \in Conn /\ Dest(a)[2] = Hops + 1
    BY ConnShape
  <2>2. Dest(a) \notin proxyConnections
    BY <2>1, ResolverAssumption DEF Dialled, HopsInField, ResolverAssumption
  <2>3. sshConnection # Dest(a)
    BY <1>6, <2>1, ConnShape, DestinationsDiffer DEF Dialled, DialledField
  <2>4. QED
    BY <2>2, <2>3 DEF ToClose
<1>7. \A a \in Attempt : Dest(a) \in Conn
  BY ConnShape
<1>8. \A a \in Attempt : att'[a].pc \in Early => att[a].pc \in Early
  BY DEF Early
<1>9. WaitsFor'
  <2>1. \A a \in Attempt : att'[a].pc \in Early => ~conn'[Dest(a)].closing
    BY <1>3, <1>6, <1>7, <1>8 DEF Dialled, WaitsFor
  <2>2. QED
    BY <2>1 DEF Dialled, WaitsFor
<1>10. DialledField' /\ HopsInField'
  BY <1>1 DEF DialledField, HopsInField
<1>11. \A a \in Attempt : att'[a].using # None => conn'[att'[a].using].client \in {"dialling", "ready"}
  BY <1>3, UsingLive DEF Live
<1>12. TypeOK'
  BY <1>1, <1>3, <1>4, <1>5, <1>11 DEF TypeOK, Live
<1>13. QED
  BY <1>9, <1>10, <1>12 DEF Dialled

\* Clients come, are forwarded and go; a server closes.
LEMMA OverlapSockets ==
    ASSUME TypeOK, Dialled,
           \/ \E t \in Tunnel : ServerClosed(t)
           \/ \E k \in Clients : Pipe(k) \/ ForwardFails(k) \/ Leave(k)
           \/ \E k \in Clients, a \in Attempt : Accept(k, a)
           \/ UNCHANGED vars
    PROVE  TypeOK' /\ Dialled'
<1>1. UNCHANGED <<fields, att, child>>
  BY DEF ServerClosed, Pipe, ForwardFails, Leave, Accept, vars
<1>2. /\ FieldTypeOK' /\ att' \in [Attempt -> AttemptState] /\ child' \in [Attempt -> Children]
      /\ UNCHANGED <<sshConnection, proxyConnections>>
  BY <1>1 DEF TypeOK, FieldTypeOK, fields, Children
<1>3. tunnel' \in [Tunnel -> TunnelState]
  <2>1. ASSUME NEW t \in Tunnel
        PROVE  tunnel[t] \in TunnelState /\ [tunnel EXCEPT ![t].st = "closed"] \in [Tunnel -> TunnelState]
    BY DEF TypeOK, TunnelState
  <2>2. UNCHANGED tunnel \/ \E t \in Tunnel : tunnel' = [tunnel EXCEPT ![t].st = "closed"]
    BY DEF ServerClosed, Pipe, ForwardFails, Leave, Accept, vars
  <2>3. QED
    BY <2>1, <2>2 DEF TypeOK
<1>4. sock' \in [Clients -> SockState]
  <2>1. ASSUME NEW k \in Clients, Pipe(k) \/ ForwardFails(k) \/ Leave(k)
        PROVE  sock' \in [Clients -> SockState]
    BY <2>1 DEF Pipe, ForwardFails, Leave, Refused, TypeOK, SockState
  <2>2. ASSUME NEW k \in Clients, NEW a \in Attempt, Accept(k, a)
        PROVE  sock' \in [Clients -> SockState]
    <3>1. a \in 0..MaxAttempt
      BY ResolverAssumption DEF Attempt, ResolverAssumption
    <3>2. \E st \in {"waiting", "gone"} : sock' = [sock EXCEPT ![k] = [st |-> st, port |-> a]]
      BY <2>2 DEF Accept
    <3>3. QED
      BY <3>1, <3>2 DEF TypeOK, SockState
  <2>3. CASE (\E t \in Tunnel : ServerClosed(t)) \/ UNCHANGED vars
    BY <2>3 DEF ServerClosed, vars, TypeOK
  <2>4. QED
    BY <2>1, <2>2, <2>3
<1>5. /\ conn' \in [Conn -> ConnState]
      /\ \A c \in Conn : /\ conn'[c].closing = conn[c].closing
                         /\ Live(c) => conn'[c].client \in {"dialling", "ready"}
                         /\ conn[c].client # "none" => conn'[c].client # "none"
  <2>1. CASE UNCHANGED conn
    BY <2>1, SameLives
  <2>2. ASSUME NEW c, ClientToUse(c) # "dead", conn' = [conn EXCEPT ![c].client = ClientToUse(c)]
        PROVE  /\ conn' \in [Conn -> ConnState]
               /\ \A d \in Conn : /\ conn'[d].closing = conn[d].closing
                                  /\ Live(d) => conn'[d].client \in {"dialling", "ready"}
                                  /\ conn[d].client # "none" => conn'[d].client # "none"
    <3>1. CASE c \in Conn
      <4>1. /\ ClientToUse(c) \in {"dialling", "ready"}
            /\ conn[c].client # "none" => ClientToUse(c) = conn[c].client
        BY <2>2, <3>1 DEF ClientToUse, TypeOK, ConnState
      <4>2. QED
        BY <2>2, <3>1, <4>1 DEF TypeOK, ConnState, Live
    <3>2. CASE c \notin Conn
      BY <2>2, <3>2, SameLives DEF TypeOK
    <3>3. QED
      BY <3>1, <3>2
  <2>3. UNCHANGED conn \/ \E c : ClientToUse(c) # "dead" /\ conn' = [conn EXCEPT ![c].client = ClientToUse(c)]
    BY DEF ServerClosed, Pipe, ForwardFails, Leave, Accept, vars
  <2>4. QED
    BY <2>1, <2>2, <2>3
<1>6. \A a \in Attempt : Onward(a)
  BY <1>1, <1>5, UsingLive DEF Onward
<1>7. QED
  BY <1>2, <1>3, <1>4, <1>5, <1>6, OnwardKeeps

LEMMA OverlapStart ==
    ASSUME TypeOK, Dialled, NEW a \in Attempt, Start(a)
    PROVE  TypeOK' /\ Dialled'
<1>1. PICK transport \in Transports, dynamic \in BOOLEAN :
        att' = [att EXCEPT ![a] = [Idle EXCEPT !.pc = "config", !.transport = transport,
                                              !.dynamic = dynamic]]
  BY DEF Start
<1> DEFINE rec == [Idle EXCEPT !.pc = "config", !.transport = transport, !.dynamic = dynamic]
<1>2. rec \in AttemptState /\ rec.pc = "config" /\ rec.using = None
  BY ResolverAssumption DEF ResolverAssumption, Idle, AttemptState, Pc
<1> HIDE DEF rec
<1>3. att' = [att EXCEPT ![a] = rec]
  BY <1>1 DEF rec
<1>4. /\ att' \in [Attempt -> AttemptState]
      /\ att'[a] = rec /\ \A b \in Attempt : b # a => att'[b] = att[b]
  BY <1>2, <1>3 DEF TypeOK
<1>5. QED
  BY <1>2, <1>4, OverlapTeardown DEF Start

\* However attempts, disposals and failures overlap, every variable keeps its shape,
\* and an attempt that waits for a connection waits for one that is dialling or
\* connected: no teardown, loss or close leaves an await behind that nothing answers.
THEOREM TypeCorrect == Spec => []TypeOK
<1>1. Init => TypeOK /\ Dialled
  <2> SUFFICES ASSUME Init PROVE TypeOK /\ Dialled
    OBVIOUS
  <2>1. TypeOK
    BY ResolverAssumption DEF Init, TypeOK, FieldTypeOK, Idle, NoConn, NoTunnel, NoSock, AttemptState,
       ConnState, TunnelState, SockState, Pc, ResolverAssumption
  <2>2. /\ \A a \in Attempt : att[a].pc = "idle" /\ att[a].using = None
        /\ \A c \in Conn : conn[c].closing = FALSE
        /\ sshConnection = None /\ proxyConnections = {}
    BY DEF Init, Idle, NoConn
  <2>3. Dialled
    BY <2>2, ConnShape DEF Dialled, DialledField, HopsInField, WaitsFor
  <2>4. QED
    BY <2>1, <2>3
<1>2. TypeOK /\ Dialled /\ [Next]_vars => TypeOK' /\ Dialled'
  <2> SUFFICES ASSUME TypeOK, Dialled, [Next]_vars PROVE TypeOK' /\ Dialled'
    OBVIOUS
  <2>1. ASSUME NEW a \in Attempt,
               Start(a) \/ Resolve(a) \/ Errs(a) \/ ListenFails(a)
        PROVE  TypeOK' /\ Dialled'
    BY <2>1, OverlapStart, OverlapChain, OverlapResolve, OverlapErrs, OverlapTunnels DEF Resolve
  <2>2. ASSUME NEW c \in Conn, Ready(c) PROVE TypeOK' /\ Dialled'
    BY <2>2, OverlapReady
  <2>3. CASE \/ \E c \in Conn : DialFails(c) \/ Drop(c) \/ FinishClose(c)
             \/ \E a \in Attempt : ChildExits(a)
    BY <2>3, LossesOf, OverlapLosses
  <2>4. CASE Dispose
    <3>1. Teardown /\ UNCHANGED <<att, sock>> /\ att' \in [Attempt -> AttemptState]
      BY <2>4 DEF Dispose, TypeOK
    <3>2. QED
      BY <3>1, OverlapTeardown
  <2>5. QED
    BY <2>1, <2>2, <2>3, <2>4, OverlapSockets DEF Next
<1>3. QED
  BY <1>1, <1>2, PTL DEF Spec

=============================================================================
