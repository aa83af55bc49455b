---------------------------- MODULE ServerSetup ----------------------------
(***************************************************************************)
(* The install script of a Linux host (src/src/scripts/server-setup.sh).   *)
(* Every window that resolves the host runs it: under one flock it         *)
(* installs the server, finds the one that runs or starts one, and reports *)
(* where it listens and the token it expects.  The windows share the       *)
(* installation, the log, token and pid files, and nothing else.           *)
(*                                                                         *)
(* The connection of a window may be lost: nothing stops the script then   *)
(* but its next output.  The host may restart: scripts and servers are     *)
(* gone, the files stay.  flock is assumed to be installed.                *)
(***************************************************************************)
EXTENDS Naturals, FiniteSets

CONSTANTS
    Windows,     \* each runs the script, again and again; one that retries while
                 \* its last script still runs counts as two
    NoOne,       \* holds the lock when no script does
    MaxServers,  \* servers ever started
    Faults       \* of "hangup", "restart", "tar", "download"

ASSUME ServerSetupAssumption ==
    /\ NoOne \notin Windows
    /\ MaxServers \in Nat
    /\ Faults \subseteq {"hangup", "restart", "tar", "download"}

\* Servers are numbered as they start.  A script that starts one passes it a
\* token of its own, which has the same number; 0 is no server and no file.
Server == 1..MaxServers

VARIABLES
    lock,    \* the script that holds the flock
    dir,     \* the installation: without SERVER_SCRIPT, with it and not all the rest, or whole
    log,     \* the server whose output SERVER_LOGFILE has
    token,   \* the token in SERVER_TOKENFILE
    pid,     \* the server SERVER_PIDFILE names
    server,  \* each server
    run      \* each window: where its script is, what it read, or what it reported

vars == <<lock, dir, log, token, pid, server, run>>

Pc == {"lock", "install", "extract", "check", "remove", "write", "launch", "pid",
       "token", "log", "reported", "failed"}

Init ==
    /\ lock = NoOne
    /\ dir = "none"
    /\ log = 0 /\ token = 0 /\ pid = 0
    /\ server = [n \in Server |-> "none"]
    /\ run = [w \in Windows |-> [pc |-> "failed", token |-> 0, port |-> 0]]

Live(n) == server[n] \in {"starting", "listening"}
NextServer == Cardinality({n \in Server : server[n] # "none"}) + 1

\* A script goes on, or ends and lets go of the lock.
At(w, pc) == /\ run[w].pc = pc
             /\ lock = w
Goes(w, pc) == run' = [run EXCEPT ![w].pc = pc]
Fails(w) ==
    /\ run' = [run EXCEPT ![w] = [pc |-> "failed", token |-> 0, port |-> 0]]
    /\ lock' = NoOne

------------------------------------------------------------------------------
(* The lock. *)

Start(w) ==
    /\ run[w].pc \in {"reported", "failed"}
    /\ run' = [run EXCEPT ![w] = [pc |-> "lock", token |-> 0, port |-> 0]]
    /\ UNCHANGED <<lock, dir, log, token, pid, server>>

\* Mutant of Lock: the script goes on without the lock.
LockOrNot(w) ==
    /\ run[w].pc = "lock"
    /\ lock' = w
    /\ Goes(w, "install")
    /\ UNCHANGED <<dir, log, token, pid, server>>

Lock(w) ==
    /\ run[w].pc = "lock"
    /\ lock = NoOne
    /\ lock' = w
    /\ Goes(w, "install")
    /\ UNCHANGED <<dir, log, token, pid, server>>

\* Thirty seconds have passed.
LockTimeout(w) ==
    /\ run[w].pc = "lock"
    /\ lock # NoOne
    /\ run' = [run EXCEPT ![w].pc = "failed"]
    /\ UNCHANGED <<lock, dir, log, token, pid, server>>

------------------------------------------------------------------------------
(* The installation. *)

\* SERVER_SCRIPT is all the script looks for.
Installed(w) ==
    /\ At(w, "install")
    /\ dir # "none"
    /\ Goes(w, "check")
    /\ UNCHANGED <<lock, dir, log, token, pid, server>>

Download(w) ==
    /\ At(w, "install")
    /\ dir = "none"
    /\ Goes(w, "extract")
    /\ UNCHANGED <<lock, dir, log, token, pid, server>>

DownloadFails(w) ==
    /\ "download" \in Faults
    /\ At(w, "install")
    /\ dir = "none"
    /\ Fails(w)
    /\ UNCHANGED <<dir, log, token, pid, server>>

\* tar has come to SERVER_SCRIPT.
Extract(w) ==
    /\ At(w, "extract")
    /\ dir = "none"
    /\ dir' = "partial"
    /\ UNCHANGED <<lock, log, token, pid, server, run>>

Extracted(w) ==
    /\ At(w, "extract")
    /\ dir = "partial"
    /\ dir' = "whole"
    /\ Goes(w, "check")
    /\ UNCHANGED <<lock, log, token, pid, server>>

\* tar fails, and what it extracted stays; or the archive has no SERVER_SCRIPT.
ExtractFails(w) ==
    /\ "tar" \in Faults
    /\ At(w, "extract")
    /\ Fails(w)
    /\ UNCHANGED <<dir, log, token, pid, server>>

------------------------------------------------------------------------------
(* The server. *)

\* Mutant of Running: a server counts once it listens.
RunningOnceListening == IF pid # 0 THEN server[pid] = "listening"
                        ELSE \E n \in Server : server[n] = "listening"

\* The process of the pid file, or without a pid file any server of this SERVER_DIR.
Running == IF pid # 0 THEN Live(pid) ELSE \E n \in Server : Live(n)

Check(w) ==
    /\ At(w, "check")
    /\ Goes(w, IF Running THEN "token" ELSE "remove")
    /\ UNCHANGED <<lock, dir, log, token, pid, server>>

\* The log and the token of the last server are removed.
Remove(w) ==
    /\ At(w, "remove")
    /\ log' = 0
    /\ token' = 0
    /\ Goes(w, "write")
    /\ UNCHANGED <<lock, dir, pid, server>>

WriteToken(w) ==
    /\ At(w, "write")
    /\ NextServer \in Server
    /\ token' = NextServer
    /\ Goes(w, "launch")
    /\ UNCHANGED <<lock, dir, log, pid, server>>

\* The server is started in the background; its output goes to a new log.
Launch(w) ==
    /\ At(w, "launch")
    /\ server' = [server EXCEPT ![token] = "starting"]
    /\ log' = token
    /\ Goes(w, "pid")
    /\ UNCHANGED <<lock, dir, token, pid>>

WritePid(w) ==
    /\ At(w, "pid")
    /\ pid' = log
    /\ Goes(w, "token")
    /\ UNCHANGED <<lock, dir, log, token, server>>

\* Mutant of ReadToken: what is reported is the token this script was made with.
ReadOwnToken(w) ==
    /\ At(w, "token")
    /\ run' = [run EXCEPT ![w].pc = "log", ![w].token = NextServer]
    /\ UNCHANGED <<lock, dir, log, token, pid, server>>

\* Whoever started the server, its token is the one in the file.
ReadToken(w) ==
    /\ At(w, "token")
    /\ IF token # 0
         THEN run' = [run EXCEPT ![w].pc = "log", ![w].token = token] /\ UNCHANGED lock
         ELSE Fails(w)
    /\ UNCHANGED <<dir, log, token, pid, server>>

\* The server has logged where it listens: report it with the token.
Report(w) ==
    /\ At(w, "log")
    /\ log # 0
    /\ server[log] \in {"listening", "exited"}
    /\ run' = [run EXCEPT ![w].pc = "reported", ![w].port = log]
    /\ lock' = NoOne
    /\ UNCHANGED <<dir, log, token, pid, server>>

\* There is no log, or no such line in it for seventeen seconds.
LogTimeout(w) ==
    /\ At(w, "log")
    /\ log # 0 => server[log] \in {"starting", "stillborn"}
    /\ Fails(w)
    /\ UNCHANGED <<dir, log, token, pid, server>>

------------------------------------------------------------------------------
(* Around the script. *)

Listens(n) ==
    /\ server[n] = "starting"
    /\ server' = [server EXCEPT ![n] = "listening"]
    /\ UNCHANGED <<lock, dir, log, token, pid, run>>

\* It crashes, or shuts itself down when nobody uses it.
Exits(n) ==
    /\ Live(n)
    /\ server' = [server EXCEPT ![n] = IF @ = "starting" THEN "stillborn" ELSE "exited"]
    /\ UNCHANGED <<lock, dir, log, token, pid, run>>

\* The connection is lost.  The script goes on until it prints: the path of
\* uname, what it found running, the result.
Hangup(w) ==
    /\ "hangup" \in Faults
    /\ \/ At(w, "install")
       \/ At(w, "check") /\ Running
       \/ At(w, "log")
    /\ Fails(w)
    /\ UNCHANGED <<dir, log, token, pid, server>>

\* The host restarts.
Restart ==
    /\ "restart" \in Faults
    /\ lock' = NoOne
    /\ server' = [n \in Server |-> CASE server[n] = "starting"  -> "stillborn"
                                     [] server[n] = "listening" -> "exited"
                                     [] ~Live(n)                -> server[n]]
    /\ run' = [w \in Windows |-> [pc |-> "failed", token |-> 0, port |-> 0]]
    /\ UNCHANGED <<dir, log, token, pid>>

Script(w) ==
    \/ Start(w) \/ Lock(w) \/ LockTimeout(w)
    \/ Installed(w) \/ Download(w) \/ DownloadFails(w)
    \/ Extract(w) \/ Extracted(w) \/ ExtractFails(w)
    \/ Check(w) \/ Remove(w) \/ WriteToken(w) \/ Launch(w) \/ WritePid(w)
    \/ ReadToken(w) \/ Report(w) \/ LogTimeout(w)

Next ==
    \/ \E w \in Windows : Script(w) \/ Hangup(w)
    \/ \E n \in Server : Listens(n) \/ Exits(n)
    \/ Restart

Spec == Init /\ [][Next]_vars

------------------------------------------------------------------------------
(* Properties *)

\* The shape of every variable; what is written after the lock was taken is
\* written by its holder.
TypeOK ==
    /\ lock \in Windows \cup {NoOne}
    /\ dir \in {"none", "partial", "whole"}
    /\ {log, token, pid} \subseteq Server \cup {0}
    /\ server \in [Server -> {"none", "starting", "listening", "stillborn", "exited"}]
    /\ run \in [Windows -> [pc: Pc, token: Server \cup {0}, port: Server \cup {0}]]
    /\ \A w \in Windows : run[w].pc \notin {"lock", "reported", "failed"} => lock = w

\* The files describe the live server, so there is one at most: no script starts
\* a second server, or deletes the token or the log out from under a live one,
\* whatever became of the script that started it (server-setup.sh:242-246).
FilesOfLiveServer ==
    \A n \in Server : Live(n) =>
        /\ token = n /\ log = n
        /\ pid = n \/ \E w \in Windows : run[w].pc = "pid"

\* A window is told a port and the token of the server behind it, never the
\* port of one server and the token of another.
ReportsAgree == \A w \in Windows : run[w].pc = "reported" => run[w].token = run[w].port

Told(w) ==
    IF run[w].pc = "reported" THEN [port |-> run[w].port, token |-> run[w].token]
    ELSE [port |-> 0, token |-> 0]

Promise == INSTANCE SingleServer WITH
    Servers <- Server, None <- 0,
    current <- log,
    up <- {n \in Server : Live(n)},
    told <- [w \in Windows |-> Told(w)]

\* The script keeps the promise of SingleServer: every step of it, of the servers
\* and of the host is one of the promise, or changes nothing that was promised.
KeepsPromise == Promise!Spec

=============================================================================
