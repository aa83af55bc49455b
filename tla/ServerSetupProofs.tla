------------------------- MODULE ServerSetupProofs -------------------------
(***************************************************************************)
(* For any number of windows and servers, and whatever may fail, the       *)
(* install script never starts a server beside a live one and never        *)
(* reports the port of one server with the token of another.               *)
(*                                                                         *)
(* The invariant follows the holder of the lock: what it found or did so   *)
(* far still holds of the files, since nobody else may write them.         *)
(***************************************************************************)
EXTENDS ServerSetup, TLAPS

USE ServerSetupAssumption

\* Between its check and the launch the holder knows that no server lives.
NoneLive == \A w \in Windows : run[w].pc \in {"remove", "write", "launch"}
                                 => \A n \in Server : ~Live(n)

\* What the holder wrote or found is in the files.
HolderKnows ==
    \A w \in Windows :
        /\ run[w].pc = "launch" => token \in Server
        /\ run[w].pc \in {"pid", "token"} => token = log
        /\ run[w].pc = "pid" => log \in Server
        /\ run[w].pc = "log" => log = token /\ run[w].token = token

IInv == TypeOK /\ NoneLive /\ HolderKnows /\ FilesOfLiveServer /\ ReportsAgree

\* Initially no server lives and no script runs.
LEMMA InitIInv == Init => IInv
<1> SUFFICES ASSUME Init PROVE IInv
  OBVIOUS
<1>1. \A n \in Server : ~Live(n)
  BY DEF Init, Live
<1>2. \A w \in Windows : run[w] = [pc |-> "failed", token |-> 0, port |-> 0]
  BY DEF Init
<1>3. TypeOK
  BY <1>2 DEF Init, TypeOK, Pc
<1>4. QED
  BY <1>1, <1>2, <1>3 DEF IInv, NoneLive, HolderKnows, FilesOfLiveServer, ReportsAgree

\* Only the holder of the lock is past it.
LEMMA OneHolder ==
    ASSUME TypeOK, NEW w \in Windows, lock = w,
           NEW v \in Windows, run[v].pc \notin {"lock", "reported", "failed"}
    PROVE  v = w
BY DEF TypeOK

\* Every step keeps the invariant.
LEMMA StepIInv == IInv /\ [Next]_vars => IInv'
<1> SUFFICES ASSUME IInv, [Next]_vars PROVE IInv'
  OBVIOUS
<1> USE DEF IInv, NoneLive, HolderKnows, FilesOfLiveServer, ReportsAgree, At, Live
<1>1. ASSUME NEW w \in Windows, Start(w) PROVE IInv'
  BY <1>1, OneHolder DEF Start, TypeOK, Goes, Fails, Pc
<1>2. ASSUME NEW w \in Windows, Lock(w) PROVE IInv'
  BY <1>2, OneHolder DEF Lock, TypeOK, Goes, Fails, Pc
<1>3. ASSUME NEW w \in Windows, LockTimeout(w) PROVE IInv'
  BY <1>3, OneHolder DEF LockTimeout, TypeOK, Goes, Fails, Pc
<1>4. ASSUME NEW w \in Windows, Installed(w) PROVE IInv'
  BY <1>4, OneHolder DEF Installed, TypeOK, Goes, Fails, Pc
<1>5. ASSUME NEW w \in Windows, Download(w) PROVE IInv'
  BY <1>5, OneHolder DEF Download, TypeOK, Goes, Fails, Pc
<1>6. ASSUME NEW w \in Windows, DownloadFails(w) PROVE IInv'
  BY <1>6, OneHolder DEF DownloadFails, TypeOK, Goes, Fails, Pc
<1>7. ASSUME NEW w \in Windows, Extract(w) PROVE IInv'
  BY <1>7, OneHolder DEF Extract, TypeOK, Goes, Fails, Pc
<1>8. ASSUME NEW w \in Windows, Extracted(w) PROVE IInv'
  BY <1>8, OneHolder DEF Extracted, TypeOK, Goes, Fails, Pc
<1>9. ASSUME NEW w \in Windows, ExtractFails(w) PROVE IInv'
  BY <1>9, OneHolder DEF ExtractFails, TypeOK, Goes, Fails, Pc
<1>10. ASSUME NEW w \in Windows, Check(w) PROVE IInv'
  <2>1. run[w].pc = "check" /\ lock = w /\ UNCHANGED <<lock, dir, log, token, pid, server>>
    BY <1>10 DEF Check
  <2>2. TypeOK'
    BY <1>10, <2>1 DEF Check, TypeOK, Goes, Pc
  <2>3. \A v \in Windows : v # w => run'[v] = run[v]
    BY <1>10 DEF Check, Goes, TypeOK
  <2>4. \A v \in Windows : run[v].pc # "pid"
    BY <2>1, OneHolder
  <2>5. CASE Running
    <3>1. run'[w].pc = "token" /\ run'[w].token = run[w].token
      BY <1>10, <2>5 DEF Check, Goes, TypeOK
    <3>2. token = log
      BY <2>5 DEF Running, TypeOK
    <3>3. QED
      BY <2>1, <2>2, <2>3, <2>4, <3>1, <3>2
  <2>6. CASE ~Running
    <3>1. run'[w].pc = "remove"
      BY <1>10, <2>6 DEF Check, Goes, TypeOK
    <3>2. \A n \in Server : ~Live(n)
      BY <2>4, <2>6 DEF Running, Server
    <3>3. QED
      BY <2>1, <2>2, <2>3, <2>4, <3>1, <3>2
  <2>7. QED
    BY <2>5, <2>6
<1>11. ASSUME NEW w \in Windows, Remove(w) PROVE IInv'
  BY <1>11, OneHolder DEF Remove, TypeOK, Goes, Fails, Pc
<1>12. ASSUME NEW w \in Windows, WriteToken(w) PROVE IInv'
  BY <1>12, OneHolder DEF WriteToken, TypeOK, Goes, Fails, Pc
<1>13. ASSUME NEW w \in Windows, Launch(w) PROVE IInv'
  BY <1>13, OneHolder DEF Launch, TypeOK, Goes, Fails, Pc
<1>14. ASSUME NEW w \in Windows, WritePid(w) PROVE IInv'
  BY <1>14, OneHolder DEF WritePid, TypeOK, Goes, Fails, Pc
<1>15. ASSUME NEW w \in Windows, ReadToken(w) PROVE IInv'
  BY <1>15, OneHolder DEF ReadToken, TypeOK, Goes, Fails, Pc
<1>16. ASSUME NEW w \in Windows, Report(w) PROVE IInv'
  <2>1. run[w].pc = "log" /\ lock = w /\ log # 0 /\ UNCHANGED <<dir, log, token, pid, server>>
    BY <1>16 DEF Report
  <2>2. run'[w] = [pc |-> "reported", token |-> log, port |-> log]
    <3>1. run[w] \in [pc: Pc, token: Server \cup {0}, port: Server \cup {0}]
      BY DEF TypeOK
    <3>2. run'[w] = [run[w] EXCEPT !.pc = "reported", !.port = log]
      BY <1>16 DEF Report, TypeOK
    <3>3. run[w].token = log
      BY <2>1
    <3>4. QED
      BY <3>1, <3>2, <3>3
  <2>3. \A v \in Windows : v # w => run'[v] = run[v]
    BY <1>16 DEF Report, TypeOK
  <2>4. TypeOK'
    <3>1. log \in Server
      BY <2>1 DEF TypeOK
    <3>2. run' \in [Windows -> [pc: Pc, token: Server \cup {0}, port: Server \cup {0}]]
      BY <1>16, <2>2, <2>3, <3>1 DEF Report, TypeOK, Pc
    <3>3. \A v \in Windows : run'[v].pc \in {"lock", "reported", "failed"}
      BY <2>1, <2>2, <2>3, OneHolder
    <3>4. QED
      BY <1>16, <3>2, <3>3 DEF Report, TypeOK
  <2>5. QED
    BY <2>1, <2>2, <2>3, <2>4
<1>17. ASSUME NEW w \in Windows, LogTimeout(w) PROVE IInv'
  BY <1>17, OneHolder DEF LogTimeout, TypeOK, Goes, Fails, Pc
<1>18. ASSUME NEW w \in Windows, Hangup(w) PROVE IInv'
  BY <1>18, OneHolder DEF Hangup, TypeOK, Goes, Fails, Pc
<1>19. ASSUME NEW n \in Server, Listens(n) PROVE IInv'
  BY <1>19, OneHolder DEF Listens, TypeOK, Goes, Fails, Pc
<1>20. ASSUME NEW n \in Server, Exits(n) PROVE IInv'
  BY <1>20, OneHolder DEF Exits, TypeOK, Goes, Fails, Pc
<1>21. CASE Restart
  BY <1>21, OneHolder DEF Restart, TypeOK, Goes, Fails, Pc
<1>22. CASE UNCHANGED vars
  BY <1>22 DEF vars, TypeOK
<1>23. QED
  BY <1>1, <1>2, <1>3, <1>4, <1>5, <1>6, <1>7, <1>8, <1>9, <1>10, <1>11, <1>12, <1>13, <1>14, <1>15, <1>16, <1>17, <1>18, <1>19, <1>20, <1>21, <1>22 DEF Next, Script

\* The shape of every variable, for every constant.
THEOREM TypeCorrect == Spec => []TypeOK
<1>1. IInv => TypeOK
  BY DEF IInv
<1>2. QED
  BY InitIInv, StepIInv, <1>1, PTL DEF Spec

\* No script starts a second server, or deletes the files of a live one
\* (server-setup.sh:236-268): the lock is held from the check to the pid file,
\* and what the check finds is what the last holder left.
THEOREM NoSecondServer == Spec => []FilesOfLiveServer
<1>1. IInv => FilesOfLiveServer
  BY DEF IInv
<1>2. QED
  BY InitIInv, StepIInv, <1>1, PTL DEF Spec

\* The token and the port a window is told are those of one server
\* (server-setup.sh:273-299).
THEOREM ReportsRight == Spec => []ReportsAgree
<1>1. IInv => ReportsAgree
  BY DEF IInv
<1>2. QED
  BY InitIInv, StepIInv, <1>1, PTL DEF Spec

------------------------------------------------------------------------------
(* ServerSetup implements SingleServer. *)

Up == {n \in Server : Live(n)}
AllTold == [w \in Windows |-> Told(w)]
Nothing == [port |-> 0, token |-> 0]

\* What is promised before anybody has run the script.
LEMMA InitPromise == Init => Promise!Init
BY DEF Init, Live, Told, Promise!Init, Promise!Nothing

\* A step that touches neither the log nor a server nor what was reported stutters.
LEMMA Stutter ==
    ASSUME TypeOK, UNCHANGED <<log, server>>,
           NEW w \in Windows, \A v \in Windows \ {w} : run'[v] = run[v],
           run[w].pc # "reported", run'[w].pc # "reported"
    PROVE  UNCHANGED Promise!vars
<1>1. AllTold' = AllTold
  BY DEF AllTold, Told
<1>2. Up' = Up
  BY DEF Up, Live
<1>3. QED
  BY <1>1, <1>2 DEF AllTold, Up, Promise!vars

\* A script that starts again forgets what it has reported.
LEMMA StartForgets ==
    ASSUME IInv, NEW w \in Windows, Start(w)
    PROVE  Promise!Next
<1>1. run'[w].pc = "lock" /\ \A v \in Windows \ {w} : run'[v] = run[v]
  BY DEF Start, IInv, TypeOK
<1>2. AllTold' = [AllTold EXCEPT ![w] = Nothing]
  BY <1>1 DEF AllTold, Told, Nothing
<1>3. Up' = Up /\ log' = log
  BY DEF Start, Up, Live
<1>4. Promise!Forget(w)
  BY <1>2, <1>3 DEF AllTold, Up, Nothing, Promise!Forget, Promise!Nothing
<1>5. QED
  BY <1>4 DEF Promise!Next

\* The log is removed where the check has found no server.
LEMMA RemoveRetires ==
    ASSUME IInv, NEW w \in Windows, Remove(w)
    PROVE  Promise!Next
<1>1. run[w].pc = "remove" /\ run'[w].pc = "write" /\ \A v \in Windows \ {w} : run'[v] = run[v]
  BY DEF Remove, At, Goes, IInv, TypeOK
<1>2. Up = {} /\ Up' = Up
  BY <1>1 DEF IInv, NoneLive, Remove, Up, Live
<1>3. AllTold' = AllTold
  BY <1>1 DEF AllTold, Told
<1>4. Promise!Retire
  BY <1>2, <1>3 DEF Remove, AllTold, Up, Promise!Retire
<1>5. QED
  BY <1>4 DEF Promise!Next

\* A server is launched where the check has found none.
LEMMA LaunchStarts ==
    ASSUME IInv, NEW w \in Windows, Launch(w)
    PROVE  Promise!Next
<1>1. run[w].pc = "launch" /\ run'[w].pc = "pid" /\ \A v \in Windows \ {w} : run'[v] = run[v]
  BY DEF Launch, At, Goes, IInv, TypeOK
<1>2. token \in Server /\ \A n \in Server : ~Live(n)
  BY <1>1 DEF IInv, HolderKnows, NoneLive
<1>3. Up = {}
  BY <1>2 DEF Up
<1>4. Up' = {token}
  <2>1. \A n \in Server : server'[n] = IF n = token THEN "starting" ELSE server[n]
    BY <1>2 DEF Launch, IInv, TypeOK
  <2>2. QED
    BY <1>2, <2>1 DEF Up, Live
<1>5. AllTold' = AllTold
  BY <1>1 DEF AllTold, Told
<1>6. Promise!Start(token)
  BY <1>3, <1>4, <1>5 DEF Launch, AllTold, Up, Promise!Start
<1>7. QED
  BY <1>2, <1>6 DEF Promise!Next

\* What is reported is the address of the newest log and the token read before.
LEMMA ReportTells ==
    ASSUME IInv, NEW w \in Windows, Report(w)
    PROVE  Promise!Next
<1>1. run[w].pc = "log" /\ log # 0 /\ UNCHANGED <<log, server>>
  BY DEF Report, At
<1>2. run[w].token = log
  BY <1>1 DEF IInv, HolderKnows
<1>3. run'[w] = [run[w] EXCEPT !.pc = "reported", !.port = log]
      /\ \A v \in Windows \ {w} : run'[v] = run[v]
  BY DEF Report, IInv, TypeOK
<1>4. run[w] \in [pc: Pc, token: Server \cup {0}, port: Server \cup {0}]
  BY DEF IInv, TypeOK
<1>5. run'[w].pc = "reported" /\ run'[w].port = log /\ run'[w].token = log
  BY <1>2, <1>3, <1>4
<1>6. AllTold' = [AllTold EXCEPT ![w] = [port |-> log, token |-> log]]
  <2>1. Told(w)' = [port |-> log, token |-> log]
    BY <1>5 DEF Told
  <2>2. \A v \in Windows \ {w} : Told(v)' = Told(v)
    BY <1>3 DEF Told
  <2>3. QED
    BY <2>1, <2>2 DEF AllTold
<1>7. Up' = Up
  BY <1>1 DEF Up, Live
<1>8. Promise!Tell(w)
  BY <1>1, <1>6, <1>7 DEF AllTold, Up, Promise!Tell
<1>9. QED
  BY <1>8 DEF Promise!Next

\* Of two live servers each would own the files.
LEMMA OneUp ==
    ASSUME IInv, NEW n \in Server, Live(n)
    PROVE  Up = {n}
BY DEF IInv, FilesOfLiveServer, Up

LEMMA ListensStutters ==
    ASSUME IInv, NEW n \in Server, Listens(n)
    PROVE  UNCHANGED Promise!vars
<1>1. \A m \in Server : server'[m] = IF m = n THEN "listening" ELSE server[m]
  BY DEF Listens, IInv, TypeOK
<1>2. Up' = Up
  BY <1>1 DEF Listens, Up, Live
<1>3. AllTold' = AllTold
  BY DEF Listens, AllTold, Told
<1>4. QED
  BY <1>2, <1>3 DEF Listens, AllTold, Up, Promise!vars

LEMMA ExitsStops ==
    ASSUME IInv, NEW n \in Server, Exits(n)
    PROVE  Promise!Next
<1>1. \A m \in Server : m # n => server'[m] = server[m]
  BY DEF Exits, IInv, TypeOK
<1>2. server'[n] \in {"stillborn", "exited"}
  BY DEF Exits, IInv, TypeOK
<1>3. Up = {n}
  BY OneUp DEF Exits
<1>4. Up' = {}
  BY <1>1, <1>2, <1>3 DEF Up, Live
<1>5. AllTold' = [w \in Windows |-> IF w \in {} THEN Nothing ELSE AllTold[w]]
  BY DEF Exits, AllTold, Told
<1>6. Promise!Stop
  BY <1>4, <1>5 DEF Exits, AllTold, Up, Nothing, Promise!Stop, Promise!Nothing
<1>7. QED
  BY <1>6 DEF Promise!Next

LEMMA RestartStops ==
    ASSUME IInv, Restart
    PROVE  Promise!Next
<1>1. Up' = {}
  <2>1. \A n \in Server : server'[n] \notin {"starting", "listening"}
    BY DEF Restart, Live
  <2>2. QED
    BY <2>1 DEF Up, Live
<1>2. \A w \in Windows : run'[w].pc = "failed"
  BY DEF Restart
<1>3. AllTold' = [w \in Windows |-> IF w \in Windows THEN Nothing ELSE AllTold[w]]
  BY <1>2 DEF AllTold, Told, Nothing
<1>4. Promise!Stop
  BY <1>1, <1>3 DEF Restart, AllTold, Up, Nothing, Promise!Stop, Promise!Nothing
<1>5. QED
  BY <1>4 DEF Promise!Next

\* Every step is one of the promise, or changes nothing that was promised.
LEMMA StepPromise == IInv /\ [Next]_vars => [Promise!Next]_(Promise!vars)
<1> SUFFICES ASSUME IInv, [Next]_vars PROVE Promise!Next \/ UNCHANGED Promise!vars
  OBVIOUS
<1>0. TypeOK
  BY DEF IInv
<1>1. ASSUME NEW w \in Windows,
             Lock(w) \/ LockTimeout(w) \/ Installed(w) \/ Download(w) \/ DownloadFails(w)
              \/ Extract(w) \/ Extracted(w) \/ ExtractFails(w)
              \/ Check(w) \/ WriteToken(w) \/ WritePid(w) \/ ReadToken(w)
              \/ LogTimeout(w) \/ Hangup(w)
      PROVE  UNCHANGED Promise!vars
  <2>1. UNCHANGED <<log, server>> /\ run[w].pc # "reported"
    BY <1>1 DEF Lock, LockTimeout, Installed, Download, DownloadFails, Extract, Extracted,
                ExtractFails, Check, WriteToken, WritePid, ReadToken, LogTimeout, Hangup, At
  <2>2. run'[w].pc # "reported"
    BY <1>0, <1>1, <2>1
       DEF Lock, LockTimeout, Installed, Download, DownloadFails, Extract, Extracted,
           ExtractFails, Check, WriteToken, WritePid, ReadToken, LogTimeout, Hangup,
           At, Goes, Fails, TypeOK
  <2>3. \A v \in Windows \ {w} : run'[v] = run[v]
    BY <1>0, <1>1
       DEF Lock, LockTimeout, Installed, Download, DownloadFails, Extract, Extracted,
           ExtractFails, Check, WriteToken, WritePid, ReadToken, LogTimeout, Hangup,
           Goes, Fails, TypeOK
  <2>4. QED
    BY <1>0, <2>1, <2>2, <2>3, Stutter
<1>2. ASSUME UNCHANGED vars PROVE UNCHANGED Promise!vars
  BY <1>2 DEF vars, Promise!vars, Told, Live
<1>3. QED
  BY <1>1, <1>2, StartForgets, RemoveRetires, LaunchStarts, ReportTells, ListensStutters,
     ExitsStops, RestartStops DEF Next, Script

\* The script keeps what SingleServer promises of one host, however many windows
\* run it, hang up or come back, and whatever the host does.
THEOREM Implements == Spec => KeepsPromise
BY InitIInv, StepIInv, InitPromise, StepPromise, PTL DEF Spec, KeepsPromise, Promise!Spec

============================================================================
