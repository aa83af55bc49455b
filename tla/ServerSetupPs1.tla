--------------------------- MODULE ServerSetupPs1 ---------------------------
(***************************************************************************)
(* The installation on a Windows host: what server-setup.ps1               *)
(* (src/src/scripts/server-setup.ps1:60-186) does while it owns the mutex. *)
(* The scripts of several windows share SERVER_DIR.  What follows the      *)
(* release of the mutex (finding or starting the server) is not here.      *)
(***************************************************************************)
EXTENDS Naturals

CONSTANTS
    Windows,  \* each runs the script, again and again
    NoOne     \* owns the mutex when no script does

VARIABLES
    mutex,  \* the script that owns it
    dir,    \* the installation: without SERVER_SCRIPT, with it and not all the rest, or whole
    pc      \* where the script of each window is

vars == <<mutex, dir, pc>>

Init ==
    /\ mutex = NoOne
    /\ dir = "none"
    /\ pc = [w \in Windows |-> "ended"]

Start(w) ==
    /\ pc[w] = "ended"
    /\ pc' = [pc EXCEPT ![w] = "wait"]
    /\ UNCHANGED <<mutex, dir>>

\* WaitOne, or an AbandonedMutexException: the mutex is owned either way.
Acquire(w) ==
    /\ pc[w] = "wait"
    /\ mutex = NoOne
    /\ mutex' = w
    /\ pc' = [pc EXCEPT ![w] = "install"]
    /\ UNCHANGED dir

\* Thirty seconds have passed.
WaitTimeout(w) ==
    /\ pc[w] = "wait"
    /\ mutex # NoOne
    /\ pc' = [pc EXCEPT ![w] = "ended"]
    /\ UNCHANGED <<mutex, dir>>

\* The finally block releases the mutex, whether the installation failed or not.
Release(w, next) ==
    /\ mutex' = NoOne
    /\ pc' = [pc EXCEPT ![w] = next]

\* SERVER_SCRIPT is there: nothing to install.
Installed(w) ==
    /\ pc[w] = "install"
    /\ dir # "none"
    /\ Release(w, "start")
    /\ UNCHANGED dir

Download(w) ==
    /\ pc[w] = "install"
    /\ dir = "none"
    /\ pc' = [pc EXCEPT ![w] = "extract"]
    /\ UNCHANGED <<mutex, dir>>

DownloadFails(w) ==
    /\ pc[w] = "install"
    /\ dir = "none"
    /\ Release(w, "ended")
    /\ UNCHANGED dir

\* tar has come to SERVER_SCRIPT.
Extract(w) ==
    /\ pc[w] = "extract"
    /\ dir = "none"
    /\ dir' = "partial"
    /\ UNCHANGED <<mutex, pc>>

Extracted(w) ==
    /\ pc[w] = "extract"
    /\ dir = "partial"
    /\ dir' = "whole"
    /\ Release(w, "start")

\* tar fails, or the archive has no SERVER_SCRIPT: everything in SERVER_DIR is removed.
ExtractFails(w) ==
    /\ pc[w] = "extract"
    /\ dir' = "none"
    /\ Release(w, "ended")

\* The script is killed, and tar with it; the mutex is abandoned.
Killed(w) ==
    /\ pc[w] \in {"wait", "install", "extract", "start"}
    /\ pc' = [pc EXCEPT ![w] = "ended"]
    /\ mutex' = IF mutex = w THEN NoOne ELSE mutex
    /\ UNCHANGED dir

\* The rest of the script has run.
Ended(w) ==
    /\ pc[w] = "start"
    /\ pc' = [pc EXCEPT ![w] = "ended"]
    /\ UNCHANGED <<mutex, dir>>

Next ==
    \E w \in Windows :
        \/ Start(w) \/ Acquire(w) \/ WaitTimeout(w)
        \/ Installed(w) \/ Download(w) \/ DownloadFails(w)
        \/ Extract(w) \/ Extracted(w) \/ ExtractFails(w)
        \/ Killed(w) \/ Ended(w)

Spec == Init /\ [][Next]_vars

------------------------------------------------------------------------------
(* Property *)

\* A script that goes on to start the server starts one that was installed
\* whole: what a killed script had extracted by half is not taken for an
\* installation (server-setup.ps1:79-81).
StartsWholeServer == \A w \in Windows : pc[w] = "start" => dir = "whole"

=============================================================================
