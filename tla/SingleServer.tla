---------------------------- MODULE SingleServer ----------------------------
(***************************************************************************)
(* What the install scripts promise the windows of one host, without lock, *)
(* files or processes: one server at a time, and whoever is told where to  *)
(* connect is told the port and the token of one and the same server, the  *)
(* one that was started last.  ServerSetup implements it.                  *)
(***************************************************************************)
CONSTANTS
    Windows,
    Servers,  \* every server ever started, each with a port and a token of its own
    None      \* no server

VARIABLES
    current,  \* the server windows are sent to; it may have exited since
    up,       \* the servers that run
    told      \* what each window has been told: a port and a token

vars == <<current, up, told>>

Nothing == [port |-> None, token |-> None]

Init ==
    /\ current = None
    /\ up = {}
    /\ told = [w \in Windows |-> Nothing]

\* A server is started only where none runs.
Start(n) ==
    /\ up = {}
    /\ up' = {n}
    /\ current' = n
    /\ UNCHANGED told

\* It exits, and every window that was told of it may have lost its connection.
Stop ==
    /\ up' = {}
    /\ \E lost \in SUBSET Windows :
          told' = [w \in Windows |-> IF w \in lost THEN Nothing ELSE told[w]]
    /\ UNCHANGED current

\* No window is sent to a server that has exited any more.
Retire ==
    /\ up = {}
    /\ current' = None
    /\ UNCHANGED <<up, told>>

Tell(w) ==
    /\ current # None
    /\ told' = [told EXCEPT ![w] = [port |-> current, token |-> current]]
    /\ UNCHANGED <<current, up>>

\* The window connects once more.
Forget(w) ==
    /\ told' = [told EXCEPT ![w] = Nothing]
    /\ UNCHANGED <<current, up>>

Next ==
    \/ \E n \in Servers : Start(n)
    \/ Stop
    \/ Retire
    \/ \E w \in Windows : Tell(w) \/ Forget(w)

Spec == Init /\ [][Next]_vars

=============================================================================
