---------------------------- MODULE SessionOwner ----------------------------
(***************************************************************************)
(* What a window's provider promises about its sessions, without plans,    *)
(* queues, probes or reservations: a session has one owner at a time, a    *)
(* profile request and then the tab made of it; it comes on screen only    *)
(* once the next window would find it; it is killed only as its tab goes   *)
(* away, and until that is over nobody gets it.  TerminalProvider          *)
(* implements it.                                                          *)
(***************************************************************************)
CONSTANTS
    Slot,      \* the sessions, by slot
    Requests,
    Tabs

VARIABLES
    holders,   \* the requests that have been given a slot
    viewers,   \* the tabs that show it
    dying,     \* slots with a kill-session on its way
    saved      \* slots the next window will find

vars == <<holders, viewers, dying, saved>>

Free(s) == holders[s] = {} /\ viewers[s] = {} /\ s \notin dying

Init ==
    /\ holders = [s \in Slot |-> {}]
    /\ viewers = [s \in Slot |-> {}]
    /\ dying = {}
    /\ saved \subseteq Slot

\* A request is given a free session.
Claim(s) ==
    /\ Free(s)
    /\ \E r \in Requests : holders' = [holders EXCEPT ![s] = {r}]
    /\ UNCHANGED <<viewers, dying, saved>>

\* It is given another free one instead.
Swap(s, new) ==
    /\ holders[s] # {}
    /\ Free(new)
    /\ holders' = [holders EXCEPT ![s] = {}, ![new] = holders[s]]
    /\ UNCHANGED <<viewers, dying, saved>>

\* It fails.
GiveUp(s) ==
    /\ holders[s] # {}
    /\ holders' = [holders EXCEPT ![s] = {}]
    /\ UNCHANGED <<viewers, dying, saved>>

\* It becomes a tab.
Open(s) ==
    /\ holders[s] # {} /\ viewers[s] = {}
    /\ s \in saved
    /\ holders' = [holders EXCEPT ![s] = {}]
    /\ \E t \in Tabs : viewers' = [viewers EXCEPT ![s] = {t}]
    /\ UNCHANGED <<dying, saved>>

\* A session that survived comes back without a request.
Restore(s) ==
    /\ Free(s)
    /\ s \in saved
    /\ \E t \in Tabs : viewers' = [viewers EXCEPT ![s] = {t}]
    /\ UNCHANGED <<holders, dying, saved>>

\* The tab goes away; the session is kept, or has ended by itself.
Lose(s) ==
    /\ viewers[s] # {}
    /\ viewers' = [viewers EXCEPT ![s] = {}]
    /\ UNCHANGED <<holders, dying, saved>>

\* The tab goes away because the user closed it: its session is killed.
Close(s) ==
    /\ viewers[s] # {} /\ holders[s] = {}
    /\ viewers' = [viewers EXCEPT ![s] = {}]
    /\ dying' = dying \cup {s}
    /\ UNCHANGED <<holders, saved>>

\* The kill has landed or failed.
Settle(s) ==
    /\ s \in dying
    /\ dying' = dying \ {s}
    /\ UNCHANGED <<holders, viewers, saved>>

\* What the next window will find changes, but for what is on screen.
Save ==
    /\ saved' \subseteq Slot
    /\ \A s \in Slot : viewers[s] # {} => s \in saved'
    /\ UNCHANGED <<holders, viewers, dying>>

Next ==
    \/ Save
    \/ \E s \in Slot :
          \/ Claim(s) \/ GiveUp(s) \/ \E new \in Slot : Swap(s, new)
          \/ Open(s) \/ Restore(s) \/ Lose(s) \/ Close(s)
          \/ Settle(s)

Spec == Init /\ [][Next]_vars

=============================================================================
