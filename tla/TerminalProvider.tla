-------------------------- MODULE TerminalProvider --------------------------
(***************************************************************************)
(* One window's TmuxTerminalProvider (src/src/tmux/terminalProvider.ts):   *)
(* which tmux slot each terminal of the window shows.                      *)
(*                                                                         *)
(* Actors.  `pass` are the runs of initialize(): the first when the window *)
(* is wired, a later one for each reconnect (extension.ts refresh()).      *)
(* `request` are calls of provideTerminalProfile() in flight.  The window  *)
(* (VS Code) opens and closes tabs and reconnects old ptys; the remote     *)
(* tmux server loses sessions and other machines' clients come and go.     *)
(*                                                                         *)
(* Grain.  The extension host runs one callback at a time, so an action is *)
(* the code from one `await` to the next.  The two loops that await only   *)
(* sometimes (plan's and the drain's) take one iteration per action, and   *)
(* Idle keeps every other action of the host out until the loop awaits.    *)
(* A remote command answers, or fails, in the step that resumes its        *)
(* caller; the answer may be stale by the time the caller acts on it.      *)
(***************************************************************************)
EXTENDS Naturals, Sequences, FiniteSets, SlotState

CONSTANTS
    MaxSlot,      \* slots are 0..MaxSlot
    MaxPass,      \* runs of initialize(): one wiring and MaxPass - 1 reconnects
    Requests,     \* calls of provideTerminalProfile()
    Tabs,         \* the terminals the window shows, one after the other or at once
    Found,        \* slots that may have a past when the window opens
    Shared,       \* slots another machine's client may come to
    PtyReconnect, \* whether VS Code may reconnect ptys of the last window
    Faults,       \* what may fail: a "probe" or kill, a "write", a "spawn", a "dispose"
    Closable,     \* tabs the user may close
    MaxKills,     \* kill-sessions in flight per slot
    MaxWrites     \* workspaceState writes waiting

Slot == 0..MaxSlot
Pass == 1..MaxPass

ASSUME ConstantsAssumption ==
    /\ MaxSlot \in Nat
    /\ MaxPass \in Nat \ {0}
    /\ Found \subseteq Slot
    /\ Shared \subseteq Slot
    /\ PtyReconnect \in BOOLEAN
    /\ Faults \subseteq {"probe", "write", "spawn", "dispose"}
    /\ Closable \subseteq Tabs
    /\ MaxKills \in Nat
    /\ MaxWrites \in Nat
    \* A waiter of persistChain is a request, a pass or (0) nobody.
    /\ Requests \cap (0..MaxPass) = {}

VARIABLES
    \* The provider's fields.  mapping is the set of its keys: the value is
    \* sessionName(slot).  terminalSlots is its keys: the value is tab[t].slot.
    mapping, openSlots, killingSlots, attachedRemoteSlots, reservedSlots,
    pendingRestores, persistChain, terminalSlots, discardedDuplicates,
    \* workspaceState: the slots the next window will find mapped.
    stored,
    \* The calls in progress.
    pass, request, kills,
    \* window.terminals, with the close that is on its way to the provider.
    tab,
    \* The tmux server: live sessions, those another machine's client is on,
    \* and those held by a pty of this machine's last window.
    session, foreign, parked

local == <<mapping, openSlots, killingSlots, attachedRemoteSlots, reservedSlots,
           pendingRestores, persistChain, terminalSlots, discardedDuplicates>>
remote == <<session, foreign, parked>>
vars == <<local, stored, pass, request, kills, tab, remote>>

------------------------------------------------------------------------------

PassPc == {"idle", "list", "decide", "probe", "save", "grace", "watch", "flush", "drain", "done"}
RequestPc == {"idle", "gate", "probe1", "probe2", "save", "granted", "done", "failed"}
Ending == {"no", "user", "process", "dispose"}

Entry == [slot: Slot, takeOver: BOOLEAN, revivable: BOOLEAN]
PassState == [pc: PassPc, todo: SUBSET Slot, seen: [Slot -> RemoteSlotState],
              rest: Seq(Entry), revivable: BOOLEAN]
RequestState == [pc: RequestPc, gate: 0..MaxPass, slot: Slot, takeOver: BOOLEAN]
TabState == [st: {"none", "born", "open", "gone"}, slot: Slot, ending: Ending]

IdlePass == [pc |-> "idle", todo |-> {}, seen |-> [s \in Slot |-> "none"],
             rest |-> <<>>, revivable |-> FALSE]
IdleRequest == [pc |-> "idle", gate |-> 0, slot |-> 0, takeOver |-> FALSE]
NoTab == [st |-> "none", slot |-> 0, ending |-> "no"]
Shown == {t \in Tabs : tab[t].st \in {"born", "open"}}

First(S) == CHOOSE s \in S : \A x \in S : s <= x
Slots(q) == {q[i].slot : i \in 1..Len(q)}

\* The host is between two callbacks: no synchronous loop is half done.
Idle == \A p \in Pass : pass[p].pc \notin {"decide", "drain"}

Started(p) == pass[p].pc # "idle"
Planned(p) == pass[p].pc \in {"grace", "watch", "flush", "drain", "done"}

\* `this.planning`: the newest run's plan, or an already resolved promise.
Planning == IF \E p \in Pass : Started(p)
              THEN CHOOSE p \in Pass : Started(p) /\ \A q \in Pass : Started(q) => q <= p
              ELSE 0

\* Tabs whose tmux client is alive, and what list-sessions calls attached.
Connected == {t \in Shown : tab[t].ending = "no"}
Attached == foreign \cup parked \cup {tab[t].slot : t \in Connected}
Seen(s) == IF s \notin session THEN "none" ELSE IF s \in Attached THEN "attached" ELSE "detached"

FreeTabs == {t \in Tabs : tab[t].st = "none"}

------------------------------------------------------------------------------
(* The tmux server's side of opening and losing a client. *)

\* The sessions of slots S end for every client of this window.
Exits(S) == [t \in Tabs |-> IF t \in Connected /\ tab[t].slot \in S
                              THEN [tab[t] EXCEPT !.ending = "process"] ELSE tab[t]]

\* `tmux new-session -A [-D] -s <slot>` in tab t: attach or create; -D evicts
\* every other client of the session.
Launch(t, s, takeOver) ==
    /\ tab' = [(IF takeOver THEN Exits({s}) ELSE tab) EXCEPT
                 ![t] = [st |-> "born", slot |-> s, ending |-> "no"]]
    /\ session' = session \cup {s}
    /\ foreign' = IF takeOver THEN foreign \ {s} ELSE foreign
    /\ parked' = IF takeOver THEN parked \ {s} ELSE parked

------------------------------------------------------------------------------
(* Helpers of the provider. *)

\* Slots of this workspace shown in the window that the provider does not
\* know of; adoptRevivedTerminals records one tab for each.
Unclaimed == {t \in Shown : tab[t].slot \notin openSlots}

AdoptRevivedTerminals ==
    LET slots == {tab[t].slot : t \in Unclaimed} IN
    /\ \E seen \in SUBSET Unclaimed :
         /\ \A s \in slots : \E t \in seen : tab[t].slot = s
         /\ \A t, u \in seen : tab[t].slot = tab[u].slot => t = u
         /\ terminalSlots' = terminalSlots \cup seen
    /\ openSlots' = openSlots \cup slots
    /\ mapping' = mapping \cup slots

\* Queued sessions with no terminal, once `open` are on screen.
Outstanding(open) == Slots(pendingRestores) \ open

\* refreshRemote: a failed probe keeps the last known guard.
RefreshRemote ==
    \/ attachedRemoteSlots' = Attached \cap session
    \/ "probe" \in Faults /\ UNCHANGED attachedRemoteSlots

\* Mutants of Free: a claimed slot, or one whose kill is in flight, looks free.
FreeDespiteClaim(open, attached) == Slot \ (attached \cup reservedSlots \cup killingSlots)
FreeDespiteKill(open, attached) == Slot \ (open \cup attached \cup reservedSlots)

\* allocateSlot, given the claims and the guard it reads.
Free(open, attached) == Slot \ (open \cup attached \cup reservedSlots \cup killingSlots)

\* Mutant of Reassign: the first claim is never given back.
ReassignKeepingOld(old, new) == openSlots \cup {new}

\* The second probe found the claimed slot taken: swap the claim.
Reassign(old, new) == (openSlots \ {old}) \cup {new}

\* Mutant of Persist: a write asked for while one waits is dropped, its waiter too.
PersistCoalesced(who) ==
    persistChain' = IF persistChain = <<>> THEN <<who>> ELSE persistChain

\* persist() queues a write; the write at the head takes the mapping as it is
\* by then.  The next write runs whether this one lands or not.
Persist(who) == persistChain' = Append(persistChain, who)
CanPersist == Len(persistChain) < MaxWrites

Write(who) ==
    /\ persistChain # <<>> /\ Head(persistChain) = who
    /\ persistChain' = Tail(persistChain)

------------------------------------------------------------------------------
(* initialize(): plan, wait for VS Code's revive, drain. *)

Init ==
    /\ stored \in SUBSET Found
    /\ session \in SUBSET Found
    /\ foreign \in SUBSET (session \cap Shared)
    /\ parked \in (IF PtyReconnect THEN SUBSET (session \cap stored) ELSE {{}})
    /\ mapping = stored
    /\ reservedSlots = stored
    /\ openSlots = {}
    /\ killingSlots = {}
    /\ attachedRemoteSlots = {}
    /\ pendingRestores = <<>>
    /\ persistChain = <<>>
    /\ terminalSlots = {}
    /\ discardedDuplicates = {}
    /\ pass = [p \in Pass |-> IdlePass]
    /\ request = [r \in Requests |-> IdleRequest]
    /\ kills = [s \in Slot |-> 0]
    /\ tab = [t \in Tabs |-> NoTab]

\* initialize() up to the list-sessions of plan().  A reconnect may start it
\* while an earlier run is still going: nothing in the code waits for that.
Initialize(p) ==
    /\ Idle
    /\ pass[p].pc = "idle"
    /\ \A q \in Pass : q < p => Started(q)
    /\ pass' = [pass EXCEPT ![p].pc = "list"]
    /\ pendingRestores' = <<>>
    /\ AdoptRevivedTerminals
    /\ UNCHANGED <<killingSlots, attachedRemoteSlots, reservedSlots, persistChain,
                   discardedDuplicates, stored, request, kills, tab, remote>>

\* plan() resumes with the sessions of the remote, or with none if the probe
\* failed; then every slot with any evidence behind it is resolved in order.
ListSessions(p) ==
    /\ Idle
    /\ pass[p].pc = "list"
    /\ \/ /\ attachedRemoteSlots' = Attached \cap session
          /\ pass' = [pass EXCEPT ![p] = [@ EXCEPT !.pc = "decide", !.todo = mapping \cup session,
                                                   !.seen = [s \in Slot |-> Seen(s)]]]
       \/ /\ "probe" \in Faults
          /\ UNCHANGED attachedRemoteSlots
          /\ pass' = [pass EXCEPT ![p] = [@ EXCEPT !.pc = "decide", !.todo = mapping]]
    /\ UNCHANGED <<mapping, openSlots, killingSlots, reservedSlots, pendingRestores, persistChain,
                   terminalSlots, discardedDuplicates, stored, request, kills, tab, remote>>

Enqueue(s, takeOver, revivable) ==
    pendingRestores' = Append(pendingRestores,
                              [slot |-> s, takeOver |-> takeOver, revivable |-> revivable])

\* One iteration of plan()'s loop, up to the has-session of a restore.
ResolveSlot(p) ==
    /\ pass[p].pc = "decide"
    /\ pass[p].todo # {}
    /\ LET s == First(pass[p].todo)
           action == DecideSlotAction(s \in mapping, s \in openSlots, pass[p].seen[s])
       IN \/ /\ action = "skip"
             /\ pass' = [pass EXCEPT ![p].todo = @ \ {s}]
             /\ UNCHANGED <<mapping, pendingRestores>>
          \/ /\ action = "adopt"
             /\ mapping' = mapping \cup {s}
             /\ Enqueue(s, FALSE, FALSE)
             /\ pass' = [pass EXCEPT ![p].todo = @ \ {s}]
          \/ /\ action \in {"restore", "restore-takeover"}
             /\ pass' = [pass EXCEPT ![p].pc = "probe"]
             /\ UNCHANGED <<mapping, pendingRestores>>
    /\ UNCHANGED <<openSlots, killingSlots, attachedRemoteSlots, reservedSlots, persistChain,
                   terminalSlots, discardedDuplicates, stored, request, kills, tab, remote>>

\* sessionExists answers: queue the slot, forget it, or (the probe failed)
\* leave it mapped.  Whether to evict was decided before the probe.
HasSession(p) ==
    /\ Idle
    /\ pass[p].pc = "probe"
    /\ LET s == First(pass[p].todo) IN
         /\ \/ /\ s \in session
               /\ Enqueue(s, pass[p].seen[s] = "attached", TRUE)
               /\ UNCHANGED mapping
            \/ /\ s \notin session
               /\ mapping' = mapping \ {s}
               /\ UNCHANGED pendingRestores
            \/ "probe" \in Faults /\ UNCHANGED <<mapping, pendingRestores>>
         /\ pass' = [pass EXCEPT ![p].pc = "decide", ![p].todo = @ \ {s}]
    /\ UNCHANGED <<openSlots, killingSlots, attachedRemoteSlots, reservedSlots, persistChain,
                   terminalSlots, discardedDuplicates, stored, request, kills, tab, remote>>

\* The end of plan(): only queued slots stay reserved, and the mapping is saved.
FinishPlan(p) ==
    /\ pass[p].pc = "decide"
    /\ pass[p].todo = {}
    /\ reservedSlots' = Slots(pendingRestores)
    /\ Persist(p)
    /\ pass' = [pass EXCEPT ![p] = [IdlePass EXCEPT !.pc = "save"]]
    /\ UNCHANGED <<mapping, openSlots, killingSlots, attachedRemoteSlots, pendingRestores,
                   terminalSlots, discardedDuplicates, stored, request, kills, tab, remote>>

\* plan()'s write lands, `planning` settles and awaitRevive starts: the wiring
\* run samples what it waits for and sleeps the grace, a reconnect skips it.
PlanSaved(p) ==
    /\ Idle
    /\ pass[p].pc = "save"
    /\ Write(p)
    /\ stored' = mapping
    /\ pass' = [pass EXCEPT ![p] =
                   [@ EXCEPT !.pc = IF p = 1 THEN "grace" ELSE "flush",
                             !.revivable = \E i \in 1..Len(pendingRestores) :
                                              pendingRestores[i].revivable]]
    /\ UNCHANGED <<mapping, openSlots, killingSlots, attachedRemoteSlots, reservedSlots,
                   pendingRestores, terminalSlots, discardedDuplicates, request, kills, tab, remote>>

\* The write is refused: the run ends there, only `finally` still happens.
PlanRejected(p) ==
    /\ Idle
    /\ pass[p].pc = "save"
    /\ "write" \in Faults
    /\ Write(p)
    /\ reservedSlots' = {}
    /\ pass' = [pass EXCEPT ![p].pc = "done"]
    /\ UNCHANGED <<mapping, openSlots, killingSlots, attachedRemoteSlots, pendingRestores,
                   terminalSlots, discardedDuplicates, stored, request, kills, tab, remote>>

\* The grace is over: with nothing a revive could claim, drain at once.
GraceOver(p) ==
    /\ Idle
    /\ pass[p].pc = "grace"
    /\ pass' = [pass EXCEPT ![p].pc = IF pass[p].revivable THEN "watch" ELSE "flush"]
    /\ UNCHANGED <<local, stored, request, kills, tab, remote>>

\* One tick of awaitRevive's loop: done when every queued slot is accounted for.
PollWindow(p) ==
    /\ Idle
    /\ pass[p].pc = "watch"
    /\ AdoptRevivedTerminals
    /\ pass' = [pass EXCEPT ![p].pc = IF Outstanding(openSlots') = {} THEN "flush" ELSE "watch"]
    /\ UNCHANGED <<killingSlots, attachedRemoteSlots, reservedSlots, pendingRestores, persistChain,
                   discardedDuplicates, stored, request, kills, tab, remote>>

\* Mutant of StopWaiting: no tick is the last.
WaitForever(p) == PollWindow(p)

\* A tick on which the quiet period or the deadline has passed.  The clocks
\* are not modelled: any tick may be the last.
StopWaiting(p) ==
    /\ Idle
    /\ pass[p].pc = "watch"
    /\ AdoptRevivedTerminals
    /\ pass' = [pass EXCEPT ![p].pc = "flush"]
    /\ UNCHANGED <<killingSlots, attachedRemoteSlots, reservedSlots, pendingRestores, persistChain,
                   discardedDuplicates, stored, request, kills, tab, remote>>

\* Mutant of TakeQueue: the queue is copied, not spliced.
TakeQueueCopy(p) ==
    /\ Idle
    /\ pass[p].pc = "flush"
    /\ AdoptRevivedTerminals
    /\ pass' = [pass EXCEPT ![p].pc = "drain", ![p].rest = pendingRestores]
    /\ UNCHANGED <<pendingRestores, killingSlots, attachedRemoteSlots, reservedSlots,
                   persistChain, discardedDuplicates, stored, request, kills, tab, remote>>

\* drainPendingRestores takes whatever the queue holds by now.
TakeQueue(p) ==
    /\ Idle
    /\ pass[p].pc = "flush"
    /\ AdoptRevivedTerminals
    /\ pass' = [pass EXCEPT ![p].pc = "drain", ![p].rest = pendingRestores]
    /\ pendingRestores' = <<>>
    /\ UNCHANGED <<killingSlots, attachedRemoteSlots, reservedSlots, persistChain,
                   discardedDuplicates, stored, request, kills, tab, remote>>

\* One iteration of the drain: skip a slot on screen, open its terminal, or
\* (createTerminal throws) leave it for a later run.
Reopen(p) ==
    /\ pass[p].pc = "drain"
    /\ pass[p].rest # <<>>
    /\ pass' = [pass EXCEPT ![p].rest = Tail(@)]
    /\ LET e == Head(pass[p].rest) IN
         \/ /\ e.slot \in openSlots \/ "spawn" \in Faults \/ FreeTabs = {}
            /\ UNCHANGED <<openSlots, tab, remote>>
         \/ /\ e.slot \notin openSlots
            /\ openSlots' = openSlots \cup {e.slot}
            /\ \E t \in FreeTabs : Launch(t, e.slot, e.takeOver)
    /\ UNCHANGED <<mapping, killingSlots, attachedRemoteSlots, reservedSlots, pendingRestores,
                   persistChain, terminalSlots, discardedDuplicates, stored, request, kills>>

\* Mutant of FinishDrain: what the drain adopted is not saved.
FinishDrainUnsaved(p) ==
    /\ pass[p].pc = "drain"
    /\ pass[p].rest = <<>>
    /\ reservedSlots' = {}
    /\ pass' = [pass EXCEPT ![p] = [IdlePass EXCEPT !.pc = "done"]]
    /\ UNCHANGED <<mapping, openSlots, killingSlots, attachedRemoteSlots, pendingRestores,
                   persistChain, terminalSlots, discardedDuplicates, stored, request, kills, tab,
                   remote>>

\* The drain is done: save in the background, drop every reservation.
FinishDrain(p) ==
    /\ pass[p].pc = "drain"
    /\ pass[p].rest = <<>>
    /\ Persist(0)
    /\ reservedSlots' = {}
    /\ pass' = [pass EXCEPT ![p] = [IdlePass EXCEPT !.pc = "done"]]
    /\ UNCHANGED <<mapping, openSlots, killingSlots, attachedRemoteSlots, pendingRestores,
                   terminalSlots, discardedDuplicates, stored, request, kills, tab, remote>>

\* A write nobody waits for.
BackgroundSaved ==
    /\ Idle
    /\ Write(0)
    /\ stored' = mapping \/ ("write" \in Faults /\ UNCHANGED stored)
    /\ UNCHANGED <<mapping, openSlots, killingSlots, attachedRemoteSlots, reservedSlots,
                   pendingRestores, terminalSlots, discardedDuplicates, pass, request, kills,
                   tab, remote>>

------------------------------------------------------------------------------
(* provideTerminalProfile() *)

\* VS Code asks for a profile: a revived terminal, a new one or a split.  The
\* provider is registered after initialize() has been called.
AskProfile(r) ==
    /\ Idle
    /\ request[r].pc = "idle"
    /\ Started(1)
    /\ request' = [request EXCEPT ![r].pc = "gate", ![r].gate = Planning]
    /\ UNCHANGED <<local, stored, pass, kills, tab, remote>>

\* The plan it waited for is settled and the queue holds a session: take it.
ClaimPending(r) ==
    /\ Idle
    /\ request[r].pc = "gate" /\ Planned(request[r].gate)
    /\ pendingRestores # <<>>
    /\ LET e == Head(pendingRestores) IN
         /\ pendingRestores' = Tail(pendingRestores)
         /\ openSlots' = openSlots \cup {e.slot}
         /\ reservedSlots' = reservedSlots \ {e.slot}
         /\ mapping' = mapping \cup {e.slot}
         /\ request' = [request EXCEPT ![r] = [@ EXCEPT !.pc = "save", !.slot = e.slot,
                                                      !.takeOver = e.takeOver]]
    /\ Persist(r)
    /\ UNCHANGED <<killingSlots, attachedRemoteSlots, terminalSlots, discardedDuplicates, stored,
                   pass, kills, tab, remote>>

\* The queue is empty: probe the remote for a new slot.
StartNew(r) ==
    /\ Idle
    /\ request[r].pc = "gate" /\ Planned(request[r].gate)
    /\ pendingRestores = <<>>
    /\ request' = [request EXCEPT ![r].pc = "probe1"]
    /\ UNCHANGED <<local, stored, pass, kills, tab, remote>>

\* The first probe answered: choose and claim the slot in one step.
ChooseSlot(r) ==
    /\ Idle
    /\ request[r].pc = "probe1"
    /\ RefreshRemote
    /\ LET free == Free(openSlots, attachedRemoteSlots') IN
         /\ free # {}
         /\ openSlots' = openSlots \cup {First(free)}
         /\ request' = [request EXCEPT ![r].pc = "probe2", ![r].slot = First(free)]
    /\ UNCHANGED <<mapping, killingSlots, reservedSlots, pendingRestores, persistChain,
                   terminalSlots, discardedDuplicates, stored, pass, kills, tab, remote>>

\* The second probe answered: choose again if the slot was attached since.
ConfirmSlot(r) ==
    /\ Idle
    /\ request[r].pc = "probe2"
    /\ RefreshRemote
    /\ LET old == request[r].slot
           free == Free(openSlots \ {old}, attachedRemoteSlots')
           slot == IF old \in attachedRemoteSlots' THEN First(free) ELSE old
       IN /\ old \in attachedRemoteSlots' => free # {}
          /\ openSlots' = Reassign(old, slot)
          /\ mapping' = mapping \cup {slot}
          /\ request' = [request EXCEPT ![r] = [@ EXCEPT !.pc = "save", !.slot = slot]]
    /\ Persist(r)
    /\ UNCHANGED <<killingSlots, reservedSlots, pendingRestores, terminalSlots,
                   discardedDuplicates, stored, pass, kills, tab, remote>>

\* Mutant of ProfileSaved: the profile is returned before the write has landed.
ProfileUnsaved(r) ==
    /\ Idle
    /\ request[r].pc = "save"
    /\ request' = [request EXCEPT ![r].pc = "granted"]
    /\ UNCHANGED <<local, stored, pass, kills, tab, remote>>

\* The mapping is saved and the profile is returned to VS Code.
ProfileSaved(r) ==
    /\ Idle
    /\ request[r].pc = "save"
    /\ Write(r)
    /\ stored' = mapping
    /\ request' = [request EXCEPT ![r].pc = "granted"]
    /\ UNCHANGED <<mapping, openSlots, killingSlots, attachedRemoteSlots, reservedSlots,
                   pendingRestores, terminalSlots, discardedDuplicates, pass, kills, tab, remote>>

\* The write is refused: the call fails, and its slot stays in openSlots.
ProfileRejected(r) ==
    /\ Idle
    /\ request[r].pc = "save"
    /\ "write" \in Faults
    /\ Write(r)
    /\ request' = [request EXCEPT ![r].pc = "failed"]
    /\ UNCHANGED <<mapping, openSlots, killingSlots, attachedRemoteSlots, reservedSlots, stored,
                   pendingRestores, terminalSlots, discardedDuplicates, pass, kills, tab, remote>>

------------------------------------------------------------------------------
(* The window: tabs open, close, and old ptys reconnect. *)

\* VS Code starts the terminal of a returned profile.
SpawnTab(r) ==
    /\ Idle
    /\ request[r].pc = "granted"
    /\ \E t \in FreeTabs : Launch(t, request[r].slot, request[r].takeOver)
    /\ request' = [request EXCEPT ![r] = [IdleRequest EXCEPT !.pc = "done"]]
    /\ UNCHANGED <<local, stored, pass, kills>>

\* VS Code puts a pty of the last window back on screen, asking nobody.
ReconnectPty(s) ==
    /\ Idle
    /\ s \in parked
    /\ \E t \in FreeTabs : tab' = [tab EXCEPT ![t] = [st |-> "born", slot |-> s, ending |-> "no"]]
    /\ parked' = parked \ {s}
    /\ UNCHANGED <<local, stored, pass, request, kills, session, foreign>>

\* handleTerminalOpened: record the tab, or dispose it as a duplicate of a
\* recorded one (dispose may throw, and then the tab stays, unrecorded).
TabOpened(t) ==
    /\ Idle
    /\ tab[t].st = "born"
    /\ LET s == tab[t].slot
           known == t \in terminalSlots
           held == \E h \in terminalSlots : tab[h].slot = s
       IN \/ /\ known
             /\ tab' = [tab EXCEPT ![t].st = "open"]
             /\ UNCHANGED <<terminalSlots, openSlots, discardedDuplicates>>
          \/ /\ ~known /\ held
             /\ tab' = [tab EXCEPT ![t].st = "open",
                                  ![t].ending = IF @ = "no" THEN "dispose" ELSE @]
             /\ discardedDuplicates' = discardedDuplicates \cup {t}
             /\ UNCHANGED <<terminalSlots, openSlots>>
          \/ /\ ~known /\ held /\ "dispose" \in Faults
             /\ tab' = [tab EXCEPT ![t].st = "open"]
             /\ UNCHANGED <<terminalSlots, openSlots, discardedDuplicates>>
          \/ /\ ~known /\ ~held
             /\ tab' = [tab EXCEPT ![t].st = "open"]
             /\ terminalSlots' = terminalSlots \cup {t}
             /\ openSlots' = openSlots \cup {s}
             /\ UNCHANGED discardedDuplicates
    /\ UNCHANGED <<mapping, killingSlots, attachedRemoteSlots, reservedSlots, pendingRestores,
                   persistChain, stored, pass, request, kills, remote>>

\* The user closes a tab: its client goes at once, the event follows.
UserCloses(t) ==
    /\ Idle
    /\ t \in Closable
    /\ tab[t].st = "open" /\ tab[t].ending = "no"
    /\ kills[tab[t].slot] < MaxKills
    /\ tab' = [tab EXCEPT ![t].ending = "user"]
    /\ UNCHANGED <<local, stored, pass, request, kills, remote>>

\* handleTerminalClosed: an explicit close kills the session, any other keeps
\* it; a discarded or unknown tab changes nothing.  killSlotSession holds the
\* slot while the kill travels.
TabClosed(t) ==
    /\ Idle
    /\ tab[t].st = "open" /\ tab[t].ending # "no"
    /\ LET s == tab[t].slot
           ours == t \in terminalSlots /\ t \notin discardedDuplicates
           explicit == ours /\ tab[t].ending = "user"
       IN /\ discardedDuplicates' = discardedDuplicates \ {t}
          /\ terminalSlots' = IF ours THEN terminalSlots \ {t} ELSE terminalSlots
          /\ openSlots' = IF ours THEN openSlots \ {s} ELSE openSlots
          /\ mapping' = IF explicit THEN mapping \ {s} ELSE mapping
          /\ IF explicit /\ s \in mapping
               THEN /\ kills[s] < MaxKills
                    /\ killingSlots' = killingSlots \cup {s}
                    /\ kills' = [kills EXCEPT ![s] = @ + 1]
               ELSE UNCHANGED <<killingSlots, kills>>
          /\ IF explicit
               THEN CanPersist /\ Persist(0)
               ELSE UNCHANGED persistChain
    /\ tab' = [tab EXCEPT ![t] = [NoTab EXCEPT !.st = "gone"]]
    /\ UNCHANGED <<attachedRemoteSlots, reservedSlots, pendingRestores, stored, pass, request,
                   remote>>

\* Mutant of KillSettles: `finally` runs for a kill that was never sent.
KillSettlesUnsent(s) ==
    /\ Idle
    /\ kills' = [kills EXCEPT ![s] = @ - 1]
    /\ killingSlots' = killingSlots \ {s}
    /\ UNCHANGED <<mapping, openSlots, attachedRemoteSlots, reservedSlots, pendingRestores,
                   persistChain, terminalSlots, discardedDuplicates, stored, pass, request, tab,
                   remote>>

\* kill-session settles: it reached the server, or the channel failed.
\* Either way `finally` releases the hold.
KillSettles(s) ==
    /\ Idle
    /\ kills[s] > 0
    /\ kills' = [kills EXCEPT ![s] = @ - 1]
    /\ killingSlots' = killingSlots \ {s}
    /\ \/ /\ session' = session \ {s}
          /\ foreign' = foreign \ {s}
          /\ parked' = parked \ {s}
          /\ tab' = Exits({s})
       \/ "probe" \in Faults /\ UNCHANGED <<session, foreign, parked, tab>>
    /\ UNCHANGED <<mapping, openSlots, attachedRemoteSlots, reservedSlots, pendingRestores,
                   persistChain, terminalSlots, discardedDuplicates, stored, pass, request>>

------------------------------------------------------------------------------
(* The rest of the remote. *)

\* The process in the session ends, and remain-on-exit off ends the session.
ProcessExits(s) ==
    /\ Idle
    /\ s \in session
    /\ session' = session \ {s}
    /\ foreign' = foreign \ {s}
    /\ parked' = parked \ {s}
    /\ tab' = Exits({s})
    /\ UNCHANGED <<local, stored, pass, request, kills>>

\* Another machine opens this workspace's slot, evicting us or not.
ForeignAttaches(s) ==
    /\ Idle
    /\ s \in Shared \ foreign
    /\ session' = session \cup {s}
    /\ foreign' = foreign \cup {s}
    /\ \/ UNCHANGED <<tab, parked>>
       \/ tab' = Exits({s}) /\ parked' = parked \ {s}
    /\ UNCHANGED <<local, stored, pass, request, kills>>

\* Another machine's window goes away; its session stays.
ForeignDetaches(s) ==
    /\ Idle
    /\ s \in foreign
    /\ foreign' = foreign \ {s}
    /\ UNCHANGED <<local, stored, pass, request, kills, tab, session, parked>>

------------------------------------------------------------------------------

Provider(p) ==
    \/ ListSessions(p) \/ ResolveSlot(p) \/ HasSession(p) \/ FinishPlan(p) \/ PlanSaved(p)
    \/ PlanRejected(p)
    \/ GraceOver(p) \/ StopWaiting(p) \/ TakeQueue(p) \/ Reopen(p) \/ FinishDrain(p)

Answer(r) ==
    \/ ClaimPending(r) \/ StartNew(r) \/ ChooseSlot(r) \/ ConfirmSlot(r) \/ ProfileSaved(r)
    \/ ProfileRejected(r)

Next ==
    \/ \E p \in Pass : Initialize(p) \/ PollWindow(p) \/ Provider(p)
    \/ \E r \in Requests : AskProfile(r) \/ Answer(r) \/ SpawnTab(r)
    \/ \E t \in Tabs : TabOpened(t) \/ UserCloses(t) \/ TabClosed(t)
    \/ \E s \in Slot : ReconnectPty(s) \/ KillSettles(s) \/ ProcessExits(s)
    \/ \E s \in Slot : ForeignAttaches(s) \/ ForeignDetaches(s)
    \/ BackgroundSaved

Spec == Init /\ [][Next]_vars

\* Promises settle, timers fire, remote commands answer or fail, and VS Code
\* starts the terminal of a profile it asked for.
Fairness ==
    /\ \A p \in Pass : WF_vars(Provider(p))
    /\ \A r \in Requests : WF_vars(Answer(r)) /\ WF_vars(SpawnTab(r))
    /\ WF_vars(BackgroundSaved)

FairSpec == Spec /\ Fairness

------------------------------------------------------------------------------
(* Properties *)

LocalTypeOK ==
    /\ mapping \subseteq Slot
    /\ openSlots \subseteq Slot
    /\ killingSlots \subseteq Slot
    /\ attachedRemoteSlots \subseteq Slot
    /\ reservedSlots \subseteq Slot
    /\ pendingRestores \in Seq(Entry)
    /\ persistChain \in Seq(Requests \cup (0..MaxPass))
    /\ terminalSlots \subseteq Tabs
    /\ discardedDuplicates \subseteq Tabs

PassTypeOK ==
    /\ pass \in [Pass -> PassState]
    \* A run waits for has-session only about a slot it has left to resolve.
    /\ \A p \in Pass : pass[p].pc = "probe" => pass[p].todo # {}

CallTypeOK ==
    /\ request \in [Requests -> RequestState]
    /\ kills \in [Slot -> Nat]

OutsideTypeOK ==
    /\ stored \subseteq Slot
    /\ tab \in [Tabs -> TabState]
    /\ session \subseteq Slot
    /\ foreign \subseteq session
    /\ parked \subseteq session

\* The shape of every variable.
TypeOK == LocalTypeOK /\ PassTypeOK /\ CallTypeOK /\ OutsideTypeOK

Holding(s) == {r \in Requests : request[r].pc \in {"probe2", "save", "granted"} /\ request[r].slot = s}
Showing(s) == {t \in Connected : tab[t].slot = s}

\* Two terminals of the window never share a session: the slot of a live tab or
\* of a profile about to become one has no second holder (terminalProvider.ts:
\* 412-415, the mirrored tabs that claiming in the choosing step prevents).
OneTabPerSession ==
    \A s \in Slot :
        /\ \A q, r \in Holding(s) : q = r
        /\ \A t, u \in Showing(s) : t = u
        /\ Holding(s) = {} \/ Showing(s) = {}

\* A kill in flight never hits a session the window uses or is about to use:
\* killingSlots keeps the name out of reach until the kill has landed
\* (terminalProvider.ts:634-640).
KillTargetsNoTab ==
    \A s \in Slot : kills[s] > 0 => Holding(s) = {} /\ Showing(s) = {}

\* The next window finds every session this one shows: a terminal starts only
\* once its slot is in workspaceState, and later writes keep it there.
WriteAhead ==
    \A s \in Slot \ stored :
        Showing(s) = {} /\ \A r \in Holding(s) : request[r].pc # "granted"

\* What SessionOwner sees of a window.
Holders == [s \in Slot |-> Holding(s)]
Viewers == [s \in Slot |-> {t \in Shown : tab[t].slot = s}]
Killed == {s \in Slot : kills[s] > 0}
Owner == INSTANCE SessionOwner WITH
            holders <- Holders, viewers <- Viewers, dying <- Killed, saved <- stored

\* A window does to its sessions only what SessionOwner allows: who is given one
\* next, that the next window would find what is shown (terminalProvider.ts:
\* 412-415 and 570), and that only the session of a tab that closed is killed,
\* and nobody is given it before that is over (634-640).
KeepsOwnership == Owner!Spec

\* Between two callbacks openSlots holds the slots in use and no other, so a
\* closed slot is reused and nothing in use looks free.  The one leak is the
\* slot of a profile request whose write was refused.
OpenSlotsExact ==
    Idle => openSlots = {s \in Slot : Holding(s) # {}}
                          \cup {tab[t].slot : t \in Shown}
                          \cup {request[r].slot : r \in {q \in Requests : request[q].pc = "failed"}}

\* Once every run of initialize() has ended, no slot stays reserved and no
\* session stays queued, where it would turn the user's next "New Terminal" into
\* a re-attach (terminalProvider.ts:316-320); a refused write ends a run early
\* and may leave the queue.
ReservationsReleased ==
    (Started(1) /\ \A p \in Pass : pass[p].pc \in {"idle", "done"})
        => /\ reservedSlots = {}
           /\ "write" \in Faults \/ pendingRestores = <<>>

\* When every write has landed and no run or request is half-way, workspaceState
\* is the mapping, whatever order the writes were asked for in.
MappingPersisted ==
    ( /\ persistChain = <<>>
      /\ \A p \in Pass : pass[p].pc \in {"idle", "done"}
      /\ "write" \notin Faults ) => stored = mapping

\* Discarding a duplicate leaves the terminal it duplicated: some other tab of
\* the slot is still alive (terminalProvider.ts:711-713, "The slot is still held
\* by the terminal we kept").
DiscardKeepsOne ==
    [][\A t \in Tabs : tab[t].ending = "no" /\ tab'[t].ending = "dispose"
         => \E u \in Tabs \ {t} : tab[u].slot = tab[t].slot /\ u \in Connected]_vars

\* A request for a terminal is answered: neither the revive window nor the plan
\* waits for something that waits for the request (terminalProvider.ts:298-306, :554).
RequestAnswered ==
    \A r \in Requests : request[r].pc = "gate" ~> request[r].pc \in {"granted", "failed"}

\* A session queued for a terminal gets one, from VS Code's revive or from the
\* drain, whatever a second pass queues meanwhile; unless the session ends, the
\* user closes its terminal, or Tabs has no more.
SurvivorReturns ==
    \A s \in Slot :
        s \in Slots(pendingRestores)
            ~> \/ s \notin session \ killingSlots
               \/ \E t \in Shown : tab[t].slot = s
               \/ \A t \in Tabs : tab[t].st = "gone"

==============================================================================
