----------------------------- MODULE TmuxLayer -----------------------------
(***************************************************************************)
(* What activate() and the callback after every successful resolve         *)
(* (src/src/extension.ts) make of the terminals of a window: who answers   *)
(* for the profile id "tmux" (src/src/tmux/profileRegistration.ts), the    *)
(* provider and its listeners, the default profile in the settings of the  *)
(* folder, and the SessionReaper (src/src/tmux/sessionReaper.ts).          *)
(*                                                                         *)
(* The windows show one folder of one host: they share its settings file   *)
(* and the tmux sessions, and nothing else.  wireTmuxTerminalLayer has no  *)
(* await in it, so wiring is one action; writing the settings and running  *)
(* tmux go on after it.  A capability that says unavailable, `enabled` and *)
(* a window without a folder are all one gate that is shut.                *)
(***************************************************************************)
EXTENDS Integers, FiniteSets, Sequences

CONSTANTS
    Windows,
    Own,         \* sessions of this workspace
    Sibling,     \* of other workspaces, named by this extension too; they and
    Foreign,     \* the user's own only change when something here kills them
    Left,        \* what earlier connections may have left of each session
    Jobs,        \* runs of a reaper at a time, of all windows
    UserScopes,  \* scopes the user may change meanwhile
    MaxMade,     \* providers one window constructs
    MaxWrites,   \* settings writes of a window in flight
    MaxGen,      \* sessions ever created under one name
    MaxMishaps   \* throws, failed commands, refused writes and reloads

Names == Own \cup Sibling \cup Foreign

ASSUME TmuxLayerAssumption ==
    /\ Own \cap Sibling = {} /\ Own \cap Foreign = {} /\ Sibling \cap Foreign = {}
    /\ Left \subseteq [Names -> {"none", "live", "corpse"}]
    /\ UserScopes \subseteq {"global", "workspace", "folder"}
    /\ MaxMade \in Nat /\ MaxWrites \in Nat /\ MaxGen \in Nat /\ MaxMishaps \in Nat

VARIABLES
    profile,    \* each window: who is registered for the id
    layer,      \* each window: the provider of the layer, or 0, and its reapOnConnect
    listening,  \* each window: providers that hear of terminals opened and closed
    made,       \* each window: providers constructed, numbered from 1
    setting,    \* terminal.integrated.defaultProfile in its three scopes
    writing,    \* each window: its updates of the Workspace scope in flight
    job,        \* runs of reap() and killWorkspaceSessions()
    session,    \* each session of the remote; gen tells its namesakes apart
    mishaps     \* how much may still go wrong

wiring == <<profile, layer, listening, made>>
vars == <<wiring, setting, writing, job, session, mishaps>>

\* Who may be registered for the id, besides a provider by its number.
Fallback == 0
Nobody == -1

NoLayer == [provider |-> 0, reaps |-> FALSE]
NoJob == [kind |-> "none", of |-> {}, pc |-> "idle", doomed |-> {}]
Settings == [global: {"unset", "users"}, workspace: {"unset", "users", "ours"},
           folder: {"unset", "users"}]

\* A window starts with the fallback registered, among the sessions that earlier
\* connections left.
Init ==
    /\ profile = [w \in Windows |-> Fallback]
    /\ layer = [w \in Windows |-> NoLayer]
    /\ listening = [w \in Windows |-> {}]
    /\ made = [w \in Windows |-> 0]
    /\ setting \in {s \in Settings : s.folder = "unset"}
    /\ writing = [w \in Windows |-> <<>>]
    /\ job = [j \in Jobs |-> NoJob]
    /\ \E left \in Left :
          session = [n \in Names |-> [st |-> left[n], by |-> {}, gen |-> 0,
                                      old |-> left[n] # "none"]]
    /\ mishaps = MaxMishaps

Mishap == mishaps > 0 /\ mishaps' = mishaps - 1

------------------------------------------------------------------------------
(* The default profile. *)

\* Mutant of DecideDefaultProfile: a value of the user is taken for a stale one.
DecideAnyStale(scopes, wired) ==
    IF wired
      THEN IF scopes.global = "unset" /\ scopes.workspace = "unset" /\ scopes.folder = "unset"
             THEN "set" ELSE "none"
      ELSE IF scopes.workspace # "unset" THEN "clear" ELSE "none"

\* Set only where nobody chose, clear only what this extension wrote.
DecideDefaultProfile(scopes, wired) ==
    CASE wired /\ {scopes.global, scopes.workspace, scopes.folder} = {"unset"} -> "set"
      [] ~wired /\ scopes.workspace = "ours" -> "clear"
      [] OTHER -> "none"

\* reconcileDefaultTerminalProfile: inspect, decide, and ask for an update that
\* is not waited for.  setDefaultProfile withholds the set and not the clear.
Reconcile(w, wired, setDefault) ==
    LET action == DecideDefaultProfile(setting, wired) IN
    IF action = "none" \/ (action = "set" /\ ~setDefault)
      THEN UNCHANGED writing
      ELSE /\ Len(writing[w]) < MaxWrites
           /\ writing' = [writing EXCEPT ![w] = Append(@, [do |-> action, over |-> setting])]

------------------------------------------------------------------------------
(* Wiring *)

\* Mutant of Use: the new provider is registered before the old one is disposed.
UseRegisteringFirst(held, p) ==
    IF held = Nobody THEN [held |-> p, throws |-> FALSE] ELSE [held |-> held, throws |-> TRUE]

\* TerminalProfileRegistration.use on VS Code's registrar, which throws when the
\* id is taken: the previous registration is disposed first.
Use(held, p) == [held |-> p, throws |-> FALSE]

\* Mutant of RolledBack: the listeners went straight to context.subscriptions.
RolledBackNot(live, p) == live

\* disposeAll(wired): every listener of the attempt goes.
RolledBack(live, p) == live \ {p}

Reap(w) ==
    \E j \in Jobs :
        /\ job[j].pc = "idle"
        /\ job' = [job EXCEPT ![j] = [kind |-> "reap", of |-> {w}, pc |-> "list", doomed |-> {}]]

ReapIf(w, reaps) == IF reaps THEN Reap(w) ELSE UNCHANGED job

\* The attempt is given up: the provider has been started and stays started.
GiveUp(w, p, held) ==
    /\ profile' = [profile EXCEPT ![w] = held]
    /\ listening' = [listening EXCEPT ![w] = RolledBack(@ \cup {p}, p)]
    /\ UNCHANGED <<layer, writing, job>>

\* wireTmuxTerminalLayer with every gate open: listeners, initialize(), the
\* profile id, the default, the reaper.  It may throw at the registrar, which
\* leaves the id to nobody, and at the settings.
Wire(w, reaps, setDefault) ==
    LET p == made[w] + 1
        used == Use(profile[w], p)
    IN /\ layer[w].provider = 0
       /\ p <= MaxMade
       /\ made' = [made EXCEPT ![w] = p]
       /\ \/ /\ ~used.throws
             /\ profile' = [profile EXCEPT ![w] = used.held]
             /\ listening' = [listening EXCEPT ![w] = @ \cup {p}]
             /\ layer' = [layer EXCEPT ![w] = [provider |-> p, reaps |-> reaps]]
             /\ Reconcile(w, TRUE, setDefault)
             /\ ReapIf(w, reaps)
             /\ UNCHANGED mishaps
          \/ used.throws /\ GiveUp(w, p, used.held) /\ UNCHANGED mishaps
          \/ Mishap /\ GiveUp(w, p, Nobody)
          \/ Mishap /\ ~used.throws /\ GiveUp(w, p, used.held)
       /\ UNCHANGED <<setting, session>>

\* A gate is shut: only a default this extension wrote earlier is taken back.
\* The settings may throw here too; nothing has been built yet.
Skip(w) ==
    /\ layer[w].provider = 0
    /\ \/ Reconcile(w, FALSE, FALSE) /\ UNCHANGED mishaps
       \/ Mishap /\ UNCHANGED writing
    /\ UNCHANGED <<wiring, setting, job, session>>

\* The layer stands: a reconnect re-plans (TerminalProvider) and reaps again, by
\* the setting as it was when the layer was wired.
Refresh(w) ==
    /\ layer[w].provider # 0
    /\ ReapIf(w, layer[w].reaps)
    /\ UNCHANGED <<wiring, setting, writing, session, mishaps>>

\* The callback after a successful resolve().
ResolveSucceeded(w) ==
    \/ Refresh(w)
    \/ Skip(w)
    \/ \E reaps, setDefault \in BOOLEAN : Wire(w, reaps, setDefault)

\* VS Code's write of an update, or its refusal.
Land(w) ==
    /\ writing[w] # <<>>
    /\ writing' = [writing EXCEPT ![w] = Tail(@)]
    /\ \/ /\ setting' = [setting EXCEPT !.workspace =
                            IF Head(writing[w]).do = "set" THEN "ours" ELSE "unset"]
          /\ UNCHANGED mishaps
       \/ Mishap /\ UNCHANGED setting
    /\ UNCHANGED <<wiring, job, session>>

\* The window reloads: its listeners, runs and unwritten updates are gone, its
\* tmux clients detach, and activate() registers the fallback.
Reload(w) ==
    /\ Mishap
    /\ profile' = [profile EXCEPT ![w] = Fallback]
    /\ layer' = [layer EXCEPT ![w] = NoLayer]
    /\ listening' = [listening EXCEPT ![w] = {}]
    /\ made' = [made EXCEPT ![w] = 0]
    /\ writing' = [writing EXCEPT ![w] = <<>>]
    /\ job' = [j \in Jobs |-> IF job[j].of = {w} THEN NoJob ELSE job[j]]
    /\ session' = [n \in Names |-> [session[n] EXCEPT !.by = @ \ {w}]]
    /\ UNCHANGED setting

------------------------------------------------------------------------------
(* The reaper *)

\* Mutant of ShouldReap: any detached session that is old enough.
ShouldReapDetached(n) ==
    /\ n \in Own \cup Sibling
    /\ session[n].by = {}
    /\ session[n].st # "none"
    /\ session[n].old

\* A corpse of this extension, detached, past the grace.
ShouldReap(n) ==
    /\ n \in Own \cup Sibling
    /\ session[n].by = {}
    /\ session[n].st = "corpse"
    /\ session[n].old

\* Mutant of ToKill: a name of this extension is a name of this workspace.
ToKillAnyOwned(n) == n \in Own \cup Sibling /\ session[n].st # "none"

\* A session whose name is a slot of this workspace.
ToKill(n) == n \in Own /\ session[n].st # "none"

\* The command, confirmed by the user.
KillCommand(w) ==
    /\ \E j \in Jobs :
          /\ job[j].pc = "idle"
          /\ job' = [job EXCEPT ![j] = [kind |-> "kill", of |-> {w}, pc |-> "list", doomed |-> {}]]
    /\ UNCHANGED <<wiring, setting, writing, session, mishaps>>

\* list-sessions, and who is to be killed.  A failed listing ends the run.
List(j) ==
    /\ job[j].pc = "list"
    /\ \/ LET doomed == {n \in Names : IF job[j].kind = "reap" THEN ShouldReap(n) ELSE ToKill(n)}
          IN /\ job' = [job EXCEPT ![j] = IF doomed = {} THEN NoJob
                                          ELSE [@ EXCEPT !.pc = "kill",
                                                !.doomed = {<<n, session[n].gen>> : n \in doomed}]]
             /\ UNCHANGED mishaps
       \/ Mishap /\ job' = [job EXCEPT ![j] = NoJob]
    /\ UNCHANGED <<wiring, setting, writing, session>>

\* Mutant of AfterKill: a kill that fails ends the run.
AfterKillAbort(j, d, sent) ==
    IF sent /\ job[j].doomed # {d} THEN [job[j] EXCEPT !.doomed = @ \ {d}] ELSE NoJob

\* Mutant of AfterKill: the end of the list is not noticed.
AfterKillOverrun(j, d, sent) == [job[j] EXCEPT !.doomed = @ \ {d}]

\* The loop goes on, whether the command was delivered or not.
AfterKill(j, d, sent) ==
    IF job[j].doomed # {d} THEN [job[j] EXCEPT !.doomed = @ \ {d}] ELSE NoJob

\* kill-session of the next name.  Whoever has the name by now is killed.
Kill(j) ==
    /\ job[j].pc = "kill"
    /\ \E d \in job[j].doomed, sent \in BOOLEAN :
          /\ job' = [job EXCEPT ![j] = AfterKill(j, d, sent)]
          /\ IF sent
               THEN /\ session' = [session EXCEPT ![d[1]] =
                                      [@ EXCEPT !.st = "none", !.by = {}, !.old = FALSE]]
                    /\ UNCHANGED mishaps
               ELSE Mishap /\ UNCHANGED session
    /\ UNCHANGED <<wiring, setting, writing>>

------------------------------------------------------------------------------
(* Around it *)

\* The user edits the settings; for the folder's own, so may a window of another
\* machine that shows the folder, and leave its default there.
UserChooses(scope, value) ==
    /\ value = "ours" => scope = "workspace"
    /\ setting' = [setting EXCEPT ![scope] = value]
    /\ setting' # setting
    /\ UNCHANGED <<wiring, writing, job, session, mishaps>>

\* A terminal of a started provider runs `new-session -A`: it attaches to the
\* session of the name, corpse or not, or creates it.
Open(w, n) ==
    /\ made[w] # 0
    /\ w \notin session[n].by
    /\ \/ /\ session[n].st # "none"
          /\ session' = [session EXCEPT ![n].by = @ \cup {w}]
       \/ /\ session[n].st = "none"
          /\ session[n].gen < MaxGen
          /\ session' = [session EXCEPT ![n] = [st |-> "live", by |-> {w}, old |-> FALSE,
                                                gen |-> session[n].gen + 1]]
    /\ UNCHANGED <<wiring, setting, writing, job, mishaps>>

Detach(w, n) ==
    /\ w \in session[n].by
    /\ session' = [session EXCEPT ![n].by = @ \ {w}]
    /\ UNCHANGED <<wiring, setting, writing, job, mishaps>>

\* The process in the pane exits: the session ends, or stays as a corpse.
Dies(n) ==
    /\ session[n].st = "live"
    /\ session' \in {[session EXCEPT ![n].st = "corpse"],
                     [session EXCEPT ![n] = [@ EXCEPT !.st = "none", !.by = {}, !.old = FALSE]]}
    /\ UNCHANGED <<wiring, setting, writing, job, mishaps>>

\* The grace of ten seconds is over.
Ages(n) ==
    /\ session[n].st # "none"
    /\ ~session[n].old
    /\ session' = [session EXCEPT ![n].old = TRUE]
    /\ UNCHANGED <<wiring, setting, writing, job, mishaps>>

Around ==
    \/ \E scope \in UserScopes, value \in {"unset", "users", "ours"} :
          UserChooses(scope, value)
    \/ \E w \in Windows, n \in Own : Open(w, n) \/ Detach(w, n)
    \/ \E n \in Own : Dies(n) \/ Ages(n)

Next ==
    \/ \E w \in Windows : ResolveSucceeded(w) \/ Land(w) \/ Reload(w) \/ KillCommand(w)
    \/ \E j \in Jobs : List(j) \/ Kill(j)
    \/ Around

Spec == Init /\ [][Next]_vars

\* tmux answers, or the connection is lost and the command fails.
Fairness == \A j \in Jobs : WF_vars(List(j) \/ Kill(j))
FairSpec == Spec /\ Fairness

------------------------------------------------------------------------------
(* Properties *)

WiringTypeOK ==
    /\ made \in [Windows -> 0..MaxMade]
    /\ profile \in [Windows -> Nobody..MaxMade]
    /\ layer \in [Windows -> [provider: 0..MaxMade, reaps: BOOLEAN]]
    /\ listening \in [Windows -> SUBSET (1..MaxMade)]
    \* No number is used before its provider is made.
    /\ \A w \in Windows : profile[w] <= made[w] /\ layer[w].provider <= made[w]

SettingTypeOK ==
    /\ setting \in Settings
    /\ writing \in [Windows -> Seq([do: {"set", "clear"}, over: Settings])]

RemoteTypeOK ==
    /\ session \in [Names -> [st: {"none", "live", "corpse"}, by: SUBSET Windows,
                              gen: 0..MaxGen, old: BOOLEAN]]
    /\ job \in [Jobs -> [kind: {"none", "reap", "kill"}, of: SUBSET Windows,
                         pc: {"idle", "list", "kill"}, doomed: SUBSET (Names \X (0..MaxGen))]]
    \* A run is at its kills for as long as it has some left.
    /\ \A j \in Jobs : job[j].pc = "kill" <=> job[j].doomed # {}
    /\ mishaps \in 0..MaxMishaps

\* The shape of every variable.
TypeOK == WiringTypeOK /\ SettingTypeOK /\ RemoteTypeOK

\* However often wiring failed before, a layer that stands has one pair of
\* listeners, its own, and the profile id; and without a layer nothing listens
\* (extension.ts:221-230, the second pair a retry would stack).
LayerIsWhole ==
    \A w \in Windows :
        IF layer[w].provider = 0 THEN listening[w] = {}
        ELSE listening[w] = {layer[w].provider} /\ profile[w] = layer[w].provider

\* Wiring in which nothing fails is kept, whoever held the id before: the
\* fallback, nobody, or the provider of a failed attempt (profileRegistration.ts:5-13).
WiringSucceeds ==
    [][\A w \in Windows : made'[w] > made[w] /\ mishaps' = mishaps
                            => layer'[w].provider = made'[w]]_vars

Effective(scopes) ==
    CASE scopes.folder # "unset"    -> scopes.folder
      [] scopes.folder = "unset" /\ scopes.workspace # "unset" -> scopes.workspace
      [] OTHER                      -> scopes.global

\* No window takes the user's default away, in whatever scope it was chosen, by an
\* update that meets the settings it was decided on (extension.ts:558-560).
UserDefaultKept ==
    [][\A w \in Windows :
         ( /\ writing[w] # <<>>
           /\ writing'[w] = Tail(writing[w])
           /\ Head(writing[w]).over = setting
           /\ Effective(setting) = "users" ) => Effective(setting') = "users"]_vars

\* A kill of run j reaches the session it was decided for.
Hits(j, d) ==
    /\ d \in job[j].doomed /\ d \notin job'[j].doomed
    /\ session[d[1]].gen = d[2]
    /\ session[d[1]].st # "none" /\ session'[d[1]].st = "none"

\* A run of reap() never ends a session with a live pane, nor the user's own,
\* whoever attaches, dies or is created while it works off its list
\* (tmuxSession.ts:328-332); only a namesake created in the meantime can be hit.
ReaperSparesLive ==
    [][\A j \in Jobs : \A d \in job[j].doomed :
         job[j].kind = "reap" /\ Hits(j, d)
           => session[d[1]].st = "corpse" /\ d[1] \notin Foreign]_vars

\* The command ends no session of another workspace and none of the user's own.
CommandKeepsToWorkspace ==
    [][\A j \in Jobs : \A d \in job[j].doomed :
         job[j].kind = "kill" /\ Hits(j, d) => d[1] \in Own]_vars

\* A kill that fails aborts none of the others: of the corpses a run has listed,
\* more than the failures still to come, one at least is killed or gets a client;
\* unless the window reloads (sessionReaper.ts:93-94).
CorpseReaped ==
    \A j \in Jobs, w \in Windows, A \in SUBSET (Own \cup Sibling) :
        ( /\ job[j].kind = "reap" /\ job[j].of = {w} /\ job[j].pc = "kill"
          /\ A = {d[1] : d \in job[j].doomed}
          /\ \A n \in A : ShouldReap(n)
          /\ Cardinality(A) > mishaps )
            ~> (made[w] = 0 \/ \E n \in A : ~ShouldReap(n))

=============================================================================
