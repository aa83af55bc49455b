# Verification of open-remote-ssh-tmux

TLA+ models of this VS Code extension, the TLC runs that check them and TLAPS
proofs of what matters most. Paths are relative to the repository root; line
numbers are those of the modelled commit.

The extension resolves `ssh-remote+host` authorities (it connects over SSH,
installs and starts a VS Code server on the host, and forwards its port) and
backs every terminal of the remote window by a tmux session on the host, so that
the session survives a reload, a lost connection or a move to another machine.

## 1. The system

| Component | State it keeps | Operations | Talks to |
|---|---|---|---|
| `src/tmux/terminalProvider.ts` | slot mapping (and its copy in workspaceState), open, reserved, killing and remotely attached slots, restore queue, persist chain, tabs on record | `initialize` (plan, wait for revive, drain), `provideTerminalProfile`, open and close handlers | VS Code window, tmux over SSH exec, Memento |
| `src/tmux/slotState.ts` | none | `decideSlotAction` | provider |
| `src/tmux/tmuxSession.ts` | none | session names, argv, `parseListSessions`, `shouldReap` | provider, reaper |
| `src/tmux/sessionReaper.ts` | none (the remote server's) | `reap`, `killWorkspaceSessions` | tmux over SSH exec |
| `src/tmux/profileRegistration.ts`, `fallbackTerminalProvider.ts` | which provider answers | `use`, `dispose` | extension, VS Code |
| `src/tmux/tmuxBootstrap.ts` | none | `probeTmux` | SSH exec |
| `src/extension.ts` | the one tmux layer of the window, its subscriptions | `activate`, `wireTmuxTerminalLayer`, `refresh`, `onceOnly` | all |
| `src/authResolver.ts` | current connection, proxy hops, ProxyCommand child, tunnels, SOCKS tunnel | `resolve` (one attempt), teardown, `openTunnel`, auth handler, host verifier | SSH, VS Code |
| `src/ssh/sshConnection.ts` | cached connect promise, client, active tunnels | `connect`, `exec`, `forwardOut`, `addTunnel`, `closeTunnel`, `close` | ssh2, net |
| `src/ssh/hostfile.ts` | the known_hosts file | verify and add a host key | file system, user prompt |
| `src/serverSetup.ts`, `src/scripts/server-setup.{sh,ps1}` | the host's install directory, pid, token and log files, lock | install, start or reuse the server | SSH exec |
| `src/remoteLocationHistory.ts`, `src/hostTreeView.ts`, `src/commands.ts` | globalState history; tree | add, remove, commands | VS Code |
| `src/common/envCollection.ts`, `disposable.ts` | applied variables; disposables | apply the difference; dispose all | VS Code |
| `src/clipboard/*`, the paste command of `src/extension.ts` | temporary file, panel of the webview, images on the remote | capture, webview, upload, sweep, paste of text | helper processes, remote file system, terminal |
| `src/ssh/{identityFiles,sshConfig,sshDestination}.ts`, `fetchRelease.ts`, `serverConfig.ts`, `common/{files,logger,shellQuote,platform,ports}.ts` | none | parsing, reading, formatting | file system |

What is hard in this code: one extension-host thread runs many promises that
interleave at every `await`; VS Code's own revive of terminals races the
provider's; other windows and other machines share the tmux server, the known
hosts file and the server install; remote commands are lost or late; a reload or
a drop may come between any two steps.

What makes each part correct:

- provider: no two terminals share a session; a kill never hits a session in use;
  what is shown is in workspaceState first; a closed slot is reused and a used one
  is not; a queued session comes back exactly once; nothing waits in a circle;
- resolver and connection: a new attempt releases everything an earlier one
  allocated, whatever it was doing; the result returned is of live handles;
- server setup: runs on one host leave one server with the token that all report;
- known hosts: a changed or revoked key is never accepted, and an accepted key is
  asked about once;
- wiring: one layer with its own listeners and the profile id, however often wiring
  failed before; a failed attempt leaves no listener; the user's default profile is
  never taken away;
- reaper and kill command: nothing dies but what was listed as doomed, and one dead
  target does not keep the others alive;
- paste: the user gets one of text, path and error, the right one, and the path of an
  image as its reader handed it over, which nobody else can read.

## 2. Modules

`SlotState` is the pure decision `decideSlotAction`. A session of a workspace is
named by its slot, so a slot stands for its session everywhere.

`TerminalProvider` is one window's provider with what it interacts with: VS Code's
tabs, the host's tmux server and the clients of other machines.

| Variable | Code |
|---|---|
| `mapping`, `openSlots`, `killingSlots`, `attachedRemoteSlots`, `reservedSlots`, `pendingRestores`, `persistChain`, `terminalSlots`, `discardedDuplicates` | the fields of those names (maps are kept as the set of their keys: each value is a function of the key) |
| `stored` | the mapping in workspaceState |
| `pass[p]` | the p-th run of `initialize()`: 1 is the wiring's, later ones `refresh()` on a reconnect; `pc` says which `await` it is at |
| `request[r]` | a call of `provideTerminalProfile()` and the tab VS Code makes of it |
| `kills[s]` | kill-session commands on their way |
| `tab[t]` | a terminal of the window: `born` (VS Code lists it, the open event is pending), `open`, `gone`; `ending` is the close event on its way and its reason |
| `session`, `foreign`, `parked` | tmux: live sessions; attached by another machine; held by a pty of the last window that VS Code may still reconnect |

An action is the code from one `await` to the next. The two loops that await only
on some iterations (plan's and the drain's) take one iteration per action, and
`Idle` keeps every other host action out until they reach an `await`. A remote
command answers in the step that resumes its caller; by the time the caller's
result is used it may be stale (tmux and other machines move in between).

Left out of the detail: log text, session names, argv, wall-clock times (any poll
may be the last one), the two Memento keys of one write (a write is one step, and
takes the mapping of that moment), and the difference between the exit reasons
that keep the session.

`SessionOwner` is what a window's provider promises about its sessions, without plans,
queues, probes or reservations. `TerminalProvider` implements it (`Owner == INSTANCE ...
WITH`, `KeepsOwnership == Owner!Spec`), in a window that plans once and reconnects no pty:

| `SessionOwner` | in `TerminalProvider` |
|---|---|
| `holders[s]` | the requests that have claimed slot `s` and have no tab yet (`Holding`) |
| `viewers[s]` | the tabs of `s` in the window, until the provider is told that they closed |
| `dying` | the slots with a kill-session on its way |
| `saved` | `stored`, what the next window will find |

`ClaimPending` and `ChooseSlot` are `Claim`, `ConfirmSlot` may be a `Swap`,
`ProfileRejected` is `GiveUp`, `SpawnTab` is `Open`, a `Reopen` of the drain may be
`Restore`, `TabClosed` is `Lose` or `Close`, `KillSettles` is `Settle`, and every other
step at most a `Save`. `Claim`, `Swap` and `Restore` need a slot that no request, no tab
and no kill has, `Open` and `Restore` one that is saved: the provider knows the first only
from `openSlots`, `killingSlots`, `reservedSlots` and probes that may be stale, and the
second from the order of its writes.

`MCTerminalProvider` adds the symmetry sets, `TerminalProviderProofs` holds the
theorems.

`Resolver` is the extension's one `RemoteSSHResolver` with the `SSHConnection`s
its attempts make.

| Variable | Code |
|---|---|
| `sshConnection`, `proxyConnections`, `proxyCommandProcess`, `socksTunnel`, `tunnels` | the fields of those names |
| `att[a]` | the a-th call of `resolve()`: the `await` it is at, the connection it waits for, the one `installCodeServer` was given, its transport |
| `conn[c]` | an `SSHConnection`: hop `i` of attempt `a` is `<<a, i>>`, its destination `<<a, Hops + 1>>`; its ssh2 client and whether `close()` is going on |
| `child[a]` | the ProxyCommand child |
| `tunnel[t]` | the SOCKS server and the port server of an attempt, with the connection that has it in `activeTunnels`, or the SOCKS tunnel it goes through |
| `sock[k]` | a client of a returned port, from its accept to its end |

A connection that rides on a hop or a child dies with it (`Riders`). A command cut
off by a lost connection resolves with partial output (`AttemptsWithout`), and
`exec` on a closed connection dials it again (`ClientToUse`). An attempt also ends by an
answer on a connection that stays up: a hop that refuses the next link (`HopRefused`), a
release that cannot be had (`FetchFails`), a script that reports an error
(`ScriptFails`). Left out: environment
variables, what the error dialog offers. Authentication is a module of its own.

`AuthHandler` is one connection's authentication: `gatherIdentityFiles` and the handler
that `getSSHAuthHandler` returns to ssh2.

| Variable | Code |
|---|---|
| `config` | what is fixed for the attempt: the agent's keys, what each identity file holds, `IdentitiesOnly`, `PreferredAuthentications` |
| `keys`, `methods`, `left` | `identityKeys` still to shift, `methodsLeft`, the three retry counters |
| `at` | whose turn it is: the handler's, the server's, or the `await` the handler is at (the disk, an input box) |
| `request`, `round` | the method asked for; the prompts of a round, the answers so far and the answers sent |
| `tried`, `cut` | history: the keys shifted, what a user or an exception ended early |

What `callback(null)` and `callback(false)` do is ssh2's: another call with the same
methods, and the end. The server is any: after a request it accepts, sends a round
of prompts or refuses with any set of methods. A round without prompts is answered by
ssh2 itself, which does not call `prompt`: the handler does not see it, and it has no
action. The branch for an
identity that is both `isPrivate` and parsed (961-967) has no action of its own:
`gatherIdentityFiles` sets `isPrivate` only where it could not parse.
`AuthHandlerAssumption` says that an agent holds a key once: agents keep their keys by
blob and replace one that is added again. The code relies on it, since it matches each
key the agent lists with a file of its own and never with another of the agent's.

`KnownHosts` is `hostfile.ts` under the host verifier of the resolver: `lines` and
`ended` are the file (its records and whether it ends in a newline), `window[w]` a
verification, from the key the host presents to the append. Opening the file and
looking at its last byte is one step, the append another; other programs append
between any two. A host field matches its host, whether hashed or not; comments
and lines without a record are not lines of the model.

`ServerSetup` is `server-setup.sh`: `lock`, `dir`, `log`, `token` and `pid` are the
flock, the installation and the files; `server[n]` a server the script started, with
its own token, also called `n`; `run[w]` where a run of the script is and what it
has read. `ServerSetupPs1` is the part of `server-setup.ps1` under its mutex.

`SingleServer` is what those scripts promise, without lock, files or processes: one
server at a time, and whoever is told where to connect is told the port and the token
of the server started last. `ServerSetup` implements it (`Promise == INSTANCE ...
WITH`, `KeepsPromise == Promise!Spec`):

| `SingleServer` | in `ServerSetup` |
|---|---|
| `current` | `log`: the server whose log the next script reads the port from |
| `up` | the live servers |
| `told[w]` | port and token that the script of `w` has printed, while it is at `reported` |

`Launch` is `Start`, the removal of the files is `Retire`, the end of a server or a
restart is `Stop`, `Report` is `Tell`, a window that connects again is `Forget`. Every
other step of a script leaves the promise as it is. That `Tell` gives one server for
port and token is the content: the script reads the two in different steps from
different files.

`TmuxLayer` is what `activate()` and the callback after every `resolve()` make of the
terminals of one folder's windows, with the reaper.

| Variable | Code |
|---|---|
| `profile[w]` | who is registered for the profile id: `TerminalProfileRegistration`, the fallback, nobody after the registrar threw |
| `layer[w]`, `listening[w]`, `made[w]` | the wired layer and its `reapOnConnect`; the providers whose listeners are attached; how many were constructed |
| `setting`, `writing[w]` | `terminal.integrated.defaultProfile` in its three scopes; updates asked for and not waited for, with the settings each was decided on |
| `job[j]` | a run of `reap()` or `killWorkspaceSessions()`: at its listing, or at its kills with the names left |
| `session[n]` | a tmux session: live, corpse or none, its clients, whether it is past the grace; `gen` tells namesakes apart |

`wireTmuxTerminalLayer` has no `await`, so it is one action (`Wire`), with an outcome
for each place it may throw: the registrar, which leaves the id to nobody, and the
settings, after the id is taken. `disposeAll(wired)` is `RolledBack`. `Refresh` is the
reconnect of a wired window (its second pass is `TerminalProvider`'s), `Skip` a shut
gate. `List` and `Kill` are the two halves of a run: kills go out one by one, by name,
from a listing that may be old. A session has one pane in the model, as the extension
makes it; `#{pane_dead}` speaks of the active pane only, so of a session the user has
split nothing is claimed.

`PasteImage` is the paste command: `pasteImage.ts` with the readers that
`clipboardImage.ts` lists for a platform, the webview, and the sweep on connect.

| Variable | Code |
|---|---|
| `clip`, `copies`, `native` | the local clipboard, which the user may change meanwhile; the platform's readers and the kind of each (`Kinds`): it streams the image, writes the file, or writes the file and exits 0 whatever became of it, as both PowerShell scripts do (`forced`) |
| `paste[p]` | a run of the command: its `await`, the readers left, whether there is text, the bytes found, `handled` |
| `local[p]` | its temporary file, which all its readers write |
| `page[p]` | its webview panel: what the page does and the message on its way |
| `task[p]` | its upload, which goes on while the progress bar is delayed |
| `terminal[p]`, `effects[p]`, `seen[p]` | the terminal it aimed at: open, closed by the user, or disposed of by the extension; what the user got; history: a reader handed over an image |
| `dir`, `img[p]`, `old[p]` | the image directory on the remote and what each run left in it |

An action is the code from one `await` to the next; `finish()` of the webview is one
action under its four callers (message, dismissal, timer, dispose). `show()` and
`sendText()` throw on a terminal the extension has disposed of (the provider discards
duplicates); on one the user has closed VS Code drops them and says nothing. Bytes are
whole, over the limit or cut off. `WriteGoesWrong` is a reader that fails while it
writes: the file is left as it was, missing, cut off or whole; that is a miss, except
that a `forced` reader may still exit 0, and then `runCaptureCandidate` reads back what
lies there, a piece a killed first reader left included.

`MCKnownHosts` and `MCServerSetup` add symmetry, `MCAuthHandler`, `MCTmuxLayer` and
`MCPasteImage` the values of structured constants. Modules named `...Proofs` hold the
theorems; they use `Recursion`, lemmas on induction and on recursive functions that
speak of no component. The modules do not share variables. They meet in single steps: `open` and `refused` of `AuthHandler` are `Ready` and `DialFails`
of `Resolver`; `ScriptDone` of `Resolver` is a `Report` of `ServerSetup`, its `Ready` an
accept of `KnownHosts`, its `PortListening` the `ResolveSucceeded` of `TmuxLayer` (and
the `Sweep` of `PasteImage`); `Wire` and `Refresh` of `TmuxLayer` call `Initialize` of
`TerminalProvider`; a `Kill` of `TmuxLayer` is an end of a session there. Each module
leaves the other's step nondeterministic.

## 3. Runs

| Run | Question | Result |
|---|---|---|
| `ColdStart` | a window's first plan, two profile requests, another machine's client, and probes, writes, createTerminal and dispose that fail: `TypeOK`, `OneTabPerSession`, `KillTargetsNoTab`, `OpenSlotsExact`, and the refinement `KeepsOwnership` | hold |
| `Reload` | a reload with ptys that reconnect, and a second `initialize()` that may overlap the first: `ReservationsReleased`, `MappingPersisted`; with fairness, is a request answered (`RequestAnswered`) and a queued session shown (`SurvivorReturns`)? | hold |
| `Duplicate` | a discarded duplicate leaves the tab it duplicated (`DiscardKeepsOne`, the code's comment) | violated |
| `RefreshKill` | `KillTargetsNoTab` once a reconnect may plan | violated |
| `Retry` | two attempts, one after the other, each direct, through a hop or through a ProxyCommand, with a client and with every fault: `NothingAbandoned`, `LeadsToOwnHost`; with fairness `AttemptEnds`, and is an accepted client forwarded or let go (`ClientAnswered`)? | hold |
| `Reentry` | `NothingAbandoned` when the second attempt may start before the first ends | violated |
| `KnownHosts` | two verifications and another writer: `VerdictOfTheFile`, `RecordsIntact`, `AcceptedIsRecorded` | hold |
| `ServerSetup` | three runs of the shell script with hang-ups, restarts and failures: `FilesOfLiveServer`, and do they implement `SingleServer` (`KeepsPromise`)? | hold |
| `AuthHandler` | any server, keys in the agent, on disk and in both, every user and every failure: `OfferedAsListed` (a key no more often than the configuration lists it, and once more at most for the agent's when no readable file shows it; under IdentitiesOnly none but the configured ones), `NoKeyKeptBack`, `AnswersMatchPrompts`, `CancelSticks`, and with fairness `Finishes` | hold |
| `HalfInstall` | the PowerShell script starts a whole installation (`StartsWholeServer`, the code's comment) | violated |
| `TmuxLayer` | a window that wires, fails, wires again and reloads, a user who edits the settings, two runs of the reaper or of the command: `LayerIsWhole`, `WiringSucceeds`, `UserDefaultKept`, `ReaperSparesLive`, `CommandKeepsToWorkspace`, and with fairness `CorpseReaped` | hold |
| `PasteImage` | two pastes on every platform from any clipboard, with one mishap: `OneEffect`, `PathNamesImage` (the typed path names what the reader handed over, whole but for PowerShell's exit 0), `FoundIsNotText`, `ImagesPrivate`, and with fairness `PasteEnds` | hold |

Each module's `TypeOK` is an invariant of its run too. The violated runs are findings
(`PROJECT.json`): the claim of a queued slot does not check that it is on screen; only
`allocateSlot` respects a kill in flight; an attempt writes its connection to the
resolver's field without asking whether it is still the newest; a half-extracted
server passes for installed.

Some properties hold with an exception, stated in them because the code has it:
`ClientAnswered` excepts a direct tunnel whose `forwardOut` failed, which forgets its
client (`sshConnection.ts:345`); `PasteEnds` a terminal the extension disposes of under
the panel, where `finish()` throws between `settled = true` and `resolve()`; `OneEffect`
a path for a terminal the user closed before it was typed; `PathNamesImage` a piece of an
image on a machine with `forced` readers (`clipboardImage.ts:95-96`, `:109`);
`ReaperSparesLive` a namesake created after the listing; `UserDefaultKept` an update that
lands on settings changed since it was decided; `OpenSlotsExact` the slot of a profile
whose write was refused. What is excepted is a hazard that no property covers, and
`PROJECT.json` lists it so.

Bounds of `TerminalProvider`. `MaxSlot` 1 or 2: two slots in contention and one to escape to.
Two requests and two or three tabs: the fewest for a collision, and for a tab to be
replaced. `MaxPass` 2: a pass overlapping an older one. `Found` are the slots that
may have a stored mapping or a live session at the start, and every combination of
the two is an initial state. `MaxKills` and `MaxWrites` bound commands and writes in
flight; requests and tabs are used once. `Closable` are the tabs the user may close: all,
but in `Reload` one of the two, since its liveness is costly and the tabs are alike; for the
same reason `Reload` has no faults. With them `ReservationsReleased` and `MappingPersisted`
are theorems; that a queued session returns although a probe fails is not checked. A full stop at these bounds is not a
deadlock of the code, so deadlock is not checked.

Bounds of the others. `Retry`: two attempts, since a teardown sees only the
attempts before it and every field is overwritten by the next; one hop, the fewest
with a connection that rides on another; one client, the fewest that holds a server
open. Attempts and clients are used once, so deadlock is not checked. `KnownHosts`:
two hosts and two keys give every verdict, three lines every order of a record, a
revocation and another key, two windows every overlap of probe and append.
`ServerSetup`: three runs, so that one waits while another holds the lock over what a
third left; four servers; nothing else is bounded. `AuthHandler`: three keys, one
only the agent's, one only on disk, one both, and a file that is configured twice;
two retries where the code has three, so that one is used up and one is left; two
prompts, the fewest a user can leave in the middle; two rounds, so that the counter
falls below zero. `MaxRefusals` stands for the server's own limit: nothing in the
code bounds keyboard-interactive requests that are refused without a prompt, so
`Finishes` says nothing of a server that has no limit.
`TmuxLayer`: two providers, so that one attempt fails and the next meets what it left;
two runs, so that one works off a list the other has changed; one session of each owner,
in every state an earlier connection may have left this workspace's in, the others
corpses; one namesake; one mishap, which is a throw, a lost command, a refused write or
a reload. Windows share only the settings file and the sessions; the
user's own edits stand for what another window does to the first, and the proofs hold
for any number. `PasteImage`: two pastes, the fewest that share the remote directory; three
machines, Windows (two PowerShell readers), macOS (two that write the file) and a Linux
where only one reader is there; three clipboards, an image, an image over the limit
beside text, and nothing; one mishap in all, at every place it can happen; one copy, so that the page may see
another clipboard than the readers did. What the proofs of these two modules state
they state for any numbers; only the liveness rests on the bounds.

Fairness of `AuthHandler`. The handler runs when ssh2 calls it, a file operation
ends, a box closes (answered or not) and the server answers. `readyTimeout` would
end everything; it may fire at any time but is not relied on, so that `Finishes` says
the handler's own callbacks and counters suffice.

Fairness of `Resolver`. Files are read, commands end, ports are listened on,
`readyTimeout` ends a dial, a killed child exits, and a server closes when its last
client has gone. No fairness is assumed of the clients: `AttemptEnds` holds although
the old port's client may stay for ever.

Fairness of `TmuxLayer`. A command of the reaper answers or fails: `exec` settles when
its connection is lost. None of wiring, which VS Code calls, nor of the user.

Fairness of `PasteImage`. The awaits of the command and the thirty-second timer of the
webview; commands and writes answer or fail. None of the page and of the user, so that
`PasteEnds` says that the timer suffices.

Fairness of `TerminalProvider` (`Fairness`). Promises settle, timers fire, remote commands answer or
fail, writes land, and VS Code starts the terminal of a profile it asked for: weak
fairness of the provider's own continuations. No fairness is assumed of the user,
of VS Code's reconnecting a pty, of another machine, or of `PollWindow`: only the
tick on which the deadline has passed (`StopWaiting`) must come.

## 4. Proofs

TLAPS proves, for all values of the constants that satisfy `ConstantsAssumption`:

- `TypeCorrect`: `Spec => []TypeOK`. `TypeOK` includes the one fact that is more
  than shape and that typing needs: a run that waits for has-session has a slot
  left to resolve.
- `ReservationsHold`: `Spec => []ReservationsReleased`. The inductive invariant
  `Reserving` says for a state in which some run is still going what each place in
  that run leaves to be released; overlapping runs clear each other's reservations, and
  the proof shows why none is forgotten: the last run to end clears them all.
- `OneWindowSafe` and `KillsHitNoTab`: if there is one pass and no pty is reconnected,
  then `[]OneTabPerSession` and `[]KillTargetsNoTab`. Neither is inductive by itself. `OneWindow` adds that claims, queued entries and kills are pairwise
  on different slots (`ClaimsApart`, `QueueApart`, `KillsApart`), and that no
  request passes the gate before the plan has settled (`GateShut`). One lemma per
  action shows that it keeps `OneWindow`. Both premises are needed: TLC refutes each of
  the two, and each of `KeepsOwnership` and `OpenSlotsExact`, with `MaxPass = 2` and again
  with `PtyReconnect = TRUE`. `RefreshKill` is the first of these and the mechanism of
  `Duplicate` the second.
- `MappingSaved`: `Spec => []MappingPersisted`, for any number of passes and with ptys
  that reconnect. The write at the head of the chain takes the mapping as it is, so
  what changed since has a write behind it or a run that will ask for one.
- `WriteAheadHolds` (`[]WriteAhead`, an invariant no run checks since `KeepsOwnership`
  implies it) and `OpenSlotsHold` (`[]OpenSlotsExact`), under the
  premises of `OneWindowSafe` and on top of `OneWindow`. `Backed` says of every place a
  session goes through on its way to the screen (a request, the queue, a tab) that it is
  in workspaceState or has a write ahead of it. `OneWindow` has that what is in use is in
  `openSlots`; `Exact` adds that what is in `openSlots` is in use (`Accounted`), for which
  the provider must have recorded every open tab and discarded none (`Recorded`).
- `Implements`: `Spec => KeepsOwnership`, the refinement, under the same premises. `OneWindow`
  gives that what is claimed, swapped in or restored is free (`FreeOfUsers`) and that
  who has a slot is alone with it (`AloneWithSlot`), `Backed` that what comes on screen
  is saved. One lemma for each action that is more than a `Save`.

For all values that satisfy `ServerSetupAssumption`:

- `TypeCorrect`, `NoSecondServer` (`Spec => []FilesOfLiveServer`) and `ReportsRight`
  (`Spec => []ReportsAgree`, an invariant no run checks since `KeepsPromise` implies
  it). The properties speak of the live server's files and of
  reports; what makes them inductive is what the lock's holder knows on its way:
  no server lives between its check and its launch (`NoneLive`), and what it wrote
  or read so far is still in the files (`HolderKnows`). `TypeOK` carries the mutual
  exclusion that nobody else is past the lock.
- `Implements`: `Spec => KeepsPromise`, the refinement. Under the same invariant each
  action is one of `SingleServer` or a stutter, one lemma for each action that is more
  (`LaunchStarts`, `ReportTells`, `RemoveRetires`, `ExitsStops`, `RestartStops`).

For all values that satisfy `ResolverAssumption`:

- `TypeCorrect` (`Spec => []TypeOK`), however attempts overlap. An attempt that a newer
  one has overtaken goes on over connections it no longer owns: `Dialled` says which
  connections exist at each `await` (`WaitsFor`), and that the fields hold connections
  that have been dialled (`DialledField`, `HopsInField`), whoever put them there.

and if VS Code calls `resolve()` again only when its last call has ended (`Overlap =
FALSE`; without it TLC refutes both, the first in `Reentry`):

- `NothingIsAbandoned` (`Spec => [](TypeOK /\ NothingAbandoned)`) and `PortLeadsHome`
  (`Spec => []LeadsToOwnHost`). `Sequential` is the inductive invariant: one attempt runs
  at a time (`OneAtATime`), what is in the resolver's fields is the last attempt's
  (`FieldsOfLatest`), no teardown has reached what a running attempt has made
  (`Untouched`), `Places` says what the fields hold at each `await`, `Tunneled` which
  connection a tunnel is on, and `Released` that what lives is in a field or closing.
  What a lost connection takes with it is one lemma for every fault (`LossesKeep`).

For all values that satisfy `KnownHostsAssumption`:

- `VerdictByContent` (`Spec => []VerdictOfTheFile`), for a file of any length: by
  induction over the lines the loop has walked, `Found` holds exactly what those lines
  say, so a revocation wins on either side of the record it revokes.
- `AcceptedStays` (`Spec => []AcceptedIsRecorded`): a window that has accepted has its
  record in the file, no append changes a line that ends in a newline, and by the
  lemma of the verdict such a record makes it known or revoked.
- `TypeCorrect` and `AppendsKeepRecords` (`Spec => []RecordsIntact`), although the
  probe is not repeated at the append: a window that leaves the separator out saw an
  ended or an empty file, and no append ever leaves one that is neither
  (`NoSeparatorNeeded`).

For all values that satisfy `AuthHandlerAssumption`:

- `TypeCorrect` (`Spec => []TypeOK`), `KeysOfferedAsListed` (`[]OfferedAsListed`) and
  `EveryKeyTried` (`[]NoKeyKeptBack`). The keys gathered are three filtered lists put
  together. `FilterLoop` walks the loop of one: it is a bijection from its positions
  (`FilterLists`), and so is the whole list from the pairs of a list and a position
  (`ListsJoin`, `GatheredLists`). `KeyInit` and `KeyStep` keep `tried \o keys =
  Gathered(config)`: a key is shifted once, in order. That gives `EveryKeyTried` at the
  end, and bounds how often a name is tried by how often it is gathered; `OffersBound`
  counts the latter through the bijection, with the file that the agent's key claims
  taken out (`ClaimedFirst`).
- `AnswersMatch` (`Spec => []AnswersMatchPrompts`) and `CancelIsFinal` (`Spec =>
  CancelSticks`). `PromptInv` says that a prompt is open only while answers are
  missing, and that once a user has left one the counter is not above zero: it is
  set to zero and every later round only lowers it. `CollectKeeps` is the loop over
  the prompts, `QuietStep` every step that touches neither.

For all values that satisfy `TmuxLayerAssumption`, from three invariants that are
inductive apart from each other, since what each says needs no fact about the other
parts of the state:

- `TypeCorrect`, `LayerWhole` (`[]LayerIsWhole`) and `WiringStands` (`WiringSucceeds`),
  from the wiring's own types: the id is taken by disposing first, so whoever held it
  does not matter.
- `DefaultKept` (`UserDefaultKept`): every update in flight is one that
  `decideDefaultProfile` asked for on the settings it carries (`Decided`).
- `KillsKeepToTheList` (`ReaperSparesLive`) and `CommandStaysHome`
  (`CommandKeepsToWorkspace`): a name on a list whose session is still the listed one (`gen`) is still what it was listed for, since a
  corpse does not come back to life under the same `gen` (`Listed`).

For all values that satisfy `PasteImageAssumption`:

- `TypeCorrect`, with `PanelMatches`: a panel is open exactly while its read waits.
- `AnsweredOnce` (`[]OneEffect`), `PathIsWhatWasRead` (`[]PathNamesImage`), `ImageIsNotText`
  (`[]FoundIsNotText`) and `ImagesKeptPrivate` (`[]ImagesPrivate`), from `Delivering`: for each paste,
  `Uploading` says what was found, uploaded and is still on the remote, and `Answering`
  that the user has been answered exactly in the places that lead to the end. `OnlyMine`
  shows that the steps of one paste cannot disturb another's. That a piece of an image is
  handed over only on a machine with `forced` readers needs `Shape`: the readers a paste
  has left are the machine's (`Readers`), and a file that could not be removed belongs to
  a paste that reads no more.

Induction over data is not a rule of the prover that these proofs could use, since the
library's induction theorems take an operator as a parameter. `Recursion` gets it from
sets instead: a set of naturals that is not empty has a least element (`Least`, from
the well-foundedness of `<`), so a set that has 0 and with `n` also `n + 1` has every
natural up to a bound (`Induction`), and a recursive function over `0..N` has the values
its equation gives (`RecursiveFunction`). Loops that the proofs walk are written as such
functions: `Filter` of `AuthHandler`, `Found` of `KnownHosts`.

Every invariant and action property of a passing run is a theorem. Model-checked only are
the liveness properties (`RequestAnswered`, `SurvivorReturns`, `AttemptEnds`,
`ClientAnswered`, `Finishes`, `CorpseReaped`, `PasteEnds`), which rest on fairness and
ENABLED: those are out of the prover's reach. `OneTabPerSession`, `KillTargetsNoTab`,
`KeepsOwnership`, `OpenSlotsExact` and the two safety properties of `Resolver` are proved
under the premises named above, and nothing is claimed of them without these.

## 5. Not modelled, and plan

Done: `SlotState` and `TerminalProvider` (the core) with `SessionOwner`, `Resolver`, `KnownHosts`,
`ServerSetup` with `SingleServer`, `ServerSetupPs1`, `AuthHandler`, `TmuxLayer`,
`PasteImage`. Next, in this order:

1. `HandOff`: two machines, each with its window reduced to `SessionOwner`, on one
   tmux server: what is left of "one owner" when a take-over evicts the other's client.
2. `LocationHistory`: windows that read, merge and write one Memento. Its comments
   accept a lost folder, so there is little to hold it to.
3. Pure operators against a reference: `applyEnvCollection`, the choice of a release,
   `splitRelease`, `parseServerInstallOutput`, and with it the kind of the resolver
   error that a cut-off script is reported as.
4. Proofs: `MappingPersisted` and `WriteAhead` across a reload, where the next window
   starts from what the last one saved.

Not planned: what only parses, formats or draws (`sshConfig`, `sshDestination`,
`hostTreeView`, `logger`, `shellQuote`, `files`, `platform`, the clipboard's
image formats), and the part of `server-setup.ps1` after the mutex, which depends on
what Windows does with an open log.
