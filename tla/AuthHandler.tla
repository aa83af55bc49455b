---------------------------- MODULE AuthHandler ----------------------------
(***************************************************************************)
(* The authentication of one SSH connection: the keys gathered for it      *)
(* (src/src/ssh/identityFiles.ts) and the handler ssh2 asks for the next   *)
(* method (src/src/authResolver.ts:920-1077).  The handler, the server,    *)
(* the user at the input boxes and the disk take turns; ssh2 waits for     *)
(* none of them.                                                           *)
(*                                                                         *)
(* ssh2, as the handler relies on it: it calls the handler first without   *)
(* methods, then with those the server still takes after each failure; an  *)
(* object is the next request, null asks for another call with the same    *)
(* methods, false ends the authentication.                                 *)
(***************************************************************************)
EXTENDS Integers, Sequences, FiniteSets

CONSTANTS
    KeyNames,
    IdentityFiles,      \* the IdentityFile lines, a sequence of key names
    AgentLists,         \* what the agent may list, sequences of key names
    Preferences,        \* values of PreferredAuthentications
    PasswordRetries, PassphraseRetries,
    MaxPrompts,         \* prompts the server sends at once (it sends no empty
                        \* rounds for ever)
    MaxRounds,          \* rounds of prompts in one keyboard-interactive request
    MaxRefusals         \* keyboard-interactive requests refused without a prompt

Methods == {"publickey", "password", "keyboard-interactive"}

ASSUME AuthHandlerAssumption ==
    /\ IdentityFiles \in Seq(KeyNames)
    /\ AgentLists \subseteq Seq(KeyNames)
    \* An agent holds a key once.
    /\ \A list \in AgentLists : \A i, j \in 1..Len(list) : list[i] = list[j] => i = j
    /\ Preferences \subseteq SUBSET Methods
    /\ PasswordRetries \in Nat \ {0} /\ PassphraseRetries \in Nat \ {0}
    /\ MaxPrompts \in Nat /\ MaxRounds \in Nat /\ MaxRefusals \in Nat

VARIABLES
    config,   \* what the attempt found: agent, files on disk, the user's choices
    keys,     \* identityKeys, those not yet shifted
    methods,  \* methodsLeft
    at,       \* whose turn it is, and at which await
    request,  \* the method ssh2 has asked the server for
    left,     \* passphraseRetryCount, passwordRetryCount, keyboardRetryCount
    round,    \* the prompts asked, answered and sent back in this round
    refusals,
    tried,    \* the keys shifted so far
    cut       \* what ended early: a box the user left, an exception

vars == <<config, keys, methods, at, request, left, round, refusals, tried, cut>>

Awaits == {"file", "passphrase", "password", "keyboard"}
Ended == {"open", "refused", "lost"}

Entry == [name: KeyNames, via: {"agent", "file"}]

------------------------------------------------------------------------------
(* gatherIdentityFiles.  A file is "clear" when its public half or an       *)
(* unencrypted private key could be read, "locked" when only a passphrase   *)
(* opens it; any other is dropped.                                          *)

Entries(names, via) == [i \in DOMAIN names |-> [name |-> names[i], via |-> via]]

Positions(k) == {i \in DOMAIN IdentityFiles : IdentityFiles[i] = k}
Listed == {k \in KeyNames : Positions(k) # {}}

\* findIndex: a clear file holds this key of the agent.
OnFile(c, k) == k \in Listed /\ c.stored[k] = "clear"

\* Mutant of Claimed: splice is forgotten.
ClaimedNever(c, i) == FALSE

\* splice: the agent's key takes the first file that holds it.
Claimed(c, i) ==
    /\ c.stored[IdentityFiles[i]] = "clear"
    /\ \E j \in DOMAIN c.agent : c.agent[j] = IdentityFiles[i]
    /\ \A j \in Positions(IdentityFiles[i]) : i <= j

\* filter: the elements of s at these positions, in their order.
Filter(s, positions) ==
    LET kept[n \in 0..Len(s)] ==
            IF n = 0 THEN <<>>
            ELSE IF n \in positions THEN Append(kept[n - 1], s[n]) ELSE kept[n - 1]
    IN  kept[Len(s)]

AgentOnFile(c) == {i \in DOMAIN c.agent : OnFile(c, c.agent[i])}
AgentOnly(c) == IF c.identitiesOnly THEN {} ELSE DOMAIN c.agent \ AgentOnFile(c)
FilesOnly(c) == {i \in DOMAIN IdentityFiles : c.stored[IdentityFiles[i]] # "none" /\ ~Claimed(c, i)}

\* gatherIdentityFiles: the agent's keys that are on file, its other keys,
\* the files the agent does not hold.
Gathered(c) ==
    Entries(Filter(c.agent, AgentOnFile(c)), "agent")
    \o Entries(Filter(c.agent, AgentOnly(c)), "agent")
    \o Entries(Filter(IdentityFiles, FilesOnly(c)), "file")

Configs == [agent: AgentLists, stored: [Listed -> {"none", "clear", "locked"}],
            identitiesOnly: BOOLEAN, preferred: Preferences]

NoRound == [asked |-> 0, answered |-> 0, sent |-> 0, number |-> 0]

\* resolve: the keys are gathered, a handler is made and ssh2 calls it.
Init ==
    /\ config \in Configs
    /\ keys = Gathered(config)
    /\ methods = {}
    /\ at = "first"
    /\ request = "none"
    /\ left = [passphrase |-> 0, password |-> PasswordRetries, keyboard |-> PasswordRetries]
    /\ round = NoRound
    /\ refusals = 0
    /\ tried = <<>>
    /\ cut = {}

------------------------------------------------------------------------------
(* The handler, at each call of ssh2's. *)

\* callback of an object: the server has the next turn.
Ask(method) == at' = "server" /\ request' = method /\ round' = NoRound

\* Mutant of TryNext: false, where null goes on with the next identity.
TryNextGivesUp == at' = "refused" /\ UNCHANGED <<request, round>>

\* callback(null): ssh2 calls the handler again with the same methods.
TryNext == at' = "handler" /\ UNCHANGED <<request, round>>

\* callback(false), or the exception that leads to it.
Refuse(why) == at' = "refused" /\ cut' = cut \cup why /\ UNCHANGED <<request, round>>

Usable(method) == method \in methods \cap config.preferred
KeyNext == Usable("publickey") /\ keys # <<>>
PasswordNext == Usable("password") /\ left.password > 0
KeyboardNext == Usable("keyboard-interactive") /\ left.keyboard > 0

\* methodsLeft is null: none.
OfferNone ==
    /\ at = "first"
    /\ Ask("none")
    /\ UNCHANGED <<config, keys, methods, left, refusals, tried, cut>>

\* identityKeys.shift(): the agent's key is offered, a file is looked for first.
TryKey ==
    /\ at = "handler" /\ KeyNext
    /\ keys' = Tail(keys)
    /\ tried' = Append(tried, Head(keys))
    /\ IF Head(keys).via = "agent"
       THEN Ask("publickey")
       ELSE at' = "file" /\ UNCHANGED <<request, round>>
    /\ UNCHANGED <<config, methods, left, refusals, cut>>

\* The box for a password opens.
AskPassword ==
    /\ at = "handler" /\ ~KeyNext /\ PasswordNext
    /\ at' = "password"
    /\ UNCHANGED <<config, keys, methods, request, left, round, refusals, tried, cut>>

OfferKeyboard ==
    /\ at = "handler" /\ ~KeyNext /\ ~PasswordNext /\ KeyboardNext
    /\ Ask("keyboard-interactive")
    /\ UNCHANGED <<config, keys, methods, left, refusals, tried, cut>>

\* No method is left: callback(false).
GiveUp ==
    /\ at = "handler" /\ ~KeyNext /\ ~PasswordNext /\ ~KeyboardNext
    /\ Refuse({})
    /\ UNCHANGED <<config, keys, methods, left, refusals, tried>>

------------------------------------------------------------------------------
(* The identity file under trial: fileExists, readFile, parseKey.           *)

\* The file is gone or holds no private key.
FileUnusable ==
    /\ at = "file"
    /\ TryNext
    /\ UNCHANGED <<config, keys, methods, left, refusals, tried, cut>>

FileParsed ==
    /\ at = "file"
    /\ Ask("publickey")
    /\ UNCHANGED <<config, keys, methods, left, refusals, tried, cut>>

FileEncrypted ==
    /\ at = "file"
    /\ at' = "passphrase"
    /\ left' = [left EXCEPT !.passphrase = PassphraseRetries]
    /\ UNCHANGED <<config, keys, methods, request, round, refusals, tried, cut>>

\* readFile or an input box rejects: the handler's catch.
Throws ==
    /\ at \in {"file", "passphrase", "password"}
    /\ Refuse({"exception"})
    /\ UNCHANGED <<config, keys, methods, left, refusals, tried>>

PassphraseRight ==
    /\ at = "passphrase"
    /\ left' = [left EXCEPT !.passphrase = @ - 1]
    /\ Ask("publickey")
    /\ UNCHANGED <<config, keys, methods, refusals, tried, cut>>

\* Mutant of PassphraseWrong: it is asked for once more than it may be.
PassphraseWrongAgain ==
    /\ at = "passphrase"
    /\ left' = [left EXCEPT !.passphrase = @ - 1]
    /\ IF left.passphrase = 0 THEN TryNext ELSE UNCHANGED <<at, request, round>>
    /\ UNCHANGED <<config, keys, methods, refusals, tried, cut>>

\* It is asked for again while passphraseRetryCount > 0.
PassphraseWrong ==
    /\ at = "passphrase"
    /\ left' = [left EXCEPT !.passphrase = @ - 1]
    /\ IF left.passphrase = 1 THEN TryNext ELSE UNCHANGED <<at, request, round>>
    /\ UNCHANGED <<config, keys, methods, refusals, tried, cut>>

PassphraseDismissed ==
    /\ at = "passphrase"
    /\ TryNext
    /\ UNCHANGED <<config, keys, methods, left, refusals, tried, cut>>

------------------------------------------------------------------------------
(* The password box, and the prompts of keyboard-interactive.               *)

\* Mutant of Password: the retry is not counted.
PasswordUncounted ==
    /\ at = "password"
    /\ Ask("password")
    /\ UNCHANGED <<config, keys, methods, left, refusals, tried, cut>>

Password ==
    /\ at = "password"
    /\ left' = [left EXCEPT !.password = @ - 1]
    /\ Ask("password")
    /\ UNCHANGED <<config, keys, methods, refusals, tried, cut>>

\* An empty or dismissed box: callback(false).
PasswordEmpty ==
    /\ at = "password"
    /\ left' = [left EXCEPT !.password = @ - 1]
    /\ Refuse({"password"})
    /\ UNCHANGED <<config, keys, methods, refusals, tried>>

\* Mutant of FinishWith: the answers are not padded.
FinishShort(asked, answered, cancelled) == answered

\* buildKeyboardInteractiveFinish: the length of finishWith.
FinishWith(asked, answered, cancelled) == IF cancelled THEN asked ELSE answered

\* The loop over the prompts: the next box opens, or all answers are sent.
Collect(r) ==
    IF r.answered < r.asked
    THEN at' = "keyboard" /\ round' = r /\ UNCHANGED left
    ELSE /\ at' = "server"
         /\ round' = [r EXCEPT !.sent = FinishWith(r.asked, r.answered, FALSE)]
         /\ left' = [left EXCEPT !.keyboard = @ - 1]

\* The server sends a round of prompts: prompt is called.  A round without any ssh2
\* answers by itself, and nothing of the handler changes.
Prompt(n) ==
    /\ at = "server" /\ request = "keyboard-interactive"
    /\ round.number < MaxRounds
    /\ Collect([asked |-> n, answered |-> 0, sent |-> 0, number |-> round.number + 1])
    /\ UNCHANGED <<config, keys, methods, request, refusals, tried, cut>>

AnswerPrompt ==
    /\ at = "keyboard"
    /\ Collect([round EXCEPT !.answered = @ + 1])
    /\ UNCHANGED <<config, keys, methods, request, refusals, tried, cut>>

\* Mutant of EndPrompts: a cancelled round counts as any other.
EndPromptsCounted(answered) ==
    /\ at = "keyboard"
    /\ at' = "server"
    /\ left' = [left EXCEPT !.keyboard = @ - 1]
    /\ round' = [round EXCEPT !.sent = FinishWith(round.asked, answered, TRUE)]
    /\ cut' = cut \cup {"keyboard-interactive"}
    /\ UNCHANGED <<config, keys, methods, request, refusals, tried>>

\* retriesExhausted: the round is answered with padding, the retries are gone.
EndPrompts(answered) ==
    /\ at = "keyboard"
    /\ at' = "server"
    /\ left' = [left EXCEPT !.keyboard = 0]
    /\ round' = [round EXCEPT !.sent = FinishWith(round.asked, answered, TRUE)]
    /\ cut' = cut \cup {"keyboard-interactive"}
    /\ UNCHANGED <<config, keys, methods, request, refusals, tried>>

\* The user dismisses a prompt.
CancelPrompt == EndPrompts(round.answered)

\* The box rejects: prompt's own catch, which answers nothing.
PromptThrows == EndPrompts(0)

------------------------------------------------------------------------------
(* The server, and the connection. *)

Accept ==
    /\ at = "server"
    /\ at' = "open"
    /\ UNCHANGED <<config, keys, methods, request, left, round, refusals, tried, cut>>

\* USERAUTH_FAILURE with the methods that may continue, which may change when
\* a part of a multi-factor login has succeeded.
Unasked == request = "keyboard-interactive" /\ round.number = 0

Reject(methodsLeft) ==
    /\ at = "server"
    /\ Unasked => refusals < MaxRefusals
    /\ refusals' = IF Unasked THEN refusals + 1 ELSE refusals
    /\ methods' = methodsLeft
    /\ at' = "handler"
    /\ request' = "none" /\ round' = NoRound
    /\ UNCHANGED <<config, keys, left, tried, cut>>

\* readyTimeout, or the server hangs up; an answer that comes later is ignored.
Lost ==
    /\ at \notin Ended
    /\ at' = "lost"
    /\ UNCHANGED <<config, keys, methods, request, left, round, refusals, tried, cut>>

Handler == OfferNone \/ TryKey \/ AskPassword \/ OfferKeyboard \/ GiveUp

Disk == FileUnusable \/ FileParsed \/ FileEncrypted

User == \/ PassphraseRight \/ PassphraseWrong \/ PassphraseDismissed
        \/ Password \/ PasswordEmpty
        \/ AnswerPrompt \/ CancelPrompt

Server == \/ Accept
          \/ \E m \in SUBSET Methods : Reject(m)
          \/ \E n \in 1..MaxPrompts : Prompt(n)

Next == Handler \/ Disk \/ User \/ Server \/ Throws \/ PromptThrows \/ Lost

\* The handler runs when called, a file operation ends, a box closes, the
\* server answers.  readyTimeout is not relied on.
Spec == Init /\ [][Next]_vars
        /\ WF_vars(Handler) /\ WF_vars(Disk) /\ WF_vars(User) /\ WF_vars(Server)

------------------------------------------------------------------------------
(* Properties. *)

\* The type invariant: each variable has its shape, no counter passes its bound.
TypeOK ==
    /\ config \in Configs
    /\ keys \in Seq(Entry) /\ tried \in Seq(Entry)
    /\ methods \subseteq Methods
    /\ at \in {"first", "handler", "server"} \cup Awaits \cup Ended
    /\ request \in Methods \cup {"none"}
    /\ left \in [passphrase: 0..PassphraseRetries, password: 0..PasswordRetries,
                 keyboard: Int]
    /\ round \in [asked: Nat, answered: Nat, sent: Nat, number: 0..MaxRounds]
    /\ refusals \in 0..MaxRefusals
    /\ cut \subseteq {"password", "keyboard-interactive", "exception"}

\* The lines a key can be offered from: a file that is there is.
Lines(k) == IF k \notin Listed \/ config.stored[k] = "none" THEN 0 ELSE Cardinality(Positions(k))

\* The agent offers a key beside the lines, unless a file shows that it holds the same
\* key or IdentitiesOnly keeps it back.
Beside(k) == IF config.identitiesOnly \/ OnFile(config, k) THEN 0 ELSE 1

\* A server counts every key it is offered (MaxAuthTries): a key is offered no more
\* often than it is listed with a file that is there, and the agent adds an offer of
\* its own only without IdentitiesOnly and for a key no readable file shows.  (So a key
\* listed twice may be offered twice, and one whose file is locked once more.)
OfferedAsListed ==
    \A k \in KeyNames :
        Cardinality({i \in DOMAIN tried : tried[i].name = k}) <= Lines(k) + Beside(k)

\* Unless the user left the password box or an await threw, a connection is
\* given up with no key kept back that the server might have taken: every skip
\* of an identity (null) leads to the next one.
NoKeyKeptBack ==
    at = "refused" /\ Usable("publickey") /\ cut \cap {"password", "exception"} = {}
        => tried = Gathered(config)

\* The server gets one answer for each prompt of a round, also when the user
\* leaves in the middle or the box fails ("never a short one").
AnswersMatchPrompts ==
    at = "server" /\ request = "keyboard-interactive" /\ round.number > 0
        => round.sent = round.asked

\* Once the user has left a prompt, no later call of the handler asks for
\* keyboard-interactive again, whatever rounds the server sent in between.
CancelSticks ==
    [][cut' = cut /\ "keyboard-interactive" \in cut /\ at = "handler"
        => request' # "keyboard-interactive" \/ at' # "server"]_vars

\* Every authentication ends, without the help of readyTimeout: each await of
\* the handler leads to a callback and each retry uses something up.
Finishes == <>(at \in Ended)
==============================================================================
