-------------------------- MODULE AuthHandlerProofs --------------------------
(***************************************************************************)
(* What the handler owes the user and the server, for any identity files,  *)
(* agent, retries, prompts and rounds: the answers to keyboard-interactive *)
(* prompts, how often a key is offered, and that none is kept back.        *)
(***************************************************************************)
EXTENDS AuthHandler, SequenceTheorems, FiniteSetTheorems, Recursion

\* The shape of the records the proofs reason about.
Shape ==
    /\ left \in [passphrase: Int, password: Int, keyboard: Int]
    /\ round \in [asked: Nat, answered: Nat, sent: Nat, number: Nat]

\* A prompt is open only while answers are missing.
OpenPrompt == at = "keyboard" => round.answered < round.asked

\* A user who has left a prompt leaves no retry, nor does a later round of the
\* same request bring one back.
RetriesGone == "keyboard-interactive" \in cut => left.keyboard <= 0

PromptInv == Shape /\ OpenPrompt /\ RetriesGone /\ AnswersMatchPrompts

LEMMA PromptInit == Init => PromptInv
<1> SUFFICES ASSUME Init PROVE PromptInv
  OBVIOUS
<1> USE AuthHandlerAssumption
<1>1. Shape
  BY DEF Init, Shape, NoRound
<1>2. OpenPrompt /\ RetriesGone /\ AnswersMatchPrompts
  BY DEF Init, OpenPrompt, RetriesGone, AnswersMatchPrompts
<1> QED
  BY <1>1, <1>2 DEF PromptInv

\* A round goes on to its next prompt or sends as many answers as were asked.
LEMMA CollectKeeps ==
  ASSUME NEW r \in [asked: Nat, answered: Nat, sent: Nat, number: Nat],
         r.answered <= r.asked,
         left \in [passphrase: Int, password: Int, keyboard: Int],
         RetriesGone, cut' = cut, Collect(r)
  PROVE  Shape' /\ OpenPrompt' /\ RetriesGone' /\ AnswersMatchPrompts'
<1>1. CASE r.answered < r.asked
  <2>1. at' = "keyboard" /\ round' = r /\ left' = left
    BY <1>1 DEF Collect
  <2> QED
    BY <2>1, <1>1 DEF Shape, OpenPrompt, RetriesGone, AnswersMatchPrompts
<1>2. CASE ~(r.answered < r.asked)
  <2>1. /\ at' = "server"
        /\ round' = [r EXCEPT !.sent = r.answered]
        /\ left' = [left EXCEPT !.keyboard = @ - 1]
    BY <1>2 DEF Collect, FinishWith
  <2>2. r.answered = r.asked
    BY <1>2
  <2>3. round'.sent = round'.asked /\ left'.keyboard = left.keyboard - 1
    BY <2>1, <2>2
  <2>4. Shape'
    BY <2>1 DEF Shape
  <2> QED
    BY <2>1, <2>3, <2>4 DEF Shape, OpenPrompt, RetriesGone, AnswersMatchPrompts
<1> QED
  BY <1>1, <1>2

\* A step that opens no prompt, sends no answer and adds no cancellation, and
\* whose retries only fall, keeps the invariant.
LEMMA QuietStep ==
  ASSUME PromptInv, Shape',
         at' # "keyboard",
         at' = "server" => \/ round' = NoRound
                           \/ at = "server" /\ UNCHANGED <<request, round>>,
         left'.keyboard = left.keyboard,
         "keyboard-interactive" \in cut' => "keyboard-interactive" \in cut
  PROVE  PromptInv'
BY DEF PromptInv, OpenPrompt, RetriesGone, AnswersMatchPrompts, NoRound

LEMMA PromptNext == PromptInv /\ [Next]_vars => PromptInv'
<1> SUFFICES ASSUME PromptInv, [Next]_vars PROVE PromptInv'
  OBVIOUS
<1> USE DEF Awaits, Ended
<1>1. CASE Handler
  <2>1. Shape'
    BY <1>1 DEF Handler, OfferNone, TryKey, AskPassword, OfferKeyboard, GiveUp, Ask,
                Refuse, PromptInv, Shape, NoRound
  <2> QED
    BY <1>1, <2>1, QuietStep DEF Handler, OfferNone, TryKey, AskPassword, OfferKeyboard,
                GiveUp, Ask, Refuse
<1>2. CASE Disk
  <2>1. Shape' /\ left'.keyboard = left.keyboard
    <3>1. /\ left \in [passphrase: Int, password: Int, keyboard: Int]
          /\ round \in [asked: Nat, answered: Nat, sent: Nat, number: Nat]
      BY DEF PromptInv, Shape
    <3>2. /\ left' = left \/ left' = [left EXCEPT !.passphrase = PassphraseRetries]
          /\ round' = round \/ round' = NoRound
      BY <1>2 DEF Disk, FileUnusable, FileParsed, FileEncrypted, Ask, TryNext
    <3>3. /\ left' \in [passphrase: Int, password: Int, keyboard: Int]
          /\ left'.keyboard = left.keyboard
      BY <3>1, <3>2, AuthHandlerAssumption
    <3>4. round' \in [asked: Nat, answered: Nat, sent: Nat, number: Nat]
      BY <3>1, <3>2 DEF NoRound
    <3>5. QED
      BY <3>3, <3>4 DEF Shape
  <2> QED
    BY <1>2, <2>1, QuietStep DEF Disk, FileUnusable, FileParsed, FileEncrypted, Ask, TryNext
<1>3. CASE Throws \/ Lost
  <2>1. Shape'
    BY <1>3 DEF Throws, Lost, Refuse, PromptInv, Shape
  <2> QED
    BY <1>3, <2>1, QuietStep DEF Throws, Lost, Refuse
<1>4. CASE PassphraseRight \/ PassphraseWrong \/ PassphraseDismissed \/ Password \/ PasswordEmpty
  <2>1. \/ left' = left
        \/ left' = [left EXCEPT !.passphrase = @ - 1]
        \/ left' = [left EXCEPT !.password = @ - 1]
    BY <1>4 DEF PassphraseRight, PassphraseWrong, PassphraseDismissed, Password, PasswordEmpty
  <2>2. round' = NoRound \/ round' = round
    BY <1>4 DEF PassphraseRight, PassphraseWrong, PassphraseDismissed, Password,
                PasswordEmpty, Ask, TryNext, Refuse
  <2>3. /\ left' \in [passphrase: Int, password: Int, keyboard: Int]
        /\ left'.keyboard = left.keyboard
    <3>1. left \in [passphrase: Int, password: Int, keyboard: Int]
      BY DEF PromptInv, Shape
    <3>2. CASE left' = left
      BY <3>1, <3>2
    <3>3. CASE left' = [left EXCEPT !.passphrase = @ - 1]
      BY <3>1, <3>3
    <3>4. CASE left' = [left EXCEPT !.password = @ - 1]
      BY <3>1, <3>4
    <3> QED
      BY <2>1, <3>2, <3>3, <3>4
  <2>4. round' \in [asked: Nat, answered: Nat, sent: Nat, number: Nat]
    BY <2>2 DEF PromptInv, Shape, NoRound
  <2>5. Shape'
    BY <2>3, <2>4 DEF Shape
  <2> QED
    BY <1>4, <2>3, <2>5, QuietStep DEF PassphraseRight, PassphraseWrong, PassphraseDismissed,
                Password, PasswordEmpty, Ask, TryNext, Refuse
<1>5. CASE AnswerPrompt
  <2> DEFINE r == [round EXCEPT !.answered = @ + 1]
  <2>0. /\ round \in [asked: Nat, answered: Nat, sent: Nat, number: Nat]
        /\ round.answered < round.asked
    BY <1>5 DEF AnswerPrompt, PromptInv, Shape, OpenPrompt
  <2>1. /\ r \in [asked: Nat, answered: Nat, sent: Nat, number: Nat]
        /\ r.answered <= r.asked
    BY <2>0
  <2>2. Collect(r) /\ cut' = cut
    BY <1>5 DEF AnswerPrompt
  <2> QED
    BY <2>1, <2>2, CollectKeeps DEF PromptInv, Shape
<1>6. ASSUME NEW n \in 1..MaxPrompts, Prompt(n) PROVE PromptInv'
  <2> DEFINE r == [asked |-> n, answered |-> 0, sent |-> 0, number |-> round.number + 1]
  <2>1. /\ r \in [asked: Nat, answered: Nat, sent: Nat, number: Nat]
        /\ r.answered <= r.asked
    BY DEF PromptInv, Shape
  <2>2. Collect(r) /\ cut' = cut
    BY <1>6 DEF Prompt
  <2> QED
    BY <2>1, <2>2, CollectKeeps DEF PromptInv, Shape
<1>7. CASE CancelPrompt \/ PromptThrows
  <2>1. PICK answered : EndPrompts(answered)
    BY <1>7 DEF CancelPrompt, PromptThrows
  <2>2. /\ at' = "server"
        /\ left' = [left EXCEPT !.keyboard = 0]
        /\ round' = [round EXCEPT !.sent = round.asked]
    BY <2>1 DEF EndPrompts, FinishWith
  <2>3. Shape' /\ left'.keyboard = 0 /\ round'.sent = round'.asked
    <3>1. /\ left \in [passphrase: Int, password: Int, keyboard: Int]
          /\ round \in [asked: Nat, answered: Nat, sent: Nat, number: Nat]
      BY DEF PromptInv, Shape
    <3>2. /\ left' \in [passphrase: Int, password: Int, keyboard: Int]
          /\ left'.keyboard = 0
      BY <2>2, <3>1
    <3>3. /\ round' \in [asked: Nat, answered: Nat, sent: Nat, number: Nat]
          /\ round'.sent = round'.asked
      BY <2>2, <3>1
    <3>4. QED
      BY <3>2, <3>3 DEF Shape
  <2> QED
    BY <2>2, <2>3 DEF PromptInv, OpenPrompt, RetriesGone, AnswersMatchPrompts
<1>8. CASE Accept \/ \E m \in SUBSET Methods : Reject(m)
  <2>1. Shape'
    BY <1>8 DEF Accept, Reject, PromptInv, Shape, NoRound
  <2> QED
    BY <1>8, <2>1, QuietStep DEF Accept, Reject
<1>9. CASE UNCHANGED vars
  BY <1>9 DEF vars, PromptInv, Shape, OpenPrompt, RetriesGone, AnswersMatchPrompts
<1> QED
  BY <1>1, <1>2, <1>3, <1>4, <1>5, <1>6, <1>7, <1>8, <1>9 DEF Next, User, Server

\* The server gets one answer for each prompt of a round, whoever ended it and
\* how (buildKeyboardInteractiveFinish and both branches that call it).
THEOREM AnswersMatch == Spec => []AnswersMatchPrompts
<1>1. PromptInv => AnswersMatchPrompts
  BY DEF PromptInv
<1> QED
  BY <1>1, PromptInit, PromptNext, PTL DEF Spec

\* A user who has left a keyboard-interactive prompt is never asked by a later
\* call of the handler, whatever the server and the other methods do between.
THEOREM CancelIsFinal == Spec => CancelSticks
<1>1. ASSUME PromptInv, [Next]_vars
      PROVE  [cut' = cut /\ "keyboard-interactive" \in cut /\ at = "handler"
                => request' # "keyboard-interactive" \/ at' # "server"]_vars
  <2> SUFFICES ASSUME Next, "keyboard-interactive" \in cut, at = "handler",
                      request' = "keyboard-interactive", at' = "server"
               PROVE  FALSE
    BY <1>1
  <2>1. left.keyboard <= 0 /\ left.keyboard \in Int
    BY <1>1 DEF PromptInv, RetriesGone, Shape
  <2>2. Handler
    BY DEF Next, Disk, User, Server, FileUnusable, FileParsed, FileEncrypted, PassphraseRight,
           PassphraseWrong, PassphraseDismissed, Password, PasswordEmpty, AnswerPrompt,
           CancelPrompt, PromptThrows, EndPrompts, Accept, Reject, Prompt, Throws, Lost
  <2>3. OfferKeyboard
    BY <2>2 DEF Handler, OfferNone, TryKey, AskPassword, GiveUp, Ask, Refuse
  <2> QED
    BY <2>1, <2>3 DEF OfferKeyboard, KeyboardNext
<1> QED
  BY <1>1, PromptInit, PromptNext, PTL DEF Spec, CancelSticks

------------------------------------------------------------------------------
(* filter. *)

\* q lists the elements of s at the positions of P, each once: e says which
\* position an element of q comes from.
Lists(e, q, s, P) ==
    /\ e \in [1..Len(q) -> P]
    /\ \A i \in 1..Len(q) : q[i] = s[e[i]]
    /\ \A i, j \in 1..Len(q) : e[i] = e[j] => i = j
    /\ \A p \in P : \E i \in 1..Len(q) : e[i] = p

\* One more position to look at.
LEMMA ListsMore ==
    ASSUME NEW S, NEW s, NEW P, NEW q \in Seq(S), NEW n, s[n] \in S, n \notin P,
           \E e : Lists(e, q, s, P)
    PROVE  \E e : Lists(e, Append(q, s[n]), s, P \cup {n})
<1>1. PICK e : Lists(e, q, s, P)
  OBVIOUS
<1> DEFINE N == Len(q)
           d == [i \in 1..(N + 1) |-> IF i = N + 1 THEN n ELSE e[i]]
           r == Append(q, s[n])
<1>2. N \in Nat /\ Len(r) = N + 1 /\ \A i \in 1..(N + 1) : r[i] = IF i = N + 1 THEN s[n] ELSE q[i]
  OBVIOUS
<1> HIDE DEF N, r
<1>3. /\ e \in [1..N -> P]
      /\ \A i \in 1..N : q[i] = s[e[i]]
      /\ \A i, j \in 1..N : e[i] = e[j] => i = j
      /\ \A p \in P : \E i \in 1..N : e[i] = p
  BY <1>1 DEF Lists, N
<1>4. d \in [1..(N + 1) -> P \cup {n}]
  BY <1>2, <1>3
<1>5. \A i \in 1..(N + 1) : r[i] = s[d[i]]
  BY <1>2, <1>3
<1>6. \A i, j \in 1..(N + 1) : d[i] = d[j] => i = j
  BY <1>2, <1>3
<1>7. \A p \in P \cup {n} : \E i \in 1..(N + 1) : d[i] = p
  <2>1. ASSUME NEW p \in P PROVE \E i \in 1..(N + 1) : d[i] = p
    BY <1>2, <1>3
  <2>2. d[N + 1] = n /\ N + 1 \in 1..(N + 1)
    BY <1>2
  <2>3. QED
    BY <2>1, <2>2
<1> HIDE DEF d
<1>8. Lists(d, r, s, P \cup {n})
  BY <1>2, <1>4, <1>5, <1>6, <1>7 DEF Lists
<1>9. QED
  BY <1>8 DEF r

\* One turn of the filter's loop.
Keep(q, s, n, positions) == IF n \in positions THEN Append(q, s[n]) ELSE q

LEMMA KeepSeq ==
    ASSUME NEW S, NEW s \in Seq(S), NEW positions, NEW q \in Seq(S), NEW n \in 1..Len(s)
    PROVE  Keep(q, s, n, positions) \in Seq(S)
BY DEF Keep

\* The filter is what its loop has kept at the end.
LEMMA FilterLoop ==
    ASSUME NEW S, NEW s \in Seq(S), NEW positions
    PROVE  \E kept : /\ kept[0] = <<>>
                     /\ \A n \in 1..Len(s) : kept[n] = Keep(kept[n - 1], s, n, positions)
                     /\ Filter(s, positions) = kept[Len(s)]
<1> DEFINE N == Len(s)
           Loop(f) == f = [n \in 0..N |-> IF n = 0 THEN <<>> ELSE Keep(f[n - 1], s, n, positions)]
           kept == CHOOSE f : Loop(f)
           step == [p \in Seq(S) \X (1..N) |-> Keep(p[1], s, p[2], positions)]
<1>1. N \in Nat /\ <<>> \in Seq(S)
  OBVIOUS
<1>2. step \in [Seq(S) \X (1..N) -> Seq(S)]
  BY KeepSeq
<1>3. \E f : Loop(f)
  <2>1. \A q \in Seq(S), n \in 1..N : step[<<q, n>>] = Keep(q, s, n, positions)
    OBVIOUS
  <2> HIDE DEF step, N
  <2>2. PICK f \in [0..N -> Seq(S)] : Follows(f, <<>>, step, N)
    BY <1>1, <1>2, RecursiveFunction
  <2>3. ASSUME NEW n \in 0..N, n # 0 PROVE f[n] = Keep(f[n - 1], s, n, positions)
    <3>1. n \in 1..N /\ n - 1 \in 0..N
      BY <1>1, <2>3
    <3>2. f[n] = step[<<f[n - 1], n>>] /\ f[n - 1] \in Seq(S)
      BY <2>2, <3>1 DEF Follows
    <3>3. QED
      BY <2>1, <3>1, <3>2
  <2>4. f[0] = <<>>
    BY <2>2 DEF Follows
  <2>5. Loop(f)
    <3> HIDE DEF Keep
    <3>1. \A n \in 0..N : f[n] = IF n = 0 THEN <<>> ELSE Keep(f[n - 1], s, n, positions)
      BY <2>3, <2>4
    <3>2. QED
      BY <2>2, <3>1
  <2>6. QED
    BY <2>5
<1>4. Loop(kept)
  BY <1>3
<1>5. Filter(s, positions) = kept[N]
  BY DEF Filter, Keep
<1> HIDE DEF kept, N
<1>6. kept[0] = <<>>
  BY <1>1, <1>4
<1>7. ASSUME NEW n \in 1..N PROVE kept[n] = Keep(kept[n - 1], s, n, positions)
  BY <1>1, <1>4
<1>8. QED
  BY <1>5, <1>6, <1>7 DEF N

\* A filter keeps exactly what it is told to, each element once, for every sequence.
LEMMA FilterLists ==
    ASSUME NEW S, NEW s \in Seq(S), NEW positions \in SUBSET (1..Len(s))
    PROVE  /\ Filter(s, positions) \in Seq(S)
           /\ \E e : Lists(e, Filter(s, positions), s, positions)
<1> DEFINE N == Len(s)
<1>1. N \in Nat /\ \A n \in 1..N : s[n] \in S
  OBVIOUS
<1>2. PICK kept : /\ kept[0] = <<>>
                  /\ \A n \in 1..N : kept[n] = Keep(kept[n - 1], s, n, positions)
                  /\ Filter(s, positions) = kept[N]
  BY FilterLoop
<1> DEFINE Upto(n) == positions \cap (1..n)
           Good(n) == kept[n] \in Seq(S) /\ \E e : Lists(e, kept[n], s, Upto(n))
           G == {n \in Nat : n <= N => Good(n)}
<1>3. Good(0)
  <2>1. Upto(0) = {} /\ Len(<<>>) = 0 /\ <<>> \in Seq(S)
    OBVIOUS
  <2>2. Lists(<<>>, <<>>, s, {})
    BY <2>1 DEF Lists
  <2>3. QED
    BY <1>2, <2>1, <2>2
<1>4. ASSUME NEW n \in Nat, n < N, Good(n) PROVE Good(n + 1)
  <2>1. n + 1 \in 1..N /\ (n + 1) - 1 = n
    BY <1>1, <1>4
  <2>2. kept[n + 1] = Keep(kept[n], s, n + 1, positions)
    <3> HIDE DEF N
    <3>1. QED
      BY <1>2, <2>1
  <2>3. kept[n] \in Seq(S) /\ (\E e : Lists(e, kept[n], s, Upto(n))) /\ s[n + 1] \in S
    BY <1>1, <1>4, <2>1
  <2>4. n + 1 \notin Upto(n)
        /\ Upto(n + 1) = IF n + 1 \in positions THEN Upto(n) \cup {n + 1} ELSE Upto(n)
    OBVIOUS
  <2> HIDE DEF Upto, N
  <2>5. CASE n + 1 \in positions
    <3>1. kept[n + 1] = Append(kept[n], s[n + 1]) /\ Upto(n + 1) = Upto(n) \cup {n + 1}
      BY <2>2, <2>4, <2>5 DEF Keep
    <3>2. Append(kept[n], s[n + 1]) \in Seq(S)
      BY <2>3
    <3>3. \E e : Lists(e, Append(kept[n], s[n + 1]), s, Upto(n) \cup {n + 1})
      BY <2>3, <2>4, ListsMore
    <3>4. QED
      BY <3>1, <3>2, <3>3
  <2>6. CASE n + 1 \notin positions
    BY <2>2, <2>3, <2>4, <2>6 DEF Keep
  <2>7. QED
    BY <2>5, <2>6
<1>5. Good(N)
  <2> HIDE DEF Good, N
  <2>1. 0 \in G /\ \A n \in Nat : n < N /\ n \in G => n + 1 \in G
    BY <1>3, <1>4, <1>1
  <2> HIDE DEF G
  <2>2. 0..N \subseteq G
    BY <1>1, <2>1, Induction
  <2>3. QED
    BY <1>1, <2>2 DEF G
<1>6. Upto(N) = positions
  OBVIOUS
<1>7. QED
  BY <1>2, <1>5, <1>6

------------------------------------------------------------------------------
(* The keys gathered. *)

\* Where a gathered key comes from: a position in the agent's list or among the
\* identity files.
AgentOffers(c) == AgentOnFile(c) \cup AgentOnly(c)
Source(c) == ({"agent"} \X AgentOffers(c)) \cup ({"file"} \X FilesOnly(c))
EntryAt(c) == [p \in {"agent", "file"} \X Nat |->
    [name |-> IF p[1] = "agent" THEN c.agent[p[2]] ELSE IdentityFiles[p[2]], via |-> p[1]]]

LEMMA ConfigTypes ==
    ASSUME NEW c \in Configs
    PROVE  /\ c.agent \in Seq(KeyNames) /\ IdentityFiles \in Seq(KeyNames)
           /\ \A i, j \in 1..Len(c.agent) : c.agent[i] = c.agent[j] => i = j
           /\ c.stored \in [Listed -> {"none", "clear", "locked"}] /\ c.identitiesOnly \in BOOLEAN
           /\ AgentOnFile(c) \in SUBSET (1..Len(c.agent))
           /\ AgentOnly(c) \in SUBSET (1..Len(c.agent))
           /\ FilesOnly(c) \in SUBSET (1..Len(IdentityFiles))
<1>1. c.agent \in AgentLists /\ c.stored \in [Listed -> {"none", "clear", "locked"}]
      /\ c.identitiesOnly \in BOOLEAN
  BY DEF Configs
<1>2. c.agent \in Seq(KeyNames) /\ IdentityFiles \in Seq(KeyNames)
      /\ \A i, j \in 1..Len(c.agent) : c.agent[i] = c.agent[j] => i = j
  BY <1>1, AuthHandlerAssumption
<1>3. DOMAIN c.agent = 1..Len(c.agent) /\ DOMAIN IdentityFiles = 1..Len(IdentityFiles)
  BY <1>2
<1>4. QED
  BY <1>1, <1>2, <1>3 DEF AgentOnFile, AgentOnly, FilesOnly

\* The names of some positions, as entries of one kind.
LEMMA EntriesList ==
    ASSUME NEW c, NEW via \in {"agent", "file"}, NEW s \in Seq(KeyNames),
           s = IF via = "agent" THEN c.agent ELSE IdentityFiles,
           NEW P \in SUBSET (1..Len(s)), NEW q \in Seq(KeyNames), \E e : Lists(e, q, s, P)
    PROVE  /\ Entries(q, via) \in Seq(Entry)
           /\ \E e : Lists(e, Entries(q, via), EntryAt(c), {via} \X P)
<1>1. PICK e : Lists(e, q, s, P)
  OBVIOUS
<1> DEFINE r == Entries(q, via)
           d == [i \in 1..Len(q) |-> <<via, e[i]>>]
<1>2. /\ r \in Seq(Entry) /\ Len(r) = Len(q)
      /\ \A i \in 1..Len(q) : r[i] = [name |-> q[i], via |-> via]
  <2>1. DOMAIN q = 1..Len(q) /\ Len(q) \in Nat /\ \A i \in 1..Len(q) : q[i] \in KeyNames
    OBVIOUS
  <2>2. r = [i \in 1..Len(q) |-> [name |-> q[i], via |-> via]]
    BY <2>1 DEF Entries
  <2>3. \A i \in 1..Len(q) : [name |-> q[i], via |-> via] \in Entry
    BY <2>1 DEF Entry
  <2> HIDE DEF r
  <2>4. QED
    BY <2>1, <2>2, <2>3
<1> HIDE DEF r
<1>3. /\ e \in [1..Len(q) -> P]
      /\ \A i \in 1..Len(q) : q[i] = s[e[i]]
      /\ \A i, j \in 1..Len(q) : e[i] = e[j] => i = j
      /\ \A p \in P : \E i \in 1..Len(q) : e[i] = p
  BY <1>1 DEF Lists
<1>4. d \in [1..Len(q) -> {via} \X P]
  BY <1>3
<1>5. ASSUME NEW i \in 1..Len(q) PROVE r[i] = EntryAt(c)[d[i]]
  <2>1. e[i] \in Nat
    <3>1. \A p \in 1..Len(s) : p \in Nat
      OBVIOUS
    <3>2. e[i] \in P
      BY <1>3
    <3>3. QED
      BY <3>1, <3>2
  <2>2. EntryAt(c)[<<via, e[i]>>] = [name |-> s[e[i]], via |-> via]
    BY <2>1 DEF EntryAt
  <2>3. QED
    BY <1>2, <1>3, <2>2
<1>6. \A i, j \in 1..Len(q) : d[i] = d[j] => i = j
  BY <1>3
<1>7. ASSUME NEW p \in {via} \X P PROVE \E i \in 1..Len(q) : d[i] = p
  <2>1. p = <<p[1], p[2]>> /\ p[1] = via /\ p[2] \in P
    OBVIOUS
  <2>2. PICK i \in 1..Len(q) : e[i] = p[2]
    BY <1>3, <2>1
  <2>3. QED
    BY <2>1, <2>2
<1> HIDE DEF d
<1>8. Lists(d, r, EntryAt(c), {via} \X P)
  BY <1>2, <1>4, <1>5, <1>6, <1>7 DEF Lists
<1>9. QED
  BY <1>2, <1>8 DEF r

\* One list after the other.
LEMMA ListsJoin ==
    ASSUME NEW S, NEW s, NEW P, NEW Q, P \cap Q = {}, NEW q \in Seq(S), NEW r \in Seq(S),
           \E e : Lists(e, q, s, P), \E e : Lists(e, r, s, Q)
    PROVE  \E e : Lists(e, q \o r, s, P \cup Q)
<1>1. PICK a : Lists(a, q, s, P)
  OBVIOUS
<1>2. PICK b : Lists(b, r, s, Q)
  OBVIOUS
<1> DEFINE M == Len(q)
           N == Len(r)
           t == q \o r
           d == [i \in 1..(M + N) |-> IF i <= M THEN a[i] ELSE b[i - M]]
<1>3. /\ M \in Nat /\ N \in Nat /\ Len(t) = M + N
      /\ \A i \in 1..(M + N) : t[i] = IF i <= M THEN q[i] ELSE r[i - M]
  OBVIOUS
<1>4. /\ a \in [1..M -> P] /\ \A i \in 1..M : q[i] = s[a[i]]
      /\ \A i, j \in 1..M : a[i] = a[j] => i = j
      /\ \A p \in P : \E i \in 1..M : a[i] = p
  BY <1>1 DEF Lists
<1>5. /\ b \in [1..N -> Q] /\ \A i \in 1..N : r[i] = s[b[i]]
      /\ \A i, j \in 1..N : b[i] = b[j] => i = j
      /\ \A p \in Q : \E i \in 1..N : b[i] = p
  BY <1>2 DEF Lists
<1> HIDE DEF M, N, t
<1>6. \A i \in 1..(M + N) : IF i <= M THEN i \in 1..M /\ d[i] = a[i]
                                      ELSE i - M \in 1..N /\ d[i] = b[i - M]
  BY <1>3
<1>7. \A i \in 1..N : i + M \in 1..(M + N) /\ d[i + M] = b[i]
  BY <1>3
<1>8. \A i \in 1..M : i \in 1..(M + N) /\ d[i] = a[i]
  BY <1>3
<1>9. d \in [1..(M + N) -> P \cup Q]
  BY <1>4, <1>5, <1>6
<1> HIDE DEF d
<1>10. ASSUME NEW i \in 1..(M + N) PROVE t[i] = s[d[i]]
  <2>1. CASE i <= M
    BY <1>3, <1>4, <1>6, <2>1
  <2>2. CASE ~(i <= M)
    BY <1>3, <1>5, <1>6, <2>2
  <2>3. QED
    BY <2>1, <2>2
<1>11. ASSUME NEW i \in 1..(M + N), NEW j \in 1..(M + N), d[i] = d[j] PROVE i = j
  <2>1. CASE i <= M /\ j <= M
    BY <1>4, <1>6, <1>11, <2>1
  <2>2. CASE ~(i <= M) /\ ~(j <= M)
    <3>1. i - M = j - M
      BY <1>5, <1>6, <1>11, <2>2
    <3>2. QED
      BY <1>3, <3>1
  <2>3. CASE (i <= M) # (j <= M)
    <3>1. d[i] \in P <=> i <= M
      BY <1>4, <1>5, <1>6
    <3>2. d[j] \in P <=> j <= M
      BY <1>4, <1>5, <1>6
    <3>3. QED
      BY <1>11, <2>3, <3>1, <3>2
  <2>4. QED
    BY <2>1, <2>2, <2>3
<1>12. ASSUME NEW p \in P \cup Q PROVE \E i \in 1..(M + N) : d[i] = p
  <2>1. CASE p \in P
    BY <1>4, <1>8, <2>1
  <2>2. CASE p \in Q
    BY <1>5, <1>7, <2>2
  <2>3. QED
    BY <2>1, <2>2
<1>13. Lists(d, t, s, P \cup Q)
  BY <1>3, <1>9, <1>10, <1>11, <1>12 DEF Lists
<1>14. QED
  BY <1>13 DEF t

\* gatherIdentityFiles gathers every key it should, and each from one place.
LEMMA GatheredLists ==
    ASSUME NEW c \in Configs
    PROVE  /\ Gathered(c) \in Seq(Entry)
           /\ \E e : Lists(e, Gathered(c), EntryAt(c), Source(c))
<1> DEFINE onFile == Entries(Filter(c.agent, AgentOnFile(c)), "agent")
           only == Entries(Filter(c.agent, AgentOnly(c)), "agent")
           files == Entries(Filter(IdentityFiles, FilesOnly(c)), "file")
           A == {"agent"} \X AgentOnFile(c)
           B == {"agent"} \X AgentOnly(c)
           F == {"file"} \X FilesOnly(c)
<1>1. onFile \in Seq(Entry) /\ \E e : Lists(e, onFile, EntryAt(c), A)
  <2>1. /\ Filter(c.agent, AgentOnFile(c)) \in Seq(KeyNames)
        /\ \E e : Lists(e, Filter(c.agent, AgentOnFile(c)), c.agent, AgentOnFile(c))
    BY ConfigTypes, FilterLists
  <2>2. QED
    BY <2>1, ConfigTypes, EntriesList
<1>2. only \in Seq(Entry) /\ \E e : Lists(e, only, EntryAt(c), B)
  <2>1. /\ Filter(c.agent, AgentOnly(c)) \in Seq(KeyNames)
        /\ \E e : Lists(e, Filter(c.agent, AgentOnly(c)), c.agent, AgentOnly(c))
    BY ConfigTypes, FilterLists
  <2>2. QED
    BY <2>1, ConfigTypes, EntriesList
<1>3. files \in Seq(Entry) /\ \E e : Lists(e, files, EntryAt(c), F)
  <2>1. /\ Filter(IdentityFiles, FilesOnly(c)) \in Seq(KeyNames)
        /\ \E e : Lists(e, Filter(IdentityFiles, FilesOnly(c)), IdentityFiles, FilesOnly(c))
    BY ConfigTypes, FilterLists
  <2>2. QED
    BY <2>1, ConfigTypes, EntriesList
<1>4. A \cap B = {} /\ (A \cup B) \cap F = {} /\ (A \cup B) \cup F = Source(c)
  BY DEF AgentOnly, Source, AgentOffers
<1>5. Gathered(c) = (onFile \o only) \o files
  BY DEF Gathered
<1> HIDE DEF onFile, only, files, A, B, F
<1>6. onFile \o only \in Seq(Entry) /\ (onFile \o only) \o files \in Seq(Entry)
  BY <1>1, <1>2, <1>3
<1>7. \E e : Lists(e, onFile \o only, EntryAt(c), A \cup B)
  BY <1>1, <1>2, <1>4, ListsJoin
<1>8. \E e : Lists(e, (onFile \o only) \o files, EntryAt(c), (A \cup B) \cup F)
  BY <1>3, <1>4, <1>6, <1>7, ListsJoin
<1>9. QED
  BY <1>4, <1>5, <1>6, <1>8

\* How often a key was offered.
Offers(k) == {i \in DOMAIN tried : tried[i].name = k}

\* A key is not offered more often than there are places in W to take one from:
\* a file stands for itself, the agent's key for m.
LEMMA OffersBound ==
    ASSUME TypeOK, tried \o keys = Gathered(config), NEW k \in KeyNames,
           NEW W, IsFiniteSet(W), NEW m,
           \A i \in Positions(k) : i \in FilesOnly(config) => i \in W /\ i # m,
           (\E i \in AgentOffers(config) : config.agent[i] = k) => m \in W
    PROVE  Cardinality(Offers(k)) <= Cardinality(W)
<1>1. PICK e : Lists(e, Gathered(config), EntryAt(config), Source(config))
  BY GatheredLists DEF TypeOK
<1> DEFINE g == Gathered(config)
           T == Offers(k)
           f == [i \in T |-> IF e[i][1] = "agent" THEN m ELSE e[i][2]]
<1>2. \A i \in T : i \in 1..Len(g) /\ g[i].name = k
  <2>1. tried \in Seq(Entry) /\ keys \in Seq(Entry) /\ tried \o keys = g
    BY DEF TypeOK
  <2> HIDE DEF g
  <2>2. \A i \in 1..Len(tried) : i \in 1..Len(tried \o keys) /\ (tried \o keys)[i] = tried[i]
    BY <2>1
  <2>3. DOMAIN tried = 1..Len(tried)
    BY <2>1
  <2>4. QED
    BY <2>1, <2>2, <2>3 DEF Offers
<1> HIDE DEF g, T
<1>3. /\ e \in [1..Len(g) -> Source(config)]
      /\ \A i \in 1..Len(g) : g[i] = EntryAt(config)[e[i]]
      /\ \A i, j \in 1..Len(g) : e[i] = e[j] => i = j
  BY <1>1 DEF Lists, g
<1>4. /\ \A i \in AgentOffers(config) : i \in Nat
      /\ \A i \in FilesOnly(config) : i \in Nat /\ i \in DOMAIN IdentityFiles
      /\ \A i, j \in AgentOffers(config) : config.agent[i] = config.agent[j] => i = j
  <2>1. /\ AgentOffers(config) \in SUBSET (1..Len(config.agent))
        /\ FilesOnly(config) \in SUBSET (1..Len(IdentityFiles))
        /\ DOMAIN IdentityFiles = 1..Len(IdentityFiles)
        /\ \A i, j \in 1..Len(config.agent) : config.agent[i] = config.agent[j] => i = j
    <3>1. config \in Configs
      BY DEF TypeOK
    <3>2. QED
      BY <3>1, ConfigTypes DEF AgentOffers
  <2>2. QED
    BY <2>1
<1>5. ASSUME NEW i \in T
      PROVE  /\ e[i] = <<e[i][1], e[i][2]>>
             /\ \/ /\ e[i][1] = "agent" /\ e[i][2] \in AgentOffers(config)
                   /\ config.agent[e[i][2]] = k
                \/ /\ e[i][1] = "file" /\ e[i][2] \in FilesOnly(config)
                   /\ e[i][2] \in Positions(k)
  <2>1. e[i] \in Source(config) /\ EntryAt(config)[e[i]].name = k
    BY <1>2, <1>3
  <2>2. CASE e[i] \in {"agent"} \X AgentOffers(config)
    <3> DEFINE p == e[i]
    <3>1. p = <<p[1], p[2]>> /\ p[1] = "agent" /\ p[2] \in AgentOffers(config)
      BY <2>2
    <3>2. p \in {"agent", "file"} \X Nat
      BY <1>4, <3>1
    <3> HIDE DEF p
    <3>3. EntryAt(config)[p].name = config.agent[p[2]]
      BY <3>1, <3>2 DEF EntryAt
    <3>4. QED
      BY <2>1, <3>1, <3>3 DEF p
  <2>3. CASE e[i] \in {"file"} \X FilesOnly(config)
    <3> DEFINE p == e[i]
    <3>1. p = <<p[1], p[2]>> /\ p[1] = "file" /\ p[2] \in FilesOnly(config)
      BY <2>3
    <3>2. p \in {"agent", "file"} \X Nat
      BY <1>4, <3>1
    <3> HIDE DEF p
    <3>3. EntryAt(config)[p].name = IdentityFiles[p[2]]
      BY <3>1, <3>2 DEF EntryAt
    <3>4. QED
      BY <1>4, <2>1, <3>1, <3>3 DEF p, Positions
  <2>4. QED
    BY <2>1, <2>2, <2>3 DEF Source
<1>6. f \in [T -> W]
  BY <1>5
<1>7. ASSUME NEW i \in T, NEW j \in T, f[i] = f[j] PROVE i = j
  <2>1. e[i][1] = e[j][1]
    BY <1>5, <1>7
  <2>2. e[i][2] = e[j][2]
    <3>1. CASE e[i][1] = "agent"
      <4>1. /\ e[i][2] \in AgentOffers(config) /\ config.agent[e[i][2]] = k
            /\ e[j][2] \in AgentOffers(config) /\ config.agent[e[j][2]] = k
        BY <1>5, <2>1, <3>1
      <4>2. QED
        BY <1>4, <4>1
    <3>2. CASE e[i][1] = "file"
      BY <1>5, <1>7, <2>1, <3>2
    <3>3. QED
      BY <1>5, <3>1, <3>2
  <2>3. e[i] = e[j]
    BY <1>5, <2>1, <2>2
  <2>4. QED
    BY <1>2, <1>3, <2>3
<1> HIDE DEF f
<1>8. f \in Injection(T, W)
  BY <1>6, <1>7 DEF Injection, IsInjective
<1>9. QED
  BY <1>8, FS_Injection DEF T

\* The first readable file of a key that the agent holds too is not offered.
LEMMA ClaimedFirst ==
    ASSUME NEW c \in Configs, NEW k \in Listed, c.stored[k] = "clear",
           \E i \in AgentOffers(c) : c.agent[i] = k
    PROVE  \E m \in Positions(k) : m \notin FilesOnly(c)
<1>1. Positions(k) \in SUBSET Nat /\ Positions(k) # {}
  BY AuthHandlerAssumption DEF Positions, Listed
<1>2. PICK m \in Positions(k) : \A j \in Positions(k) : m <= j
  BY <1>1, Least
<1>3. IdentityFiles[m] = k
  BY DEF Positions
<1>4. \E j \in DOMAIN c.agent : c.agent[j] = k
  BY ConfigTypes DEF AgentOffers
<1>5. Claimed(c, m)
  BY <1>2, <1>3, <1>4 DEF Claimed
<1>6. QED
  BY <1>5 DEF FilesOnly

------------------------------------------------------------------------------
(* Types, and the keys from gathering to refusal. *)

\* The gathered keys are those tried, then those left; an open box has retries;
\* the handler refuses with a key at hand only if it was cut short.
AllKeys == tried \o keys = Gathered(config)
BoxHasRetries == /\ at = "passphrase" => left.passphrase > 0
                 /\ at = "password" => left.password > 0
RefusedLast == at = "refused" /\ cut \cap {"password", "exception"} = {} => ~KeyNext
KeyInv == TypeOK /\ AllKeys /\ BoxHasRetries /\ RefusedLast

LEMMA KeyInit == Init => KeyInv
<1> SUFFICES ASSUME Init PROVE KeyInv
  OBVIOUS
<1> USE AuthHandlerAssumption
<1>1. keys \in Seq(Entry) /\ <<>> \in Seq(Entry) /\ <<>> \o keys = keys
  BY GatheredLists DEF Init
<1>2. left \in [passphrase: 0..PassphraseRetries, password: 0..PasswordRetries, keyboard: Int]
  BY DEF Init
<1>3. round \in [asked: Nat, answered: Nat, sent: Nat, number: 0..MaxRounds]
  BY DEF Init, NoRound
<1>4. TypeOK
  BY <1>1, <1>2, <1>3 DEF Init, TypeOK
<1>5. AllKeys
  BY <1>1 DEF Init, AllKeys
<1>6. BoxHasRetries /\ RefusedLast
  BY DEF Init, BoxHasRetries, RefusedLast
<1>7. QED
  BY <1>4, <1>5, <1>6 DEF KeyInv

\* Taking the next key moves it from one list to the other.
LEMMA ShiftKeeps ==
    ASSUME NEW S, NEW s \in Seq(S), NEW t \in Seq(S), s # <<>>
    PROVE  /\ Tail(s) \in Seq(S) /\ Append(t, Head(s)) \in Seq(S) /\ Head(s) \in S
           /\ Append(t, Head(s)) \o Tail(s) = t \o s
<1> DEFINE a == Append(t, Head(s)) \o Tail(s)
           b == t \o s
<1>1. Tail(s) \in Seq(S) /\ Append(t, Head(s)) \in Seq(S) /\ Head(s) \in S
  OBVIOUS
<1>2. /\ Len(s) \in Nat \ {0} /\ Len(t) \in Nat /\ Len(Tail(s)) = Len(s) - 1
      /\ Head(s) = s[1] /\ \A i \in 1..(Len(s) - 1) : Tail(s)[i] = s[i + 1]
  OBVIOUS
<1>3. /\ Len(Append(t, Head(s))) = Len(t) + 1
      /\ \A i \in 1..(Len(t) + 1) : Append(t, Head(s))[i] = IF i = Len(t) + 1 THEN s[1] ELSE t[i]
  BY <1>2
<1>4. a \in Seq(S) /\ b \in Seq(S) /\ Len(a) = Len(t) + Len(s) /\ Len(b) = Len(t) + Len(s)
  BY <1>1, <1>2, <1>3
<1>5. ASSUME NEW i \in 1..(Len(t) + Len(s)) PROVE a[i] = b[i]
  <2>1. CASE i <= Len(t)
    BY <1>1, <1>2, <1>3, <2>1
  <2>2. CASE i = Len(t) + 1
    <3>1. a[i] = s[1]
      BY <1>1, <1>2, <1>3, <2>2
    <3>2. b[i] = s[1]
      BY <1>2, <2>2
    <3>3. QED
      BY <3>1, <3>2
  <2>3. CASE i > Len(t) + 1
    <3>1. a[i] = Tail(s)[i - (Len(t) + 1)]
      BY <1>1, <1>2, <1>3, <2>3
    <3>2. i - (Len(t) + 1) \in 1..(Len(s) - 1) /\ (i - (Len(t) + 1)) + 1 = i - Len(t)
      BY <1>2, <2>3
    <3>3. b[i] = s[i - Len(t)]
      BY <1>2, <2>3
    <3>4. QED
      BY <1>2, <3>1, <3>2, <3>3
  <2>4. QED
    BY <1>2, <2>1, <2>2, <2>3
<1> HIDE DEF a, b
<1>6. a = b
  BY <1>4, <1>5
<1>7. QED
  BY <1>1, <1>6 DEF a, b

\* What is left of the retries, whichever box was answered.
Lefts == [passphrase: 0..PassphraseRetries, password: 0..PasswordRetries, keyboard: Int]
Rounds == [asked: Nat, answered: Nat, sent: Nat, number: 0..MaxRounds]

LEMMA CollectTypes ==
    ASSUME left \in Lefts, NEW r \in Rounds, Collect(r)
    PROVE  at' \in {"keyboard", "server"} /\ round' \in Rounds /\ left' \in Lefts
<1>1. CASE r.answered < r.asked
  BY <1>1 DEF Collect
<1>2. CASE ~(r.answered < r.asked)
  <2>1. /\ at' = "server"
        /\ round' = [r EXCEPT !.sent = r.answered]
        /\ left' = [left EXCEPT !.keyboard = @ - 1]
    BY <1>2 DEF Collect, FinishWith
  <2>2. [r EXCEPT !.sent = r.answered] \in Rounds
    BY DEF Rounds
  <2>3. [left EXCEPT !.keyboard = @ - 1] \in Lefts
    BY DEF Lefts
  <2>4. QED
    BY <2>1, <2>2, <2>3
<1>3. QED
  BY <1>1, <1>2

LEMMA TypeStep == KeyInv /\ [Next]_vars => TypeOK'
<1> SUFFICES ASSUME KeyInv, [Next]_vars PROVE TypeOK'
  OBVIOUS
<1> DEFINE Places == {"first", "handler", "server"} \cup Awaits \cup Ended
           Cuts == {"password", "keyboard-interactive", "exception"}
<1>1. /\ keys \in Seq(Entry) /\ tried \in Seq(Entry) /\ methods \subseteq Methods
      /\ at \in Places /\ request \in Methods \cup {"none"} /\ cut \subseteq Cuts
      /\ left \in Lefts /\ round \in Rounds /\ NoRound \in Rounds /\ refusals \in 0..MaxRefusals
  BY AuthHandlerAssumption DEF KeyInv, TypeOK, Lefts, Rounds, NoRound
<1>0. config \in Configs /\ BoxHasRetries
  BY DEF KeyInv, TypeOK
<1>15. left \in Lefts /\ PasswordRetries \in Nat /\ PassphraseRetries \in Nat
  BY <1>1, AuthHandlerAssumption
\* A step that touches neither keys, counters nor rounds has the types of its values.
<1>2. ASSUME UNCHANGED <<config, keys, tried>>, methods' \subseteq Methods,
             at' \in Places, request' \in Methods \cup {"none"}, left' \in Lefts,
             round' \in Rounds, refusals' \in 0..MaxRefusals, cut' \subseteq Cuts
      PROVE  TypeOK'
  BY <1>0, <1>1, <1>2 DEF TypeOK, Lefts, Rounds
<1> USE DEF Awaits, Ended, Methods
<1>3. CASE OfferNone \/ AskPassword \/ OfferKeyboard \/ GiveUp
  BY <1>1, <1>2, <1>3 DEF OfferNone, AskPassword, OfferKeyboard, GiveUp, Ask, Refuse
<1>4. CASE TryKey
  <2>1. keys' \in Seq(Entry) /\ tried' \in Seq(Entry)
    BY <1>1, <1>4, ShiftKeeps DEF TryKey, KeyNext
  <2>2. at' \in {"file", "server"} /\ request' \in Methods \cup {"none"} /\ round' \in Rounds
    BY <1>1, <1>4 DEF TryKey, Ask
  <2>3. QED
    BY <1>0, <1>1, <1>4, <2>1, <2>2 DEF TryKey, TypeOK, Lefts, Rounds
<1>5. CASE FileUnusable \/ FileParsed \/ Throws \/ PassphraseDismissed \/ Lost
  <2>1. CASE FileUnusable \/ FileParsed \/ PassphraseDismissed
    BY <1>1, <1>2, <2>1 DEF FileUnusable, FileParsed, PassphraseDismissed, TryNext, Ask
  <2>2. CASE Throws
    BY <1>1, <1>2, <2>2 DEF Throws, Refuse
  <2>3. CASE Lost
    BY <1>1, <1>2, <2>3 DEF Lost
  <2>4. QED
    BY <1>5, <2>1, <2>2, <2>3
<1>6. CASE FileEncrypted
  <2>1. [left EXCEPT !.passphrase = PassphraseRetries] \in Lefts
    BY <1>15 DEF Lefts
  <2>2. QED
    BY <1>1, <1>2, <1>6, <2>1 DEF FileEncrypted
<1>7. CASE PassphraseRight \/ PassphraseWrong
  <2>1. left' = [left EXCEPT !.passphrase = @ - 1] /\ left.passphrase > 0
    BY <1>0, <1>7 DEF PassphraseRight, PassphraseWrong, BoxHasRetries
  <2>2. left' \in Lefts
    BY <1>15, <2>1 DEF Lefts
  <2>3. QED
    BY <1>1, <1>2, <1>7, <2>2 DEF PassphraseRight, PassphraseWrong, Ask, TryNext
<1>8. CASE Password \/ PasswordEmpty
  <2>1. left' = [left EXCEPT !.password = @ - 1] /\ left.password > 0
    BY <1>0, <1>8 DEF Password, PasswordEmpty, BoxHasRetries
  <2>2. left' \in Lefts
    BY <1>15, <2>1 DEF Lefts
  <2>3. QED
    BY <1>1, <1>2, <1>8, <2>2 DEF Password, PasswordEmpty, Ask, Refuse
<1>9. CASE AnswerPrompt
  <2> DEFINE r == [round EXCEPT !.answered = @ + 1]
  <2>1. r \in Rounds
    <3>1. round \in Rounds
      BY <1>1
    <3>2. QED
      BY <3>1 DEF Rounds
  <2>2. Collect(r)
    BY <1>9 DEF AnswerPrompt
  <2> HIDE DEF r
  <2>3. at' \in {"keyboard", "server"} /\ round' \in Rounds /\ left' \in Lefts
    BY <1>1, <2>1, <2>2, CollectTypes
  <2>4. QED
    BY <1>1, <1>2, <1>9, <2>3 DEF AnswerPrompt
<1>10. ASSUME NEW n \in 1..MaxPrompts, Prompt(n) PROVE TypeOK'
  <2> DEFINE r == [asked |-> n, answered |-> 0, sent |-> 0, number |-> round.number + 1]
  <2>1. r \in Rounds
    BY <1>1, <1>10, AuthHandlerAssumption DEF Rounds, Prompt
  <2>2. Collect(r)
    BY <1>10 DEF Prompt
  <2> HIDE DEF r
  <2>3. at' \in {"keyboard", "server"} /\ round' \in Rounds /\ left' \in Lefts
    BY <1>1, <2>1, <2>2, CollectTypes
  <2>4. QED
    BY <1>1, <1>2, <1>10, <2>3 DEF Prompt
<1>11. CASE CancelPrompt \/ PromptThrows
  <2>1. PICK answered : EndPrompts(answered)
    BY <1>11 DEF CancelPrompt, PromptThrows
  <2>2. left' \in Lefts /\ round' \in Rounds
    <3>1. /\ left' = [left EXCEPT !.keyboard = 0]
          /\ round' = [round EXCEPT !.sent = round.asked]
      BY <2>1 DEF EndPrompts, FinishWith
    <3>2. [left EXCEPT !.keyboard = 0] \in Lefts
      BY <1>1 DEF Lefts
    <3>3. [round EXCEPT !.sent = round.asked] \in Rounds
      BY <1>1 DEF Rounds
    <3>4. QED
      BY <3>1, <3>2, <3>3
  <2>3. QED
    BY <1>1, <1>2, <2>1, <2>2 DEF EndPrompts
<1>12. CASE Accept \/ \E m \in SUBSET Methods : Reject(m)
  <2>1. CASE Accept
    BY <1>1, <1>2, <2>1 DEF Accept
  <2>2. ASSUME NEW m \in SUBSET Methods, Reject(m) PROVE TypeOK'
    <3>1. refusals' \in 0..MaxRefusals
      BY <1>1, <2>2, AuthHandlerAssumption DEF Reject
    <3>2. QED
      BY <1>1, <1>2, <2>2, <3>1 DEF Reject
  <2>3. QED
    BY <1>12, <2>1, <2>2
<1>13. CASE UNCHANGED vars
  BY <1>1, <1>2, <1>13 DEF vars
<1>14. QED
  BY <1>3, <1>4, <1>5, <1>6, <1>7, <1>8, <1>9, <1>10, <1>11, <1>12, <1>13
     DEF Next, Handler, Disk, User, Server

LEMMA KeyStep == KeyInv /\ [Next]_vars => KeyInv'
<1> SUFFICES ASSUME KeyInv, [Next]_vars PROVE KeyInv'
  OBVIOUS
<1> USE AuthHandlerAssumption
<1>1. TypeOK'
  BY TypeStep
<1>2. TypeOK /\ AllKeys /\ BoxHasRetries /\ RefusedLast
  BY DEF KeyInv
<1>3. AllKeys'
  <2>1. CASE TryKey
    <3>1. /\ keys \in Seq(Entry) /\ tried \in Seq(Entry) /\ keys # <<>>
          /\ keys' = Tail(keys) /\ tried' = Append(tried, Head(keys)) /\ config' = config
      BY <1>2, <2>1 DEF TryKey, KeyNext, TypeOK
    <3>2. QED
      BY <1>2, <3>1, ShiftKeeps DEF AllKeys
  <2>2. CASE UNCHANGED <<config, keys, tried>>
    BY <1>2, <2>2 DEF AllKeys
  <2>3. QED
    BY <2>1, <2>2 DEF Next, Handler, Disk, User, Server, OfferNone, AskPassword, OfferKeyboard,
       GiveUp, FileUnusable, FileParsed, FileEncrypted, PassphraseRight, PassphraseWrong,
       PassphraseDismissed, Password, PasswordEmpty, AnswerPrompt, CancelPrompt, EndPrompts,
       Accept, Reject, Prompt, Throws, PromptThrows, Lost, vars
<1>4. BoxHasRetries'
  <2>1. left \in Lefts
    BY <1>2 DEF TypeOK, Lefts
  <2>2. CASE FileEncrypted
    BY <2>1, <2>2 DEF FileEncrypted, BoxHasRetries, Lefts
  <2>3. CASE PassphraseWrong
    <3>1. left' = [left EXCEPT !.passphrase = @ - 1] /\ left.passphrase > 0
      BY <1>2, <2>3 DEF PassphraseWrong, BoxHasRetries
    <3>2. left'.passphrase = left.passphrase - 1
      BY <2>1, <3>1 DEF Lefts
    <3>3. left.passphrase = 1 => at' = "handler"
      BY <2>3 DEF PassphraseWrong, TryNext
    <3>4. at' \in {"handler", "passphrase"} /\ left.passphrase \in Nat
      BY <2>1, <2>3 DEF PassphraseWrong, TryNext, Lefts
    <3>5. QED
      BY <3>1, <3>2, <3>3, <3>4 DEF BoxHasRetries
  <2>4. CASE AskPassword
    BY <2>4 DEF AskPassword, PasswordNext, BoxHasRetries
  <2>5. CASE at' \notin {"passphrase", "password"}
    BY <2>5 DEF BoxHasRetries
  <2>6. CASE UNCHANGED vars
    BY <1>2, <2>6 DEF vars, BoxHasRetries
  <2>7. QED
    BY <2>2, <2>3, <2>4, <2>5, <2>6 DEF Next, Handler, Disk, User, Server, OfferNone, TryKey,
       OfferKeyboard, GiveUp, FileUnusable, FileParsed, PassphraseRight, PassphraseDismissed,
       Password, PasswordEmpty, AnswerPrompt, CancelPrompt, EndPrompts, Accept, Reject, Prompt,
       Throws, PromptThrows, Lost, Ask, TryNext, Refuse, Collect
<1>5. RefusedLast'
  <2>1. CASE GiveUp
    BY <2>1 DEF GiveUp, RefusedLast, KeyNext, Usable
  <2>2. CASE Throws \/ PasswordEmpty
    BY <2>2 DEF Throws, PasswordEmpty, Refuse, RefusedLast
  <2>3. CASE at' # "refused"
    BY <2>3 DEF RefusedLast
  <2>4. CASE UNCHANGED vars
    BY <1>2, <2>4 DEF vars, RefusedLast, KeyNext, Usable
  <2>5. QED
    BY <2>1, <2>2, <2>3, <2>4 DEF Next, Handler, Disk, User, Server, OfferNone, TryKey,
       AskPassword, OfferKeyboard, FileUnusable, FileParsed, FileEncrypted, PassphraseRight,
       PassphraseWrong, PassphraseDismissed, Password, AnswerPrompt, CancelPrompt, EndPrompts,
       Accept, Reject, Prompt, PromptThrows, Lost, Ask, TryNext, Collect
<1>6. QED
  BY <1>1, <1>3, <1>4, <1>5 DEF KeyInv

\* Every variable of the handler keeps its shape and every count its bound: a
\* passphrase or a password is asked for no more often than its retries allow
\* (the passphraseRetryCount loop, passwordRetryCount).
THEOREM TypeCorrect == Spec => []TypeOK
<1>1. KeyInv => TypeOK
  BY DEF KeyInv
<1>2. QED
  BY <1>1, KeyInit, KeyStep, PTL DEF Spec

\* Whatever the agent lists and the files hold, the server is offered no key more
\* often than lines with a file name it, and once more from the agent only when no
\* readable file shows the agent's key and IdentitiesOnly is off (gatherIdentityFiles'
\* match, splice and filter, and the handler's shift).
THEOREM KeysOfferedAsListed == Spec => []OfferedAsListed
<1>1. ASSUME KeyInv PROVE OfferedAsListed
  <2>1. TypeOK /\ tried \o keys = Gathered(config)
    BY <1>1 DEF KeyInv, AllKeys
  <2>2. config \in Configs
    BY <2>1 DEF TypeOK
  <2>3. config.stored \in [Listed -> {"none", "clear", "locked"}] /\ config.identitiesOnly \in BOOLEAN
    BY <2>2, ConfigTypes
  <2> SUFFICES ASSUME NEW k \in KeyNames
               PROVE  Cardinality(Offers(k)) <= Lines(k) + Beside(k)
    BY DEF OfferedAsListed, Offers
  <2>4. IsFiniteSet(Positions(k)) /\ \A i \in Positions(k) : IdentityFiles[i] = k /\ i # 0
    <3>1. Positions(k) \in SUBSET (1..Len(IdentityFiles)) /\ Len(IdentityFiles) \in Int
      BY AuthHandlerAssumption DEF Positions
    <3>2. IsFiniteSet(1..Len(IdentityFiles))
      BY <3>1, FS_Interval
    <3>3. QED
      BY <3>1, <3>2, FS_Subset DEF Positions
  <2>5. CASE OnFile(config, k)
    <3>1. k \in Listed /\ config.stored[k] = "clear"
      BY <2>5 DEF OnFile
    <3>2. \E m : /\ \A i \in Positions(k) : i \in FilesOnly(config) => i # m
                 /\ (\E i \in AgentOffers(config) : config.agent[i] = k) => m \in Positions(k)
      <4>1. CASE \E i \in AgentOffers(config) : config.agent[i] = k
        BY <2>2, <3>1, <4>1, ClaimedFirst
      <4>2. CASE ~ \E i \in AgentOffers(config) : config.agent[i] = k
        BY <2>4, <4>2
      <4>3. QED
        BY <4>1, <4>2
    <3>3. Cardinality(Offers(k)) <= Cardinality(Positions(k))
      BY <2>1, <2>4, <3>2, OffersBound
    <3>4. Lines(k) = Cardinality(Positions(k)) /\ Beside(k) = 0 /\ Cardinality(Positions(k)) \in Nat
      BY <2>4, <2>5, <3>1, FS_CardinalityType DEF Lines, Beside
    <3>5. QED
      BY <3>3, <3>4
  <2>6. CASE ~OnFile(config, k)
    <3> DEFINE F == IF k \notin Listed \/ config.stored[k] = "none" THEN {} ELSE Positions(k)
               W == IF config.identitiesOnly THEN F ELSE F \cup {0}
    <3>1. IsFiniteSet(F) /\ Cardinality(F) = Lines(k) /\ Lines(k) \in Nat /\ 0 \notin F
      BY <2>4, FS_EmptySet, FS_CardinalityType DEF Lines
    <3>2. \A i \in Positions(k) : i \in FilesOnly(config) => i \in F
      BY <2>4 DEF FilesOnly, Listed
    <3>3. config.identitiesOnly => ~ \E i \in AgentOffers(config) : config.agent[i] = k
      BY <2>6 DEF AgentOffers, AgentOnly, AgentOnFile
    <3> HIDE DEF F
    <3>4. IsFiniteSet(W) /\ Cardinality(W) = Lines(k) + Beside(k)
      <4>1. IsFiniteSet(F \cup {0}) /\ Cardinality(F \cup {0}) = Cardinality(F) + 1
        BY <3>1, FS_AddElement
      <4>2. CASE config.identitiesOnly
        BY <3>1, <4>2 DEF Beside
      <4>3. CASE ~config.identitiesOnly
        BY <2>6, <3>1, <4>1, <4>3 DEF Beside
      <4>4. QED
        BY <4>2, <4>3
    <3>5. /\ \A i \in Positions(k) : i \in FilesOnly(config) => i \in W /\ i # 0
          /\ (\E i \in AgentOffers(config) : config.agent[i] = k) => 0 \in W
      BY <2>4, <3>2, <3>3
    <3> HIDE DEF W
    <3>6. Cardinality(Offers(k)) <= Cardinality(W)
      BY <2>1, <3>4, <3>5, OffersBound
    <3>7. QED
      BY <3>4, <3>6
  <2>7. QED
    BY <2>5, <2>6
<1>2. QED
  BY <1>1, KeyInit, KeyStep, PTL DEF Spec

\* Unless the user left the password box or an await threw, a connection is given
\* up with no gathered key kept back: every way an identity is skipped (no file, a
\* wrong or dismissed passphrase) leads to the next.
THEOREM EveryKeyTried == Spec => []NoKeyKeptBack
<1>1. ASSUME KeyInv PROVE NoKeyKeptBack
  <2> SUFFICES ASSUME at = "refused", Usable("publickey"), cut \cap {"password", "exception"} = {}
               PROVE  tried = Gathered(config)
    BY DEF NoKeyKeptBack
  <2>1. keys = <<>>
    BY <1>1 DEF KeyInv, RefusedLast, KeyNext
  <2>2. tried \in Seq(Entry) /\ tried \o keys = Gathered(config)
    BY <1>1 DEF KeyInv, TypeOK, AllKeys
  <2>3. QED
    BY <2>1, <2>2
<1>2. QED
  BY <1>1, KeyInit, KeyStep, PTL DEF Spec

==============================================================================
