-------------------------- MODULE KnownHostsProofs --------------------------
(***************************************************************************)
(* For any number of windows, hosts and keys: no record appended to        *)
(* known_hosts is glued to the line before it, although each window looks  *)
(* for the newline in one step and writes in a later one.                  *)
(***************************************************************************)
EXTENDS KnownHosts, SequenceTheorems, Recursion

USE KnownHostsAssumption

\* A window that is about to append without a separator needs none: nobody
\* takes the newline away that it saw, or leaves one out on a file it saw empty.
NoSeparatorNeeded ==
    \A w \in Windows : window[w].pc = "append" /\ ~window[w].separator
                         => ended \/ lines = <<>>

IInv == TypeOK /\ RecordsIntact /\ NoSeparatorNeeded

\* A line put where none is glued, after a newline or a separator, is a line of its own.
LEMMA PutKeepsRecords ==
    ASSUME TypeOK, RecordsIntact,
           NEW line \in Lines, line.key # "glued",
           NEW separated \in BOOLEAN, lines = <<>> \/ ended \/ separated,
           Put(line, separated)
    PROVE  lines' \in Seq(Lines) /\ RecordsIntact' /\ ended'
<1>1. lines' = Append(lines, line) /\ ended'
  BY DEF Put
<1>2. lines \in Seq(Lines)
  BY DEF TypeOK
<1>3. lines' \in Seq(Lines) /\ Len(lines') = Len(lines) + 1
  BY <1>1, <1>2
<1>4. \A i \in 1..Len(lines') : lines'[i] = IF i <= Len(lines) THEN lines[i] ELSE line
  BY <1>1, <1>2
<1>5. QED
  BY <1>1, <1>2, <1>3, <1>4 DEF RecordsIntact

\* Initially nobody appends, and no line is glued.
LEMMA InitIInv == Init => IInv
<1> SUFFICES ASSUME Init PROVE IInv
  OBVIOUS
<1>1. \A w \in Windows : window[w] = IdleWindow
  BY DEF Init
<1>2. IdleWindow \in [pc: Pc, host: Hosts, key: Keys, separator: BOOLEAN]
  BY DEF IdleWindow, Pc
<1>3. lines \in Seq(Lines) /\ RecordsIntact
  <2>1. CASE lines = <<>>
    BY <2>1 DEF RecordsIntact
  <2>2. ASSUME NEW l \in Lines, l.key # "glued", lines = <<l>> PROVE lines \in Seq(Lines) /\ RecordsIntact
    BY <2>2 DEF RecordsIntact
  <2>3. QED
    BY <2>1, <2>2 DEF Init
<1>4. QED
  BY <1>1, <1>2, <1>3 DEF Init, IInv, TypeOK, NoSeparatorNeeded, IdleWindow

\* Every step keeps the invariant.
LEMMA StepIInv == IInv /\ [Next]_vars => IInv'
<1> SUFFICES ASSUME IInv, [Next]_vars PROVE IInv'
  OBVIOUS
<1> USE DEF IInv, NoSeparatorNeeded
<1>1. ASSUME NEW w \in Windows, Present(w) PROVE IInv'
  BY <1>1 DEF Present, TypeOK, RecordsIntact, Pc
<1>2. ASSUME NEW w \in Windows, Read(w) PROVE IInv'
  <2>1. IdleWindow \in [pc: Pc, host: Hosts, key: Keys, separator: BOOLEAN]
    BY DEF IdleWindow, Pc
  <2>2. \/ window' = [window EXCEPT ![w].pc = "verified"]
        \/ window' = [window EXCEPT ![w].pc = "ask"]
        \/ window' = [window EXCEPT ![w] = IdleWindow]
    BY <1>2 DEF Read
  <2>3. window[w] \in [pc: Pc, host: Hosts, key: Keys, separator: BOOLEAN]
    BY DEF TypeOK
  <2>4. window' \in [Windows -> [pc: Pc, host: Hosts, key: Keys, separator: BOOLEAN]]
    BY <2>1, <2>2, <2>3 DEF TypeOK, Pc
  <2>5. window'[w].pc # "append" /\ \A v \in Windows : v # w => window'[v] = window[v]
    BY <2>2, <2>3 DEF TypeOK, IdleWindow
  <2>6. UNCHANGED <<lines, ended>>
    BY <1>2 DEF Read
  <2>7. QED
    BY <2>4, <2>5, <2>6 DEF TypeOK, RecordsIntact
<1>3. ASSUME NEW w \in Windows, Accept(w) PROVE IInv'
  BY <1>3 DEF Accept, TypeOK, RecordsIntact, Pc
<1>4. ASSUME NEW w \in Windows, Probe(w) PROVE IInv'
  <2>1. /\ UNCHANGED <<lines, ended>>
        /\ window' \in [Windows -> [pc: Pc, host: Hosts, key: Keys, separator: BOOLEAN]]
    <3>1. window[w] \in [pc: Pc, host: Hosts, key: Keys, separator: BOOLEAN]
      BY DEF TypeOK
    <3>2. (lines # <<>> /\ ~ended) \in BOOLEAN
      OBVIOUS
    <3>3. QED
      BY <1>4, <3>1, <3>2 DEF Probe, TypeOK, Pc
  <2>2. QED
    BY <1>4, <2>1 DEF Probe, TypeOK, RecordsIntact
<1>5. ASSUME NEW w \in Windows, AppendRecord(w) PROVE IInv'
  <2> DEFINE record == Record(window[w].host, window[w].key)
  <2>1. record \in Lines /\ record.key # "glued"
    BY DEF TypeOK, Record, Lines, Fields, Markers
  <2>2. lines' \in Seq(Lines) /\ RecordsIntact' /\ ended'
    BY <1>5, <2>1, PutKeepsRecords DEF AppendRecord, TypeOK
  <2>3. window' \in [Windows -> [pc: Pc, host: Hosts, key: Keys, separator: BOOLEAN]]
    BY <1>5 DEF AppendRecord, TypeOK, Pc
  <2>4. ended' \in BOOLEAN
    BY <1>5 DEF AppendRecord, Put
  <2>5. QED
    BY <2>2, <2>3, <2>4 DEF TypeOK
<1>6. ASSUME NEW w \in Windows, Refuse(w) PROVE IInv'
  <2>1. IdleWindow \in [pc: Pc, host: Hosts, key: Keys, separator: BOOLEAN]
    BY DEF IdleWindow, Pc
  <2>2. QED
    BY <1>6, <2>1 DEF Refuse, TypeOK, RecordsIntact, Pc, IdleWindow
<1>7. CASE OtherAppends
  <2>1. PICK line \in Lines : line.key # "glued" /\ Put(line, TRUE)
    BY <1>7 DEF OtherAppends
  <2>2. lines' \in Seq(Lines) /\ RecordsIntact' /\ ended'
    BY <2>1, PutKeepsRecords
  <2>3. QED
    BY <1>7, <2>1, <2>2 DEF OtherAppends, Put, TypeOK
<1>8. CASE UNCHANGED vars
  BY <1>8 DEF vars, TypeOK, RecordsIntact
<1>9. QED
  BY <1>1, <1>2, <1>3, <1>4, <1>5, <1>6, <1>7, <1>8 DEF Next

------------------------------------------------------------------------------
(* The verdict. *)

Nothing == [revoked |-> FALSE, matched |-> FALSE, seen |-> FALSE]
Finding == [revoked: BOOLEAN, matched: BOOLEAN, seen: BOOLEAN]

\* The lines that revoke the key, record it, and record another for its host.
Revokes(host, key, line) == line = [marker |-> "revoked", host |-> host, key |-> key]
Matches(host, key, line) == line = [marker |-> "none", host |-> host, key |-> key]
Contradicts(host, key, line) ==
    line.marker = "none" /\ line.host = host /\ line.key \notin {"empty", key}

\* What the loop knows after n lines; once it has met a revocation it no longer
\* looks for anything.
Summary(host, key, file, n, found) ==
    /\ found \in Finding
    /\ found.revoked <=> \E i \in 1..n : Revokes(host, key, file[i])
    /\ ~found.revoked => /\ found.matched <=> \E i \in 1..n : Matches(host, key, file[i])
                         /\ found.seen <=> \E i \in 1..n : Contradicts(host, key, file[i])

\* One line, whatever it is.
LEMMA LookOnce ==
    ASSUME NEW host \in Hosts, NEW key \in Keys, NEW found \in Finding, NEW line \in Lines
    PROVE  /\ Look(host, key, found, line) \in Finding
           /\ Look(host, key, found, line).revoked <=> found.revoked \/ Revokes(host, key, line)
           /\ ~Look(host, key, found, line).revoked =>
                /\ Look(host, key, found, line).matched <=> found.matched \/ Matches(host, key, line)
                /\ Look(host, key, found, line).seen <=> found.seen \/ Contradicts(host, key, line)
<1>1. line.marker \in Markers /\ key \notin {"empty", "glued"}
      /\ \A m \in Markers : line = [marker |-> m, host |-> host, key |-> key]
                            <=> line.marker = m /\ line.host = host /\ line.key = key
  BY DEF Lines
<1>2. QED
  BY <1>1 DEF Look, Finding, Revokes, Matches, Contradicts, Markers

\* The loop is defined by its step, and walks the whole file.
LEMMA FoundSummary ==
    ASSUME NEW host \in Hosts, NEW key \in Keys, NEW file \in Seq(Lines)
    PROVE  Summary(host, key, file, Len(file), Found(host, key, file))
<1> DEFINE N == Len(file)
           Loop(f) == f = [n \in 0..N |-> IF n = 0 THEN Nothing
                                          ELSE Look(host, key, f[n - 1], file[n])]
           found == CHOOSE f : Loop(f)
           step == [p \in Finding \X (1..N) |-> Look(host, key, p[1], file[p[2]])]
<1>1. N \in Nat /\ \A n \in 1..N : file[n] \in Lines
  OBVIOUS
<1>2. Nothing \in Finding
  BY DEF Nothing, Finding
<1>3. step \in [Finding \X (1..N) -> Finding]
  BY <1>1, LookOnce
<1>4. \E f : Loop(f)
  <2>1. \A v \in Finding, n \in 1..N : step[<<v, n>>] = Look(host, key, v, file[n])
    OBVIOUS
  <2> HIDE DEF step, N
  <2>2. PICK f \in [0..N -> Finding] : Follows(f, Nothing, step, N)
    BY <1>1, <1>2, <1>3, RecursiveFunction
  <2>3. ASSUME NEW n \in 0..N, n # 0 PROVE f[n] = Look(host, key, f[n - 1], file[n])
    <3>1. n \in 1..N /\ n - 1 \in 0..N
      BY <1>1, <2>3
    <3>2. f[n - 1] \in Finding /\ f[n] = step[<<f[n - 1], n>>]
      BY <2>2, <3>1 DEF Follows
    <3>3. QED
      BY <2>1, <3>1, <3>2
  <2>4. Loop(f)
    BY <1>1, <2>2, <2>3 DEF Follows
  <2>5. QED
    BY <2>4
<1>5. Loop(found)
  BY <1>4
<1> HIDE DEF found
<1> DEFINE G == {n \in Nat : n <= N => Summary(host, key, file, n, found[n])}
<1>6. 0 \in G
  BY <1>1, <1>2, <1>5 DEF Summary, Nothing
<1>7. ASSUME NEW n \in Nat, n < N, n \in G PROVE n + 1 \in G
  <2>1. found[n + 1] = Look(host, key, found[n], file[n + 1])
    BY <1>1, <1>5, <1>7
  <2>2. Summary(host, key, file, n, found[n]) /\ file[n + 1] \in Lines
    BY <1>1, <1>7
  <2>3. \A i : i \in 1..(n + 1) <=> i \in 1..n \/ i = n + 1
    OBVIOUS
  <2> DEFINE now == found[n + 1]
             before == found[n]
             line == file[n + 1]
  <2>4. /\ before \in Finding
        /\ now = Look(host, key, before, line)
        /\ line \in Lines
    BY <2>1, <2>2 DEF Summary
  <2>5. /\ now \in Finding
        /\ now.revoked <=> before.revoked \/ Revokes(host, key, line)
        /\ ~now.revoked => /\ now.matched <=> before.matched \/ Matches(host, key, line)
                           /\ now.seen <=> before.seen \/ Contradicts(host, key, line)
    <3> HIDE DEF now, before, line
    <3>1. QED
      BY <2>4, LookOnce
  <2>6. /\ (\E i \in 1..(n + 1) : Revokes(host, key, file[i]))
             <=> (\E i \in 1..n : Revokes(host, key, file[i])) \/ Revokes(host, key, line)
        /\ (\E i \in 1..(n + 1) : Matches(host, key, file[i]))
             <=> (\E i \in 1..n : Matches(host, key, file[i])) \/ Matches(host, key, line)
        /\ (\E i \in 1..(n + 1) : Contradicts(host, key, file[i]))
             <=> (\E i \in 1..n : Contradicts(host, key, file[i])) \/ Contradicts(host, key, line)
    BY <2>3
  <2>7. Summary(host, key, file, n + 1, now)
    <3> HIDE DEF now, line
    <3>1. QED
      BY <2>2, <2>5, <2>6 DEF Summary
  <2>8. QED
    BY <2>7
<1>8. N \in G
  <2> HIDE DEF G
  <2>1. 0..N \subseteq G
    BY <1>1, <1>6, <1>7, Induction
  <2>2. QED
    BY <1>1, <2>1
<1>9. Found(host, key, file) = found[N]
  BY DEF Found, found, Nothing
<1>10. QED
  BY <1>1, <1>8, <1>9

\* The shape of every variable, for every constant.
THEOREM TypeCorrect == Spec => []TypeOK
<1>1. IInv => TypeOK
  BY DEF IInv
<1>2. QED
  BY InitIInv, StepIInv, <1>1, PTL DEF Spec

\* No append spoils a record (hostfile.ts:276-298).
THEOREM AppendsKeepRecords == Spec => []RecordsIntact
<1>1. IInv => RecordsIntact
  BY DEF IInv
<1>2. QED
  BY InitIInv, StepIInv, <1>1, PTL DEF Spec

\* What the loop returns depends on which lines the file has and not on their
\* order, for a file of any length (hostfile.ts:91-107).
THEOREM VerdictByContent == Spec => []VerdictOfTheFile
<1>1. ASSUME TypeOK, NEW host \in Hosts, NEW key \in Keys
      PROVE  LET verdict == VerifyHostKey(host, key, lines) IN
             /\ verdict = "revoked" <=> Says("revoked", host, key)
             /\ verdict = "known" <=> Says("none", host, key) /\ ~Says("revoked", host, key)
             /\ verdict = "unknown" <=> /\ ~Says("revoked", host, key)
                                        /\ \A f \in Fields \ {"empty"} : ~Says("none", host, f)
  <2> DEFINE found == Found(host, key, lines)
  <2>1. lines \in Seq(Lines) /\ \A i \in 1..Len(lines) : lines[i] \in Lines
    BY <1>1 DEF TypeOK
  <2>2. Summary(host, key, lines, Len(lines), found)
    BY <2>1, FoundSummary
  <2>3. Says("revoked", host, key) <=> found.revoked
    BY <2>2 DEF Summary, Says, Revokes
  <2>4. ~found.revoked => (Says("none", host, key) <=> found.matched)
    BY <2>2 DEF Summary, Says, Matches
  <2>5. ASSUME ~found.revoked
        PROVE  (\A f \in Fields \ {"empty"} : ~Says("none", host, f)) <=> ~found.matched /\ ~found.seen
    <3>1. \A i \in 1..Len(lines) :
            (\E f \in Fields \ {"empty"} : lines[i] = [marker |-> "none", host |-> host, key |-> f])
              <=> Matches(host, key, lines[i]) \/ Contradicts(host, key, lines[i])
      <4> SUFFICES ASSUME NEW line \in Lines
                   PROVE  (\E f \in Fields \ {"empty"} : line = [marker |-> "none", host |-> host, key |-> f])
                            <=> Matches(host, key, line) \/ Contradicts(host, key, line)
        BY <2>1
      <4>1. line.marker \in Markers /\ line.key \in Fields /\ key \in Fields \ {"empty"}
        BY DEF Lines, Fields
      <4>2. \A f \in Fields : line = [marker |-> "none", host |-> host, key |-> f]
                               <=> line.marker = "none" /\ line.host = host /\ line.key = f
        BY <4>1 DEF Lines
      <4>3. QED
        BY <4>1, <4>2 DEF Matches, Contradicts
    <3>2. QED
      BY <2>2, <2>5, <3>1 DEF Summary, Says
  <2>6. found \in Finding
    BY <2>2 DEF Summary
  <2> HIDE DEF found
  <2>7. QED
    BY <2>3, <2>4, <2>5, <2>6 DEF VerifyHostKey, found, Finding
<1>2. TypeOK => VerdictOfTheFile
  BY <1>1 DEF VerdictOfTheFile
<1>3. QED
  BY <1>2, TypeCorrect, PTL

------------------------------------------------------------------------------
(* Accepted keys. *)

\* An accepted key has a line of its own.
OnFile == \A w \in Windows : window[w].pc = "verified"
            => \E i \in 1..Len(lines) : Matches(window[w].host, window[w].key, lines[i])

\* A line put where none is glued leaves the others as they are.
LEMMA PutKeepsLines ==
    ASSUME TypeOK, NEW line \in Lines, NEW separated \in BOOLEAN,
           lines = <<>> \/ ended \/ separated, Put(line, separated)
    PROVE  /\ \A i \in 1..Len(lines) : i \in 1..Len(lines') /\ lines'[i] = lines[i]
           /\ Len(lines') \in 1..Len(lines') /\ lines'[Len(lines')] = line
<1>1. lines' = Append(lines, line) /\ lines \in Seq(Lines)
  BY DEF Put, TypeOK
<1>2. QED
  BY <1>1

\* Whatever a window says is known is on file.
LEMMA StepOnFile == IInv /\ OnFile /\ [Next]_vars => OnFile'
<1> SUFFICES ASSUME IInv, OnFile, [Next]_vars PROVE OnFile'
  OBVIOUS
<1> DEFINE Kept == \A i \in 1..Len(lines) : i \in 1..Len(lines') /\ lines'[i] = lines[i]
<1>1. TypeOK /\ \A w \in Windows : /\ window[w].host \in Hosts /\ window[w].key \in Keys
                                   /\ window[w].separator \in BOOLEAN
  BY DEF IInv, TypeOK
\* A window whose record does not change, or that is not verified, needs no more.
<1>2. ASSUME Kept,
             \A w \in Windows : \/ window'[w].pc # "verified"
                               \/ window'[w] = window[w]
                               \/ \E i \in 1..Len(lines') : Matches(window'[w].host, window'[w].key, lines'[i])
      PROVE  OnFile'
  BY <1>2 DEF OnFile
<1>3. ASSUME NEW w \in Windows, Present(w) \/ Accept(w) \/ Probe(w) \/ Refuse(w) PROVE OnFile'
  BY <1>1, <1>2, <1>3 DEF Present, Accept, Probe, Refuse, IdleWindow, TypeOK
<1>4. ASSUME NEW w \in Windows, Read(w) PROVE OnFile'
  <2> DEFINE host == window[w].host
             key == window[w].key
  <2>1. UNCHANGED lines /\ \A v \in Windows \ {w} : window'[v] = window[v]
    BY <1>1, <1>4 DEF Read, TypeOK
  <2>2. CASE VerifyHostKey(host, key, lines) = "known"
    <3>1. Summary(host, key, lines, Len(lines), Found(host, key, lines))
      BY <1>1, FoundSummary DEF TypeOK
    <3>2. \E i \in 1..Len(lines) : Matches(host, key, lines[i])
      BY <2>2, <3>1 DEF Summary, VerifyHostKey, Finding
    <3>3. window'[w].host = host /\ window'[w].key = key
      BY <1>1, <1>4, <2>2 DEF Read, TypeOK
    <3>4. QED
      BY <1>2, <2>1, <3>2, <3>3
  <2>3. CASE VerifyHostKey(host, key, lines) # "known"
    <3>1. window'[w].pc # "verified"
      BY <1>1, <1>4, <2>3 DEF Read, TypeOK, IdleWindow
    <3>2. QED
      BY <1>2, <2>1, <3>1
  <2>4. QED
    BY <2>2, <2>3
<1>5. ASSUME NEW w \in Windows, AppendRecord(w) PROVE OnFile'
  <2> DEFINE record == Record(window[w].host, window[w].key)
  <2>1. record \in Lines /\ Matches(window[w].host, window[w].key, record)
    BY <1>1 DEF Record, Lines, Fields, Markers, Matches
  <2>2. Kept /\ \E i \in 1..Len(lines') : lines'[i] = record
    BY <1>1, <1>5, <2>1, PutKeepsLines DEF AppendRecord, IInv, NoSeparatorNeeded
  <2>3. /\ \A v \in Windows \ {w} : window'[v] = window[v]
        /\ window'[w].host = window[w].host /\ window'[w].key = window[w].key
    BY <1>1, <1>5 DEF AppendRecord, TypeOK
  <2> HIDE DEF record
  <2>4. QED
    BY <1>2, <2>1, <2>2, <2>3
<1>6. CASE OtherAppends
  <2>1. PICK line \in Lines : Put(line, TRUE)
    BY <1>6 DEF OtherAppends
  <2>2. Kept /\ UNCHANGED window
    BY <1>1, <1>6, <2>1, PutKeepsLines DEF OtherAppends
  <2>3. QED
    BY <1>2, <2>2
<1>7. CASE UNCHANGED vars
  BY <1>2, <1>7 DEF vars
<1>8. QED
  BY <1>3, <1>4, <1>5, <1>6, <1>7 DEF Next

\* An accepted key stays on file, whatever other windows and programs append, so
\* that the next connection to the host does not ask (authResolver.ts:864-918).
THEOREM AcceptedStays == Spec => []AcceptedIsRecorded
<1>1. Init => OnFile
  BY DEF Init, OnFile, IdleWindow
<1>2. IInv /\ OnFile => AcceptedIsRecorded
  <2> SUFFICES ASSUME IInv, OnFile, NEW w \in Windows, window[w].pc = "verified"
               PROVE  VerifyHostKey(window[w].host, window[w].key, lines) \in {"known", "revoked"}
    BY DEF AcceptedIsRecorded
  <2>1. window[w].host \in Hosts /\ window[w].key \in Keys /\ lines \in Seq(Lines)
    BY DEF IInv, TypeOK
  <2>2. Summary(window[w].host, window[w].key, lines, Len(lines),
                Found(window[w].host, window[w].key, lines))
    BY <2>1, FoundSummary
  <2>3. QED
    BY <2>2 DEF OnFile, Summary, VerifyHostKey, Finding
<1>3. QED
  BY InitIInv, StepIInv, <1>1, StepOnFile, <1>2, PTL DEF Spec

=============================================================================
