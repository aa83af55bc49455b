----------------------------- MODULE KnownHosts -----------------------------
(***************************************************************************)
(* The check of a host key against ~/.ssh/known_hosts                      *)
(* (src/src/ssh/hostfile.ts), as the host verifier of each connection runs *)
(* it (src/src/authResolver.ts:864-918).  Several windows and other        *)
(* programs share the file: a window reads it, asks the user about a key   *)
(* it has no record of, and appends the record, each in a step of its own. *)
(*                                                                         *)
(* A line is what the code can tell of it: the marker, the host it names   *)
(* and the key.  Hashed and plaintext host fields both match their host.   *)
(***************************************************************************)
EXTENDS Naturals, Sequences

CONSTANTS
    Windows,   \* verifications that may run at once
    Hosts, Keys,
    MaxLines   \* lines of the file

Markers == {"none", "revoked", "ca"}

\* A key field: a key, nothing, or what a record glued to the line leaves there.
Fields == Keys \cup {"empty", "glued"}
Lines == [marker: Markers, host: Hosts, key: Fields]

\* Mutant of Record: the host is left out.
RecordKeyOnly(host, key) == [marker |-> "none", key |-> key]

Record(host, key) == [marker |-> "none", host |-> host, key |-> key]

ASSUME KnownHostsAssumption ==
    /\ MaxLines \in Nat
    /\ Hosts # {} /\ Keys # {}
    /\ Keys \cap {"empty", "glued"} = {}

VARIABLES
    lines,  \* the file
    ended,  \* whether its last byte is a newline
    window  \* each verification: its host and key, where it is, its separator

vars == <<lines, ended, window>>

Pc == {"idle", "read", "ask", "open", "append", "verified"}

\* No verification is going on, or the last one refused the key.
IdleWindow == [pc |-> "idle", host |-> CHOOSE h \in Hosts : TRUE,
               key |-> CHOOSE k \in Keys : TRUE, separator |-> FALSE]

------------------------------------------------------------------------------
(* verifyHostKey: one pass over the lines. *)

\* Mutant of Look: the first record that matches decides.
LookFirstMatch(host, key, found, line) ==
    IF found.revoked \/ found.matched \/ line.host # host \/ line.key = "empty"
       \/ line.marker = "ca" THEN found
    ELSE IF line.marker = "revoked" THEN [found EXCEPT !.revoked = @ \/ line.key = key]
    ELSE IF line.key = key THEN [found EXCEPT !.matched = TRUE]
    ELSE [found EXCEPT !.seen = TRUE]

\* The loop's body; a revoked key ends the loop.
Look(host, key, found, line) ==
    IF found.revoked \/ line.host # host \/ line.key = "empty" \/ line.marker = "ca" THEN found
    ELSE IF line.marker = "revoked" THEN [found EXCEPT !.revoked = @ \/ line.key = key]
    ELSE IF line.key = key THEN [found EXCEPT !.matched = TRUE]
    ELSE [found EXCEPT !.seen = TRUE]

\* The loop: what it has found after each line.
Found(host, key, file) ==
    LET found[n \in 0..Len(file)] ==
            IF n = 0 THEN [revoked |-> FALSE, matched |-> FALSE, seen |-> FALSE]
            ELSE Look(host, key, found[n - 1], file[n])
    IN  found[Len(file)]

VerifyHostKey(host, key, file) ==
    LET found == Found(host, key, file)
    IN CASE found.revoked                                     -> "revoked"
         [] ~found.revoked /\ found.matched                   -> "known"
         [] ~found.revoked /\ ~found.matched /\ found.seen    -> "mismatch"
         [] ~found.revoked /\ ~found.matched /\ ~found.seen   -> "unknown"

------------------------------------------------------------------------------
(* What an append does to the file. *)

\* With no newline before it, the record becomes the end of the last line.
Glue(line) == [line EXCEPT !.key = "glued"]
Put(line, separated) ==
    /\ lines' = IF lines = <<>> \/ ended \/ separated
                  THEN Append(lines, line)
                  ELSE [lines EXCEPT ![Len(lines)] = Glue(@)]
    /\ ended' = TRUE

------------------------------------------------------------------------------

Init ==
    \* OtherAppends makes the longer files.
    /\ lines \in {<<>>} \cup {<<l>> : l \in {l \in Lines : l.key # "glued"}}
    /\ ended \in BOOLEAN
    /\ window = [w \in Windows |-> IdleWindow]

\* The host presents its key.
Present(w) ==
    /\ window[w].pc \in {"idle", "verified"}
    /\ \E host \in Hosts, key \in Keys :
         window' = [window EXCEPT ![w] = [pc |-> "read", host |-> host, key |-> key,
                                          separator |-> FALSE]]
    /\ UNCHANGED <<lines, ended>>

\* The file is read: known keys are accepted, contradicted ones refused.
Read(w) ==
    /\ window[w].pc = "read"
    /\ LET verdict == VerifyHostKey(window[w].host, window[w].key, lines) IN
         \/ verdict = "known" /\ window' = [window EXCEPT ![w].pc = "verified"]
         \/ verdict = "unknown" /\ window' = [window EXCEPT ![w].pc = "ask"]
         \/ verdict \in {"mismatch", "revoked"} /\ window' = [window EXCEPT ![w] = IdleWindow]
    /\ UNCHANGED <<lines, ended>>

\* Mutant of Accept: the key is accepted for this connection only.
AcceptOnce(w) ==
    /\ window[w].pc = "ask"
    /\ window' = [window EXCEPT ![w].pc = "verified"]
    /\ UNCHANGED <<lines, ended>>

\* The user answers Continue.
Accept(w) ==
    /\ window[w].pc = "ask"
    /\ window' = [window EXCEPT ![w].pc = "open"]
    /\ UNCHANGED <<lines, ended>>

\* Mutant of Probe: the separator is left out.
ProbeNothing(w) ==
    /\ window[w].pc = "open"
    /\ window' = [window EXCEPT ![w].pc = "append", ![w].separator = FALSE]
    /\ UNCHANGED <<lines, ended>>

\* addHostToHostFile opens the file and looks at its last byte.
Probe(w) ==
    /\ window[w].pc = "open"
    /\ window' = [window EXCEPT ![w].pc = "append", ![w].separator = lines # <<>> /\ ~ended]
    /\ UNCHANGED <<lines, ended>>

\* The record is appended and the key accepted.
AppendRecord(w) ==
    /\ window[w].pc = "append"
    /\ Len(lines) < MaxLines
    /\ Put(Record(window[w].host, window[w].key), window[w].separator)
    /\ window' = [window EXCEPT ![w].pc = "verified", ![w].separator = FALSE]

\* The user declines, or the file cannot be read or written.
Refuse(w) ==
    /\ window[w].pc \in {"read", "ask", "open", "append"}
    /\ window' = [window EXCEPT ![w] = IdleWindow]
    /\ UNCHANGED <<lines, ended>>

\* Another program adds a whole line, as OpenSSH does.
OtherAppends ==
    /\ Len(lines) < MaxLines
    /\ \E line \in Lines : line.key # "glued" /\ Put(line, TRUE)
    /\ UNCHANGED window

Next ==
    \/ \E w \in Windows : \/ Present(w) \/ Read(w) \/ Accept(w) \/ Probe(w)
                          \/ AppendRecord(w) \/ Refuse(w)
    \/ OtherAppends

Spec == Init /\ [][Next]_vars

------------------------------------------------------------------------------
(* Properties *)

\* The shape of every variable.
TypeOK ==
    /\ lines \in Seq(Lines)
    /\ ended \in BOOLEAN
    /\ window \in [Windows -> [pc: Pc, host: Hosts, key: Keys, separator: BOOLEAN]]

\* What the loop returns depends on the lines and not on their order: a revoked
\* key is revoked wherever the line stands, a recorded key is known beside any
\* other, and only a record of another key contradicts (hostfile.ts:91-107).
Says(marker, host, key) == \E i \in 1..Len(lines) : lines[i] = [marker |-> marker, host |-> host, key |-> key]
VerdictOfTheFile ==
    \A host \in Hosts, key \in Keys :
        LET verdict == VerifyHostKey(host, key, lines) IN
        /\ verdict = "revoked" <=> Says("revoked", host, key)
        /\ verdict = "known" <=> Says("none", host, key) /\ ~Says("revoked", host, key)
        /\ verdict = "unknown" <=> /\ ~Says("revoked", host, key)
                                   /\ \A f \in Fields \ {"empty"} : ~Says("none", host, f)

\* No append spoils the line before it, though each window looked at the end of
\* the file in an earlier step than it writes (hostfile.ts:276-284).
RecordsIntact == \A i \in 1..Len(lines) : lines[i].key # "glued"

\* A key accepted is on file: the next connection to the host does not ask
\* again, unless the key has been revoked since.
AcceptedIsRecorded ==
    \A w \in Windows : window[w].pc = "verified"
        => VerifyHostKey(window[w].host, window[w].key, lines) \in {"known", "revoked"}

==============================================================================
