------------------------- MODULE PasteImageProofs -------------------------
(***************************************************************************)
(* For any number of pastes, readers and mishaps: what a paste does to the *)
(* user is one thing and the right one, and an image on the remote is      *)
(* private, and all that the reader gave where a path was typed for it.    *)
(***************************************************************************)
EXTENDS PasteImage, TLAPS

USE PasteImageAssumption

------------------------------------------------------------------------------
(* What the steps of a run do to its record. *)

\* The runs other than p are where they were.
OthersStay(p) == \A q \in Pastes \ {p} : paste'[q] = paste[q]

\* GoTo moves one run.
LEMMA Goes ==
  ASSUME TypeOK, NEW p \in Pastes,
         NEW pc \in {"text", "capture", "webview", "found", "delay", "await", "fallback", "done",
                     "lost"},
         GoTo(p, pc)
  PROVE  /\ paste' \in [Pastes -> Runs] /\ OthersStay(p)
         /\ paste'[p].pc = pc /\ paste'[p].bytes = paste[p].bytes
         /\ paste'[p].handled = paste[p].handled /\ paste'[p].left = paste[p].left
<1>1. paste[p] \in Runs
  BY DEF TypeOK
<1>2. [paste[p] EXCEPT !.pc = pc] \in Runs
  BY <1>1 DEF Runs
<1>3. paste' = [paste EXCEPT ![p] = [paste[p] EXCEPT !.pc = pc]]
  BY DEF GoTo
<1>4. paste'[p] = [paste[p] EXCEPT !.pc = pc]
  BY <1>3 DEF TypeOK
<1>5. OthersStay(p) /\ paste' \in [Pastes -> Runs]
  BY <1>2, <1>3 DEF TypeOK, OthersStay
<1>6. QED
  BY <1>1, <1>4, <1>5 DEF Runs

\* Return moves one run to its finally.
LEMMA Returns ==
  ASSUME TypeOK, NEW p \in Pastes, NEW handled \in BOOLEAN, Return(p, handled)
  PROVE  /\ paste' \in [Pastes -> Runs] /\ OthersStay(p)
         /\ paste'[p].pc = "tidy" /\ paste'[p].bytes = paste[p].bytes
         /\ paste'[p].handled = handled /\ paste'[p].left = paste[p].left
<1>1. paste[p] \in Runs
  BY DEF TypeOK
<1>2. [paste[p] EXCEPT !.pc = "tidy", !.handled = handled] \in Runs
  BY <1>1 DEF Runs
<1>3. paste' = [paste EXCEPT ![p] = [paste[p] EXCEPT !.pc = "tidy", !.handled = handled]]
  BY DEF Return
<1>4. paste'[p] = [paste[p] EXCEPT !.pc = "tidy", !.handled = handled]
  BY <1>3 DEF TypeOK
<1>5. OthersStay(p) /\ paste' \in [Pastes -> Runs]
  BY <1>2, <1>3 DEF TypeOK, OthersStay
<1>6. QED
  BY <1>1, <1>4, <1>5 DEF Runs

\* A reader is done with, and has found an image or not.
LEMMA Takes ==
  ASSUME TypeOK, NEW p \in Pastes, NEW bytes \in {"none", "ok", "big", "part"}, Took(p, bytes),
         paste[p].left # <<>>
  PROVE  /\ paste' \in [Pastes -> Runs] /\ OthersStay(p)
         /\ paste'[p].bytes = bytes /\ paste'[p].handled = paste[p].handled
         /\ paste'[p].left = Tail(paste[p].left)
         /\ paste'[p].pc = IF bytes = "none" THEN "capture" ELSE "found"
         /\ seen' = [seen EXCEPT ![p] = seen[p] \/ bytes \notin {"none", "big"}]
<1> DEFINE new == [paste[p] EXCEPT !.left = Tail(paste[p].left), !.bytes = bytes,
                                   !.pc = IF bytes = "none" THEN "capture" ELSE "found"]
<1>1. paste[p] \in Runs /\ paste[p].left \in Seq(Kinds)
  BY DEF TypeOK, Runs
<1>2. Tail(paste[p].left) \in Seq(Kinds)
  BY <1>1
<1>3. new \in Runs
  BY <1>1, <1>2 DEF Runs
<1>4. paste' = [paste EXCEPT ![p] = new]
  BY DEF Took
<1>5. paste'[p] = new
  BY <1>4 DEF TypeOK
<1>6. new.bytes = bytes /\ new.handled = paste[p].handled /\ new.left = Tail(paste[p].left)
      /\ new.pc = IF bytes = "none" THEN "capture" ELSE "found"
  BY <1>1 DEF Runs
<1>7. seen' = [seen EXCEPT ![p] = seen[p] \/ bytes \notin {"none", "big"}]
  BY Zenon DEF Took, TypeOK
<1>8. QED
  BY <1>3, <1>4, <1>5, <1>6, <1>7 DEF TypeOK, OthersStay

\* The panel of a read that settles goes, and so does its run.
LEMMA Finishes ==
  ASSUME TypeOK, NEW p \in Pastes, NEW bytes \in {"none", "ok"}, Finish(p, bytes)
  PROVE  /\ paste' \in [Pastes -> Runs] /\ OthersStay(p) /\ paste'[p].left = paste[p].left
         /\ \/ /\ paste'[p].pc = "lost" /\ terminal[p] = "disposed"
               /\ paste'[p].bytes = paste[p].bytes
            \/ /\ paste'[p].pc = "tidy" /\ bytes = "none"
               /\ paste'[p].bytes = paste[p].bytes /\ paste'[p].handled = FALSE
            \/ paste'[p].pc = "found" /\ bytes = "ok" /\ paste'[p].bytes = "ok"
<1>1. CASE terminal[p] = "disposed"
  BY <1>1, Goes DEF Finish
<1>2. CASE terminal[p] # "disposed" /\ bytes = "none"
  BY <1>2, Returns DEF Finish, Resolved
<1>3. CASE terminal[p] # "disposed" /\ bytes = "ok"
  <2> DEFINE new == [paste[p] EXCEPT !.pc = "found", !.bytes = "ok"]
  <2>1. paste[p] \in Runs
    BY DEF TypeOK
  <2>2. new \in Runs /\ new.pc = "found" /\ new.bytes = "ok" /\ new.left = paste[p].left
    BY <2>1 DEF Runs
  <2>3. paste' = [paste EXCEPT ![p] = new]
    BY <1>3 DEF Finish, Resolved
  <2>4. QED
    BY <1>3, <2>2, <2>3 DEF TypeOK, OthersStay
<1>4. QED
  BY <1>1, <1>2, <1>3

------------------------------------------------------------------------------
(* The shape of the state. *)

\* The readers a run has left are readers of the machine, and a file is stuck only when
\* its run is past its finally.
Readers(p) ==
    /\ (\E i \in DOMAIN paste[p].left : paste[p].left[i] = "forced") => Forced
    /\ local[p] = "stuck" => At(p, "fallback") \/ At(p, "done")

Shape == TypeOK /\ \A p \in Pastes : Readers(p)

\* A panel keeps to its read when a step leaves the panels alone and moves the run p
\* from a state without a panel to another.
LEMMA PanelsStay ==
  ASSUME TypeOK, NEW p \in Pastes, OthersStay(p), UNCHANGED page,
         paste[p].pc # "webview", paste'[p].pc # "webview"
  PROVE  PanelMatches'
BY DEF TypeOK, PanelMatches, At, OthersStay

\* The initial states.
LEMMA InitTypeOK == Init => TypeOK
<1> SUFFICES ASSUME Init PROVE TypeOK
  OBVIOUS
<1>1. \A p \in Pastes : paste[p] = [pc |-> "idle", left |-> <<>>, hasText |-> FALSE,
                                    bytes |-> "none", handled |-> FALSE]
  BY DEF Init
<1>2. paste \in [Pastes -> Runs]
  BY DEF Init, Runs
<1>3. page \in [Pastes -> Pages] /\ PanelMatches
  BY <1>1 DEF Init, Pages, NoPage, Images, PanelMatches, At
<1>4. QED
  BY <1>2, <1>3 DEF Init, TypeOK

\* The readers come next, and nothing was found yet.
LEMMA TextRead ==
  ASSUME TypeOK, NEW p \in Pastes, ClipboardHasText(p)
  PROVE  /\ paste' \in [Pastes -> Runs] /\ OthersStay(p)
         /\ paste'[p].pc = "capture" /\ paste'[p].bytes = paste[p].bytes
         /\ paste'[p].left = native
<1> DEFINE new(text) == [paste[p] EXCEPT !.pc = "capture", !.left = native, !.hasText = text]
<1>1. paste[p] \in Runs /\ clip.text \in BOOLEAN /\ native \in Seq(Kinds)
  BY DEF TypeOK
<1>2. \A text \in BOOLEAN :
        /\ new(text) \in Runs /\ new(text).pc = "capture"
        /\ new(text).bytes = paste[p].bytes /\ new(text).left = native
  BY <1>1 DEF Runs
<1>3. PICK text \in BOOLEAN : paste' = [paste EXCEPT ![p] = new(text)]
  <2>1. CASE paste' = [paste EXCEPT ![p] = new(clip.text)]
    BY <1>1, <2>1
  <2>2. CASE paste' = [paste EXCEPT ![p] = [paste[p] EXCEPT !.pc = "capture", !.hasText = FALSE,
                                                            !.left = native]]
    <3>1. [paste[p] EXCEPT !.pc = "capture", !.hasText = FALSE, !.left = native] = new(FALSE)
      BY <1>1 DEF Runs
    <3>2. QED
      BY <2>2, <3>1
  <2>3. QED
    BY <2>1, <2>2, Zenon DEF ClipboardHasText, Unreadable
<1>4. QED
  BY <1>2, <1>3 DEF TypeOK, OthersStay

\* What a reader hands over is the whole image or nothing, or a piece of it on a machine
\* with readers that exit 0 all the same.
LEMMA ReaderTakes ==
  ASSUME TypeOK, NEW p \in Pastes, Readers(p), RunCaptureCandidate(p)
  PROVE  \E bytes \in {"none", "ok", "big", "part"} :
           /\ Took(p, bytes)
           /\ local' \in [Pastes -> {"absent", "part", "ok", "big", "stuck"}]
           /\ bytes = "part" => Forced
<1>1. clip.image \in {"none", "ok", "big"} /\ paste[p].left \in Seq(Kinds) /\ paste[p].left # <<>>
  BY DEF TypeOK, Images, Runs, RunCaptureCandidate
<1>2. CASE ReadStdout(p)
  BY <1>2 DEF ReadStdout, TypeOK
<1>3. CASE ReadFile(p)
  BY <1>1, <1>3 DEF ReadFile, TypeOK
<1>4. CASE Took(p, "none") /\ UNCHANGED local
  BY <1>4 DEF TypeOK
<1>5. CASE clip.image # "none" /\ WriteGoesWrong(p)
  <2>1. local[p] \in {"absent", "part", "ok", "big"}
    BY DEF RunCaptureCandidate, Readers, At, TypeOK
  <2>2. PICK leaves \in {"absent", "part", "ok", "big", "none"} :
          /\ local' = [local EXCEPT ![p] = leaves] /\ leaves # "none"
          /\ Took(p, "none") \/ (Head(paste[p].left) = "forced" /\ Took(p, ReadBack(leaves)))
    BY <1>1, <1>5, <2>1 DEF WriteGoesWrong
  <2>3. local' \in [Pastes -> {"absent", "part", "ok", "big", "stuck"}]
    BY <2>2 DEF TypeOK
  <2>4. CASE Took(p, "none")
    BY <2>3, <2>4
  <2>5. CASE Head(paste[p].left) = "forced" /\ Took(p, ReadBack(leaves))
    <3>1. ReadBack(leaves) \in {"none", "ok", "big", "part"}
      BY <2>2 DEF ReadBack
    <3>2. Forced
      BY <1>1, <2>5 DEF Readers
    <3>3. QED
      BY <2>3, <2>5, <3>1, <3>2
  <2>6. QED
    BY <2>2, <2>4, <2>5
<1>6. QED
  BY <1>2, <1>3, <1>4, <1>5 DEF RunCaptureCandidate

\* The steps up to the upload keep the shape.
LEMMA CaptureTypeOK ==
  ASSUME TypeOK, NEW p \in Pastes, Readers(p),
         Start(p) \/ ClipboardHasText(p) \/ RunCaptureCandidate(p) \/ NoReaderLeft(p)
  PROVE  TypeOK'
<1>1. CASE Start(p)
  <2>1. paste' \in [Pastes -> Runs] /\ OthersStay(p) /\ paste'[p].pc # "webview"
    BY <1>1, Goes DEF Start
  <2>2. PanelMatches'
    BY <1>1, <2>1, PanelsStay DEF Start, At
  <2>3. QED
    BY <1>1, <2>1, <2>2 DEF Start, TypeOK, here, remote
<1>2. CASE ClipboardHasText(p)
  <2>4. paste' \in [Pastes -> Runs] /\ OthersStay(p) /\ paste'[p].pc # "webview"
    BY <1>2, TextRead
  <2>5. PanelMatches'
    BY <1>2, <2>4, PanelsStay DEF ClipboardHasText, At
  <2>6. QED
    BY <1>2, <2>4, <2>5 DEF ClipboardHasText, TypeOK, here, remote, Mishap, NoMishap
<1>3. CASE RunCaptureCandidate(p)
  <2>1. paste[p].left # <<>>
    BY <1>3 DEF RunCaptureCandidate
  <2>2. PICK bytes \in {"none", "ok", "big", "part"} :
          Took(p, bytes) /\ local' \in [Pastes -> {"absent", "part", "ok", "big", "stuck"}]
    BY <1>3, ReaderTakes
  <2>3. /\ paste' \in [Pastes -> Runs] /\ OthersStay(p) /\ paste'[p].pc # "webview"
        /\ seen' \in [Pastes -> BOOLEAN]
    <3>1. /\ paste' \in [Pastes -> Runs] /\ OthersStay(p) /\ paste'[p].pc # "webview"
          /\ seen' = [seen EXCEPT ![p] = seen[p] \/ bytes \notin {"none", "big"}]
      BY <2>1, <2>2, Takes
    <3>2. (seen[p] \/ bytes \notin {"none", "big"}) \in BOOLEAN /\ seen \in [Pastes -> BOOLEAN]
      BY DEF TypeOK
    <3>3. QED
      BY <3>1, <3>2, Zenon
  <2>4. PanelMatches'
    BY <1>3, <2>3, PanelsStay DEF RunCaptureCandidate, At
  <2>5. QED
    BY <1>3, <2>2, <2>3, <2>4 DEF RunCaptureCandidate, TypeOK, here, remote, Mishap, NoMishap
<1>4. CASE NoReaderLeft(p)
  <2>1. CASE paste[p].hasText
    <3>1. paste' \in [Pastes -> Runs] /\ OthersStay(p) /\ paste'[p].pc # "webview"
      BY <1>4, <2>1, Returns DEF NoReaderLeft
    <3>2. PanelMatches'
      BY <1>4, <2>1, <3>1, PanelsStay DEF NoReaderLeft, At
    <3>3. QED
      BY <1>4, <2>1, <3>1, <3>2 DEF NoReaderLeft, TypeOK, here, remote
  <2>2. CASE ~paste[p].hasText
    <3>1. paste' \in [Pastes -> Runs] /\ OthersStay(p) /\ paste'[p].pc = "webview"
      BY <1>4, <2>2, Goes DEF NoReaderLeft
    <3>2. [NoPage EXCEPT !.at = "reading"] \in Pages /\ [NoPage EXCEPT !.at = "reading"].at # "none"
      BY DEF NoPage, Pages, Images
    <3>3. page' = [page EXCEPT ![p] = [NoPage EXCEPT !.at = "reading"]]
      BY <1>4, <2>2 DEF NoReaderLeft
    <3>4. page' \in [Pastes -> Pages] /\ PanelMatches'
      BY <3>1, <3>2, <3>3 DEF TypeOK, PanelMatches, At, OthersStay
    <3>5. QED
      BY <1>4, <3>1, <3>4 DEF NoReaderLeft, TypeOK, here, remote
  <2>3. QED
    BY <2>1, <2>2
<1>5. QED
  BY <1>1, <1>2, <1>3, <1>4

\* A page that says something is still there.
LEMMA Sends ==
  ASSUME TypeOK, NEW p \in Pastes, page[p].at # "none", UNCHANGED paste,
         NEW new \in Pages, new.at # "none", page' = [page EXCEPT ![p] = new]
  PROVE  page' \in [Pastes -> Pages] /\ PanelMatches'
BY DEF TypeOK, PanelMatches, At

\* The steps of the webview keep the shape.
LEMMA WebviewTypeOK ==
  ASSUME TypeOK, NEW p \in Pastes, Webview(p)
  PROVE  TypeOK'
<1>1. page[p] \in Pages /\ clip.image \in Images
  BY DEF TypeOK
<1>2. \A msg \in {"none", "empty", "ok", "big"} :
        LET new == [page[p] EXCEPT !.at = "sent", !.msg = msg] IN new \in Pages /\ new.at # "none"
  BY <1>1 DEF Pages
<1>3. CASE PageReads(p) \/ PageLoaded(p) \/ PageEscape(p)
  <2>1. PICK new \in Pages : new.at # "none" /\ page' = [page EXCEPT ![p] = new]
    <3>1. ASSUME NEW msg \in {"none", "empty", "ok", "big"}, Send(p, msg)
          PROVE  \E new \in Pages : new.at # "none" /\ page' = [page EXCEPT ![p] = new]
      BY <1>2, <3>1 DEF Send
    <3>2. CASE page' = [page EXCEPT ![p].at = "loading", ![p].blob = clip.image]
      <4> DEFINE new == [page[p] EXCEPT !.at = "loading", !.blob = clip.image]
      <4>1. new \in Pages /\ new.at # "none"
        BY <1>1 DEF Pages
      <4>2. page' = [page EXCEPT ![p] = new]
        BY <3>2
      <4>3. QED
        BY <4>1, <4>2
    <3>3. CASE page' = [page EXCEPT ![p].at = "manual"]
      <4> DEFINE new == [page[p] EXCEPT !.at = "manual"]
      <4>1. new \in Pages /\ new.at # "none"
        BY <1>1 DEF Pages
      <4>2. page' = [page EXCEPT ![p] = new]
        BY <3>3
      <4>3. QED
        BY <4>1, <4>2
    <3>4. CASE PageLoaded(p) /\ Send(p, page[p].blob)
      BY <1>1, <3>1, <3>4 DEF Pages, Images
    <3>5. QED
      BY <1>3, <3>1, <3>2, <3>3, <3>4 DEF PageReads, PageLoaded, PageEscape
  <2>2. page[p].at # "none" /\ UNCHANGED paste
    BY <1>3 DEF PageReads, PageLoaded, PageEscape
  <2>3. page' \in [Pastes -> Pages] /\ PanelMatches'
    BY <2>1, <2>2, Sends
  <2>4. QED
    BY <1>3, <2>3 DEF PageReads, PageLoaded, PageEscape, TypeOK, here, remote, Mishap, NoMishap
<1>4. ASSUME NEW bytes \in {"none", "ok"}, Finish(p, bytes), seen' \in [Pastes -> BOOLEAN]
      PROVE  TypeOK'
  <2>1. paste' \in [Pastes -> Runs] /\ OthersStay(p) /\ paste'[p].pc # "webview"
    BY <1>4, Finishes
  <2>2. NoPage \in Pages /\ NoPage.at = "none"
    BY DEF NoPage, Pages, Images
  <2>3. page' \in [Pastes -> Pages] /\ PanelMatches'
    BY <1>4, <2>1, <2>2 DEF Finish, Disposed, TypeOK, PanelMatches, At, OthersStay
  <2>4. QED
    BY <1>4, <2>1, <2>3 DEF Finish, TypeOK, here, remote
<1>5. CASE Receive(p)
  BY <1>4, <1>5 DEF Receive, TypeOK
<1>6. CASE Dismiss(p) \/ TimesOut(p)
  BY <1>4, <1>6 DEF Dismiss, TimesOut, TypeOK
<1>7. QED
  BY <1>3, <1>5, <1>6 DEF Webview

\* Another effect of a paste is an effect.
LEMMA EffectsGrow ==
  ASSUME TypeOK, NEW p \in Pastes, NEW e \in {"text", "path", "error"},
         effects' = [effects EXCEPT ![p] = @ \cup {e}]
  PROVE  /\ effects' \in [Pastes -> SUBSET {"text", "path", "error"}]
         /\ effects'[p] = effects[p] \cup {e}
         /\ \A q \in Pastes \ {p} : effects'[q] = effects[q]
BY DEF TypeOK

\* The upload, the end of a paste and what goes on around it keep the shape.
LEMMA UploadTypeOK ==
  ASSUME TypeOK, NEW p \in Pastes,
         \/ ResolveRemoteHome(p) \/ EnsureRemoteImageDir(p) \/ WriteFile(p) \/ DelayOver(p)
         \/ Uploaded(p) \/ Tidy(p) \/ Fallback(p) \/ CloseTerminal(p) \/ Ages(p)
  PROVE  TypeOK'
<1>1. CASE ResolveRemoteHome(p)
  <2>1. paste' \in [Pastes -> Runs] /\ OthersStay(p) /\ paste'[p].pc # "webview"
    BY <1>1, Goes, Returns DEF ResolveRemoteHome, Throw
  <2>2. PanelMatches'
    BY <1>1, <2>1, PanelsStay DEF ResolveRemoteHome, At
  <2>3. /\ effects' \in [Pastes -> SUBSET {"text", "path", "error"}]
        /\ task' \in [Pastes -> {"none", "mkdir", "write", "ok", "failed"}]
    BY <1>1, EffectsGrow DEF ResolveRemoteHome, Throw, TypeOK
  <2>4. mishaps' \in 0..MaxMishaps
    BY <1>1 DEF ResolveRemoteHome, Mishap, NoMishap, TypeOK
  <2>5. QED
    BY <1>1, <2>1, <2>2, <2>3, <2>4 DEF ResolveRemoteHome, TypeOK, here, remote
<1>2. CASE EnsureRemoteImageDir(p)
  BY <1>2 DEF EnsureRemoteImageDir, MadePrivate, TypeOK, PanelMatches, At, here, Mishap, NoMishap
<1>3. CASE WriteFile(p)
  <2>1. paste[p].bytes \in {"none", "ok", "big", "part"}
    BY DEF TypeOK, Runs
  <2>2. /\ img' \in [Pastes -> {"none", "part", "ok", "big"}]
        /\ task' \in [Pastes -> {"none", "mkdir", "write", "ok", "failed"}]
        /\ mishaps' \in 0..MaxMishaps
    <3>1. CASE NoMishap /\ img' = [img EXCEPT ![p] = paste[p].bytes]
                       /\ task' = [task EXCEPT ![p] = "ok"]
      BY <2>1, <3>1 DEF TypeOK, NoMishap
    <3>2. ASSUME Mishap, NEW upTo \in {"none", "part"}, img' = [img EXCEPT ![p] = upTo],
                 task' = [task EXCEPT ![p] = "failed"]
          PROVE  /\ img' \in [Pastes -> {"none", "part", "ok", "big"}]
                 /\ task' \in [Pastes -> {"none", "mkdir", "write", "ok", "failed"}]
                 /\ mishaps' \in 0..MaxMishaps
      BY <3>2 DEF TypeOK, Mishap
    <3>3. QED
      BY <1>3, <3>1, <3>2 DEF WriteFile
  <2>3. dir' \in {"absent", "open", "private", "blocked"}
    BY <1>3 DEF WriteFile, TypeOK
  <2>4. QED
    BY <1>3, <2>2, <2>3 DEF WriteFile, TypeOK, PanelMatches, At, here
<1>4. CASE DelayOver(p)
  <2>1. paste' \in [Pastes -> Runs] /\ OthersStay(p) /\ paste'[p].pc # "webview"
    BY <1>4, Goes DEF DelayOver
  <2>2. PanelMatches'
    BY <1>4, <2>1, PanelsStay DEF DelayOver, At
  <2>3. QED
    BY <1>4, <2>1, <2>2 DEF DelayOver, TypeOK, here, remote
<1>5. CASE Uploaded(p)
  <2>1. paste' \in [Pastes -> Runs] /\ OthersStay(p) /\ paste'[p].pc # "webview"
    BY <1>5, Returns DEF Uploaded, Throw
  <2>2. PanelMatches'
    BY <1>5, <2>1, PanelsStay DEF Uploaded, At
  <2>3. effects' \in [Pastes -> SUBSET {"text", "path", "error"}]
    BY <1>5, EffectsGrow DEF Uploaded, Throw, TypeOK
  <2>4. QED
    BY <1>5, <2>1, <2>2, <2>3 DEF Uploaded, TypeOK, here, remote
<1>6. CASE Tidy(p)
  <2>1. paste' \in [Pastes -> Runs] /\ OthersStay(p) /\ paste'[p].pc # "webview"
    BY <1>6, Goes DEF Tidy
  <2>2. PanelMatches'
    BY <1>6, <2>1, PanelsStay DEF Tidy, At
  <2>3. QED
    BY <1>6, <2>1, <2>2 DEF Tidy, TypeOK, here, remote, Mishap, NoMishap
<1>7. CASE Fallback(p)
  <2>1. paste' \in [Pastes -> Runs] /\ OthersStay(p) /\ paste'[p].pc # "webview"
    BY <1>7, Goes DEF Fallback
  <2>2. PanelMatches'
    BY <1>7, <2>1, PanelsStay DEF Fallback, At
  <2>3. QED
    BY <1>7, <2>1, <2>2 DEF Fallback, TypeOK, here, remote
<1>8. CASE CloseTerminal(p)
  BY <1>8 DEF CloseTerminal, TypeOK, PanelMatches, At, here, remote, Mishap
<1>9. CASE Ages(p)
  BY <1>9 DEF Ages, TypeOK, PanelMatches, At, here
<1>10. QED
  BY <1>1, <1>2, <1>3, <1>4, <1>5, <1>6, <1>7, <1>8, <1>9

\* A step of p moves no other run and touches no other file, and p keeps to its readers.
LEMMA StepReaders ==
  ASSUME Shape, NEW p \in Pastes,
         Step(p) \/ Webview(p) \/ CloseTerminal(p) \/ Ages(p)
  PROVE  /\ OthersStay(p) /\ (\A q \in Pastes \ {p} : local'[q] = local[q])
         /\ native' = native /\ Readers(p)'
<1>1. TypeOK /\ Readers(p) /\ paste[p] \in Runs
  BY DEF Shape, TypeOK
<1> USE DEF At
<1>2. CASE Start(p) \/ DelayOver(p) \/ Fallback(p)
  <2>1. /\ OthersStay(p) /\ paste'[p].left = paste[p].left /\ UNCHANGED <<native, local>>
        /\ paste[p].pc = "fallback" \/ paste[p].pc = "idle" \/ paste[p].pc = "delay"
        /\ paste[p].pc = "fallback" => paste'[p].pc = "done"
    BY <1>1, <1>2, Goes DEF Start, DelayOver, Fallback, here
  <2>2. QED
    BY <1>1, <2>1 DEF Readers, Forced
<1>3. CASE ClipboardHasText(p)
  <2>1. /\ OthersStay(p) /\ paste'[p].left = native /\ UNCHANGED <<native, local>>
        /\ paste[p].pc = "text"
    BY <1>1, <1>3, TextRead DEF ClipboardHasText, here
  <2>2. QED
    BY <1>1, <2>1 DEF Readers, Forced
<1>4. CASE RunCaptureCandidate(p)
  <2>1. PICK bytes \in {"none", "ok", "big", "part"} : Took(p, bytes)
    BY <1>1, <1>4, ReaderTakes
  <2>2. /\ OthersStay(p) /\ paste'[p].left = Tail(paste[p].left) /\ UNCHANGED native
        /\ paste[p].pc = "capture" /\ paste[p].left # <<>>
    BY <1>1, <1>4, <2>1, Takes DEF RunCaptureCandidate, here
  <2>3. (\A q \in Pastes \ {p} : local'[q] = local[q]) /\ local'[p] # "stuck"
    <3>1. local[p] # "stuck" /\ clip.image \in Images
      BY <1>1, <2>2 DEF Readers, TypeOK
    <3>2. UNCHANGED local \/ \E leaves \in {local[p], "absent", "part", clip.image} :
                                local' = [local EXCEPT ![p] = leaves]
      BY <1>4 DEF RunCaptureCandidate, ReadStdout, ReadFile, WriteGoesWrong
    <3>3. QED
      BY <1>1, <3>1, <3>2 DEF TypeOK, Images
  <2>4. \A i \in DOMAIN Tail(paste[p].left) : Tail(paste[p].left)[i] = paste[p].left[i + 1]
                                           /\ i + 1 \in DOMAIN paste[p].left
    BY <1>1, <2>2 DEF Runs
  <2>5. QED
    BY <1>1, <2>2, <2>3, <2>4 DEF Readers, Forced
<1>5. CASE NoReaderLeft(p)
  <2>1. /\ OthersStay(p) /\ paste'[p].left = paste[p].left /\ UNCHANGED <<native, local>>
        /\ paste[p].pc = "capture"
    BY <1>1, <1>5, Goes, Returns DEF NoReaderLeft, here
  <2>2. QED
    BY <1>1, <2>1 DEF Readers, Forced
<1>6. CASE \/ PageReads(p) \/ PageLoaded(p) \/ PageEscape(p) \/ CloseTerminal(p) \/ Ages(p)
           \/ EnsureRemoteImageDir(p) \/ WriteFile(p)
  <2>1. UNCHANGED <<paste, native, local>>
    BY <1>6 DEF PageReads, PageLoaded, PageEscape, CloseTerminal, Ages, EnsureRemoteImageDir,
                WriteFile, here
  <2>2. QED
    BY <1>1, <2>1 DEF Readers, Forced, OthersStay
<1>7. CASE Receive(p) \/ Dismiss(p) \/ TimesOut(p)
  <2>1. PICK bytes \in {"none", "ok"} : Finish(p, bytes)
    BY <1>7 DEF Receive, Dismiss, TimesOut
  <2>2. /\ OthersStay(p) /\ paste'[p].left = paste[p].left /\ UNCHANGED <<native, local>>
        /\ paste[p].pc = "webview"
    BY <1>1, <2>1, Finishes DEF Finish, here
  <2>3. QED
    BY <1>1, <2>2 DEF Readers, Forced
<1>8. CASE ResolveRemoteHome(p) \/ Uploaded(p)
  <2>1. /\ OthersStay(p) /\ paste'[p].left = paste[p].left /\ UNCHANGED <<native, local>>
        /\ paste[p].pc = "found" \/ paste[p].pc = "await"
    BY <1>1, <1>8, Goes, Returns DEF ResolveRemoteHome, Uploaded, Throw, here
  <2>2. QED
    BY <1>1, <2>1 DEF Readers, Forced
<1>9. CASE Tidy(p)
  <2>1. /\ OthersStay(p) /\ paste'[p].left = paste[p].left /\ UNCHANGED native
        /\ paste'[p].pc = "fallback" \/ paste'[p].pc = "done"
    BY <1>1, <1>9, Goes DEF Tidy, here
  <2>2. \A q \in Pastes \ {p} : local'[q] = local[q]
    BY <1>1, <1>9 DEF Tidy, TypeOK
  <2>3. QED
    BY <1>1, <2>1, <2>2 DEF Readers, Forced
<1>10. QED
  BY <1>2, <1>3, <1>4, <1>5, <1>6, <1>7, <1>8, <1>9 DEF Step, Webview

\* The initial states have the shape.
LEMMA InitShape == Init => Shape
BY InitTypeOK DEF Init, Shape, Readers, At

\* Every step keeps the shape.
LEMMA NextShape == Shape /\ [Next]_vars => Shape'
<1> SUFFICES ASSUME Shape, [Next]_vars PROVE Shape'
  OBVIOUS
<1>1. ASSUME NEW p \in Pastes, Step(p) \/ Webview(p) \/ CloseTerminal(p) \/ Ages(p) PROVE Shape'
  <2>1. TypeOK'
    BY <1>1, CaptureTypeOK, UploadTypeOK, WebviewTypeOK DEF Step, Shape
  <2>2. \A q \in Pastes : Readers(q)'
    BY <1>1, StepReaders DEF Shape, Readers, Forced, OthersStay, At
  <2>3. QED
    BY <2>1, <2>2 DEF Shape
<1>2. CASE Copy
  BY <1>2 DEF Copy, Shape, Readers, Forced, TypeOK, PanelMatches, At, remote
<1>3. CASE Sweep
  BY <1>3 DEF Sweep, Shape, Readers, Forced, TypeOK, PanelMatches, At, here
<1>4. CASE UNCHANGED vars
  BY <1>4 DEF vars, Shape, Readers, Forced, TypeOK, PanelMatches, At, here, remote
<1>5. QED
  BY <1>1, <1>2, <1>3, <1>4 DEF Next

\* Type correctness; a panel is open exactly while its read waits for it, so that no
\* answer, timer or dispose finds another run at work (clipboardWebview.ts:43-84).
THEOREM TypeCorrect == Spec => []TypeOK
<1>1. Shape => TypeOK
  BY DEF Shape
<1>2. QED
  BY <1>1, InitShape, NextShape, PTL DEF Spec

------------------------------------------------------------------------------
(* What a paste has done and may still do. *)

\* The upload has begun and is not answered.
InUpload(p) == At(p, "delay") \/ At(p, "await")

\* The paste is answered.
Over(p) == At(p, "done") \/ (At(p, "tidy") /\ paste[p].handled)

\* Only an image within the limit is uploaded, or the piece a PowerShell script left, and
\* into a private directory; what a paste has uploaded is what it found.
Uploading(p) ==
    /\ At(p, "found") => paste[p].bytes # "none"
    /\ task[p] # "none" => InUpload(p) \/ Over(p)
    /\ InUpload(p) \/ task[p] # "none" => paste[p].bytes \in {"ok", "part"}
    /\ paste[p].bytes = "part" => Forced
    /\ task[p] \in {"mkdir", "write"} => InUpload(p)
    /\ task[p] = "write" => dir = "private"
    /\ task[p] = "ok" => img[p] = paste[p].bytes \/ old[p]
    /\ img[p] # "none" => dir = "private"
    /\ old[p] => At(p, "done")

\* The user is answered once, by the steps that hand the paste to its finally or to
\* the paste of text, and with a path only after the upload.
Answering(p) ==
    /\ Over(p) => (\E e \in {"text", "path", "error"} : effects[p] = {e}) \/ Dropped(p)
    /\ ~Over(p) => effects[p] = {}
    /\ "path" \in effects[p] => task[p] = "ok"
    /\ seen[p] => /\ At(p, "found") \/ InUpload(p) \/ At(p, "tidy") \/ At(p, "done")
                  /\ At(p, "tidy") => paste[p].handled
                  /\ "text" \notin effects[p]

Delivering == Shape /\ \A p \in Pastes : Uploading(p) /\ Answering(p)

\* A step of p leaves the other pastes alone, and a private directory private.
Apart(p) ==
    /\ \A q \in Pastes \ {p} :
         /\ paste'[q] = paste[q] /\ task'[q] = task[q] /\ effects'[q] = effects[q]
         /\ seen'[q] = seen[q] /\ img'[q] = img[q] /\ old'[q] = old[q]
         /\ terminal'[q] = terminal[q]
    /\ native' = native
    /\ dir = "private" => dir' = "private"

\* So it is enough to look at p.
LEMMA OnlyMine ==
  ASSUME Delivering, NEW p \in Pastes, Apart(p), Uploading(p)', Answering(p)'
  PROVE  \A q \in Pastes : Uploading(q)' /\ Answering(q)'
<1> SUFFICES ASSUME NEW q \in Pastes \ {p} PROVE Uploading(q)' /\ Answering(q)'
  OBVIOUS
<1>1. Uploading(q) /\ Answering(q)
  BY DEF Delivering
<1>2. /\ paste'[q] = paste[q] /\ task'[q] = task[q] /\ effects'[q] = effects[q]
      /\ seen'[q] = seen[q] /\ img'[q] = img[q] /\ old'[q] = old[q]
      /\ terminal'[q] = terminal[q] /\ native' = native
      /\ dir = "private" => dir' = "private"
  BY DEF Apart
<1>3. Uploading(q)'
  BY <1>1, <1>2 DEF Uploading, InUpload, Over, Forced, At
<1>4. Answering(q)'
  BY <1>1, <1>2 DEF Answering, InUpload, Over, Dropped, At
<1>5. QED
  BY <1>3, <1>4

\* Nothing has happened yet.
LEMMA InitDelivering == Init => Delivering
<1> SUFFICES ASSUME Init, NEW p \in Pastes PROVE Uploading(p) /\ Answering(p)
  BY InitShape DEF Delivering
<1>1. paste[p].pc = "idle" /\ paste[p].bytes = "none"
  BY DEF Init
<1>2. task[p] = "none" /\ effects[p] = {} /\ seen[p] = FALSE /\ img[p] = "none" /\ old[p] = FALSE
  BY DEF Init
<1>3. QED
  BY <1>1, <1>2 DEF Uploading, Answering, InUpload, Over, At

\* Every step of a paste is right for that paste and apart from the others.
LEMMA StepDelivering ==
  ASSUME Delivering, NEW p \in Pastes,
         Step(p) \/ Webview(p) \/ CloseTerminal(p) \/ Ages(p)
  PROVE  Apart(p) /\ Uploading(p)' /\ Answering(p)'
<1>0. native' = native /\ Readers(p)
  BY StepReaders DEF Delivering, Shape
<1>1. TypeOK /\ Uploading(p) /\ Answering(p) /\ paste[p] \in Runs
  BY DEF Delivering, Shape, TypeOK
<1> USE DEF At, InUpload, Over, Dropped, Forced
<1>2. CASE Start(p)
  <2>1. Apart(p)
    BY <1>0, <1>1, <1>2, Goes DEF Apart, OthersStay, Start, remote, TypeOK
  <2>2. Uploading(p)'
    BY <1>0, <1>1, <1>2, Goes DEF Uploading, Start, remote, TypeOK
  <2>3. Answering(p)'
    BY <1>0, <1>1, <1>2, Goes DEF Answering, Start, remote, TypeOK
  <2>4. QED
    BY <2>1, <2>2, <2>3
<1>3. CASE ClipboardHasText(p)
  <2>1. /\ OthersStay(p) /\ paste'[p].pc = "capture" /\ paste'[p].bytes = paste[p].bytes
        /\ At(p, "text") /\ UNCHANGED <<task, effects, seen, terminal, remote>>
    BY <1>0, <1>1, <1>3, TextRead DEF ClipboardHasText
  <2>2. QED
    BY <1>0, <1>1, <2>1 DEF Apart, OthersStay, Uploading, Answering, remote
<1>4. CASE RunCaptureCandidate(p)
  <2>1. PICK bytes \in {"none", "ok", "big", "part"} :
          Took(p, bytes) /\ (bytes = "part" => Forced)
    BY <1>0, <1>1, <1>4, ReaderTakes
  <2>2. /\ OthersStay(p) /\ paste'[p].bytes = bytes
        /\ paste'[p].pc = IF bytes = "none" THEN "capture" ELSE "found"
        /\ seen' = [seen EXCEPT ![p] = seen[p] \/ bytes \notin {"none", "big"}]
        /\ At(p, "capture") /\ UNCHANGED <<task, effects, terminal, remote>>
    BY <1>0, <1>1, <1>4, <2>1, Takes DEF RunCaptureCandidate
  <2>3. seen'[p] => bytes \notin {"none", "big"}
    BY <1>0, <1>1, <2>2 DEF Answering, TypeOK
  <2>4. Apart(p)
    BY <1>0, <1>1, <2>2 DEF Apart, OthersStay, TypeOK, remote
  <2>5. Uploading(p)' /\ Answering(p)'
    BY <1>0, <1>1, <2>1, <2>2, <2>3 DEF Uploading, Answering, remote
  <2>6. QED
    BY <2>4, <2>5
<1>5. CASE NoReaderLeft(p)
  <2>1. Apart(p)
    BY <1>0, <1>1, <1>5, Goes, Returns DEF Apart, OthersStay, NoReaderLeft, remote, TypeOK
  <2>2. Uploading(p)'
    BY <1>0, <1>1, <1>5, Goes, Returns DEF Uploading, NoReaderLeft, remote, TypeOK
  <2>3. Answering(p)'
    BY <1>0, <1>1, <1>5, Goes, Returns DEF Answering, NoReaderLeft, remote, TypeOK
  <2>4. QED
    BY <2>1, <2>2, <2>3
<1>6. CASE PageReads(p) \/ PageLoaded(p) \/ PageEscape(p) \/ CloseTerminal(p)
  <2>1. /\ UNCHANGED <<paste, task, effects, seen, remote>>
        /\ \A q \in Pastes \ {p} : terminal'[q] = terminal[q]
        /\ At(p, "done") => terminal'[p] = terminal[p]
    BY <1>1, <1>6 DEF PageReads, PageLoaded, PageEscape, CloseTerminal, TypeOK
  <2>2. terminal[p] = "closed" => terminal'[p] = "closed"
    BY <1>6 DEF PageReads, PageLoaded, PageEscape, CloseTerminal
  <2>3. QED
    BY <1>0, <1>1, <2>1, <2>2 DEF Apart, Uploading, Answering, remote
<1>7. CASE Receive(p)
  <2>1. /\ OthersStay(p) /\ At(p, "webview") /\ UNCHANGED <<task, effects, terminal, remote>>
        /\ seen' = [seen EXCEPT ![p] = page[p].msg = "ok" /\ terminal[p] # "disposed"]
    BY <1>0, <1>1, <1>7, Finishes DEF Receive, Finish
  <2>2. \/ paste'[p].pc = "lost" /\ terminal[p] = "disposed" /\ paste'[p].bytes = paste[p].bytes
        \/ /\ paste'[p].pc = "tidy" /\ page[p].msg # "ok"
           /\ paste'[p].bytes = paste[p].bytes /\ paste'[p].handled = FALSE
        \/ paste'[p].pc = "found" /\ paste'[p].bytes = "ok"
    BY <1>0, <1>1, <1>7, Finishes DEF Receive
  <2>3. seen'[p] => paste'[p].pc = "found"
    BY <1>0, <1>1, <2>1, <2>2 DEF TypeOK
  <2>4. Apart(p)
    BY <1>0, <1>1, <2>1 DEF Apart, OthersStay, TypeOK, remote
  <2>5. Uploading(p)' /\ Answering(p)'
    BY <1>0, <1>1, <2>1, <2>2, <2>3 DEF Uploading, Answering, remote
  <2>6. QED
    BY <2>4, <2>5
<1>8. CASE Dismiss(p) \/ TimesOut(p)
  <2>1. Finish(p, "none") /\ At(p, "webview")
        /\ UNCHANGED <<task, effects, seen, terminal, remote>>
    BY <1>8 DEF Dismiss, TimesOut, Finish
  <2>2. /\ OthersStay(p) /\ paste'[p].bytes = paste[p].bytes
        /\ paste'[p].pc = "lost" \/ (paste'[p].pc = "tidy" /\ paste'[p].handled = FALSE)
    BY <1>0, <1>1, <2>1, Finishes
  <2>3. QED
    BY <1>0, <1>1, <2>1, <2>2 DEF Apart, OthersStay, Uploading, Answering, remote
<1>9. CASE ResolveRemoteHome(p)
  <2>1. CASE Throw(p) /\ UNCHANGED task
    <3>1. /\ OthersStay(p) /\ paste'[p].pc = "tidy" /\ paste'[p].handled
          /\ paste'[p].bytes = paste[p].bytes
      BY <1>0, <1>1, <2>1, Returns DEF Throw
    <3>2. /\ effects'[p] = effects[p] \cup {"error"}
          /\ \A q \in Pastes \ {p} : effects'[q] = effects[q]
      BY <1>0, <1>1, <2>1, EffectsGrow DEF Throw
    <3>3. At(p, "found") /\ UNCHANGED <<task, seen, terminal, remote>>
      BY <1>9, <2>1 DEF ResolveRemoteHome
    <3>4. Apart(p) /\ Uploading(p)'
      BY <1>0, <1>1, <3>1, <3>2, <3>3 DEF Apart, OthersStay, Uploading, remote
    <3>5. effects'[p] = {"error"}
      BY <1>0, <1>1, <3>2, <3>3 DEF Answering
    <3>6. Answering(p)'
      BY <1>0, <1>1, <3>1, <3>3, <3>5 DEF Answering
    <3>7. QED
      BY <3>4, <3>6
  <2>2. CASE GoTo(p, "delay") /\ task' = [task EXCEPT ![p] = "mkdir"] /\ paste[p].bytes # "big"
             /\ UNCHANGED effects
    <3>1. OthersStay(p) /\ paste'[p].pc = "delay" /\ paste'[p].bytes = paste[p].bytes
      BY <1>0, <1>1, <2>2, Goes
    <3>2. At(p, "found") /\ UNCHANGED <<seen, terminal, remote>>
      BY <1>9 DEF ResolveRemoteHome
    <3>3. Apart(p)
      BY <1>0, <1>1, <2>2, <3>1, <3>2 DEF Apart, OthersStay, TypeOK, remote
    <3>4. Uploading(p)'
      BY <1>0, <1>1, <2>2, <3>1, <3>2 DEF Uploading, Runs, TypeOK, remote
    <3>5. Answering(p)'
      BY <1>0, <1>1, <2>2, <3>1, <3>2 DEF Answering
    <3>6. QED
      BY <3>3, <3>4, <3>5
  <2>3. QED
    BY <1>9, <2>1, <2>2 DEF ResolveRemoteHome
<1>10. CASE EnsureRemoteImageDir(p)
  <2>1. Apart(p)
    BY <1>0, <1>1, <1>10 DEF Apart, OthersStay, EnsureRemoteImageDir, MadePrivate, remote, TypeOK
  <2>2. Uploading(p)'
    BY <1>0, <1>1, <1>10 DEF Uploading, EnsureRemoteImageDir, MadePrivate, remote, TypeOK
  <2>3. Answering(p)'
    BY <1>0, <1>1, <1>10 DEF Answering, EnsureRemoteImageDir, MadePrivate, remote, TypeOK
  <2>4. QED
    BY <2>1, <2>2, <2>3
<1>11. CASE WriteFile(p)
  <2>1. Apart(p)
    BY <1>0, <1>1, <1>11 DEF Apart, OthersStay, WriteFile, remote, TypeOK
  <2>2. Uploading(p)'
    BY <1>0, <1>1, <1>11 DEF Uploading, WriteFile, remote, TypeOK
  <2>3. Answering(p)'
    BY <1>0, <1>1, <1>11 DEF Answering, WriteFile, remote, TypeOK
  <2>4. QED
    BY <2>1, <2>2, <2>3
<1>12. CASE DelayOver(p)
  <2>1. Apart(p)
    BY <1>0, <1>1, <1>12, Goes DEF Apart, OthersStay, DelayOver, remote, TypeOK
  <2>2. Uploading(p)'
    BY <1>0, <1>1, <1>12, Goes DEF Uploading, DelayOver, remote, TypeOK
  <2>3. Answering(p)'
    BY <1>0, <1>1, <1>12, Goes DEF Answering, DelayOver, remote, TypeOK
  <2>4. QED
    BY <2>1, <2>2, <2>3
<1>13. CASE Uploaded(p)
  <2>1. /\ OthersStay(p) /\ paste'[p].pc = "tidy" /\ paste'[p].handled
        /\ paste'[p].bytes = paste[p].bytes
    BY <1>1, <1>13, Returns DEF Uploaded, Throw
  <2>2. At(p, "await") /\ UploadOver(p) /\ UNCHANGED <<task, seen, terminal, remote>>
    BY <1>13 DEF Uploaded
  <2>3. effects[p] = {}
    BY <1>1, <2>2 DEF Answering
  <2>4. CASE UNCHANGED effects /\ task[p] = "ok" /\ terminal[p] = "closed"
    BY <1>0, <1>1, <2>1, <2>2, <2>3, <2>4
       DEF Apart, OthersStay, Uploading, Answering, UploadOver, remote
  <2>5. ASSUME NEW e \in {"path", "error"}, effects' = [effects EXCEPT ![p] = @ \cup {e}],
               e = "path" => task[p] = "ok"
        PROVE  Apart(p) /\ Uploading(p)' /\ Answering(p)'
    <3>1. effects'[p] = {e} /\ \A q \in Pastes \ {p} : effects'[q] = effects[q]
      BY <1>1, <2>3, <2>5, EffectsGrow
    <3>2. Apart(p) /\ Uploading(p)'
      BY <1>0, <1>1, <2>1, <2>2, <3>1 DEF Apart, OthersStay, Uploading, UploadOver, remote
    <3>3. Answering(p)'
      BY <1>1, <2>1, <2>2, <2>5, <3>1 DEF Answering
    <3>4. QED
      BY <3>2, <3>3
  <2>6. task[p] # "failed" => task[p] = "ok"
    BY <2>2 DEF UploadOver
  <2>7. QED
    BY <1>13, <2>4, <2>5, <2>6 DEF Uploaded, Throw
<1>14. CASE Tidy(p)
  <2>1. Apart(p)
    BY <1>0, <1>1, <1>14, Goes DEF Apart, OthersStay, Tidy, remote, TypeOK
  <2>2. Uploading(p)'
    BY <1>0, <1>1, <1>14, Goes DEF Uploading, Tidy, remote, TypeOK
  <2>3. Answering(p)'
    BY <1>0, <1>1, <1>14, Goes DEF Answering, Tidy, remote, TypeOK
  <2>4. QED
    BY <2>1, <2>2, <2>3
<1>15. CASE Fallback(p)
  <2>1. Apart(p)
    BY <1>0, <1>1, <1>15, Goes, EffectsGrow DEF Apart, OthersStay, Fallback, remote, TypeOK
  <2>2. Uploading(p)'
    BY <1>0, <1>1, <1>15, Goes, EffectsGrow DEF Uploading, Fallback, remote, TypeOK
  <2>3. Answering(p)'
    BY <1>0, <1>1, <1>15, Goes, EffectsGrow DEF Answering, Fallback, remote, TypeOK
  <2>4. QED
    BY <2>1, <2>2, <2>3
<1>16. CASE Ages(p)
  <2>1. Apart(p)
    BY <1>0, <1>1, <1>16 DEF Apart, OthersStay, Ages, remote, TypeOK
  <2>2. Uploading(p)'
    BY <1>0, <1>1, <1>16 DEF Uploading, Ages, remote, TypeOK
  <2>3. Answering(p)'
    BY <1>0, <1>1, <1>16 DEF Answering, Ages, remote, TypeOK
  <2>4. QED
    BY <2>1, <2>2, <2>3
<1>17. QED
  BY <1>2, <1>3, <1>4, <1>5, <1>6, <1>7, <1>8, <1>9,
     <1>10, <1>11, <1>12, <1>13, <1>14, <1>15, <1>16 DEF Step, Webview

\* Every step keeps the invariant.
LEMMA NextDelivering == Delivering /\ [Next]_vars => Delivering'
<1> SUFFICES ASSUME Delivering, [Next]_vars PROVE \A p \in Pastes : Uploading(p)' /\ Answering(p)'
  BY NextShape DEF Delivering
<1>1. ASSUME NEW p \in Pastes, Step(p) \/ Webview(p) \/ CloseTerminal(p) \/ Ages(p)
      PROVE  \A q \in Pastes : Uploading(q)' /\ Answering(q)'
  BY <1>1, StepDelivering, OnlyMine
<1>2. CASE Sweep
  <2> SUFFICES ASSUME NEW p \in Pastes PROVE Uploading(p)' /\ Answering(p)'
    OBVIOUS
  <2>1. Uploading(p) /\ Answering(p)
    BY DEF Delivering
  <2>2. img'[p] = img[p] \/ (img'[p] = "none" /\ old[p])
    BY <1>2 DEF Sweep, Doomed
  <2>3. Uploading(p)'
    BY <1>2, <2>1, <2>2 DEF Sweep, Uploading, InUpload, Over, Forced, At, here
  <2>4. Answering(p)'
    BY <1>2, <2>1 DEF Sweep, Answering, InUpload, Over, Dropped, At
  <2>5. QED
    BY <2>3, <2>4
<1>3. CASE Copy \/ UNCHANGED vars
  <2>1. UNCHANGED <<native, paste, task, terminal, effects, seen, dir, img, old>>
    BY <1>3 DEF Copy, vars, remote, here
  <2>2. QED
    BY <2>1 DEF Delivering, Uploading, Answering, InUpload, Over, Dropped, Forced, At
<1>4. QED
  BY <1>1, <1>2, <1>3 DEF Next

\* What a reachable paste has done, for the three theorems below.
LEMMA Answers ==
    ASSUME Delivering, NEW p \in Pastes
    PROVE  /\ IF At(p, "done")
                THEN (\E e \in {"text", "path", "error"} : effects[p] = {e}) \/ Dropped(p)
                ELSE effects[p] # {} => At(p, "tidy") /\ paste[p].handled
           /\ "path" \in effects[p] =>
                \/ old[p]
                \/ img[p] = paste[p].bytes /\ (img[p] = "ok" \/ (img[p] = "part" /\ Forced))
           /\ seen[p] => "text" \notin effects[p]
<1>1. Uploading(p) /\ Answering(p)
  BY DEF Delivering
<1>2. QED
  BY <1>1 DEF Uploading, Answering, Over, At

\* What the user gets from a paste is one thing, whatever order the answers of the
\* panel, its timer and the upload come in, and nothing only in a terminal that was
\* closed before the path was typed (pasteImage.ts:106-173).
THEOREM AnsweredOnce == Spec => []OneEffect
<1>1. Delivering => OneEffect
  BY Answers DEF OneEffect
<1>2. QED
  BY <1>1, InitDelivering, NextDelivering, PTL DEF Spec

\* A path that was typed names what the reader handed over, all of it: the whole image,
\* or the piece a PowerShell script left that exits 0 all the same (pasteImage.ts:148-173,
\* :226-245, clipboardImage.ts:95-96, :109).
THEOREM PathIsWhatWasRead == Spec => []PathNamesImage
<1>1. Delivering => PathNamesImage
  BY Answers DEF PathNamesImage
<1>2. QED
  BY <1>1, InitDelivering, NextDelivering, PTL DEF Spec

\* An image that was read is not answered with a paste of text, though the panel be
\* closed or its timer run out (clipboardWebview.ts:54-84).
THEOREM ImageIsNotText == Spec => []FoundIsNotText
<1>1. Delivering => FoundIsNotText
  BY Answers DEF FoundIsNotText
<1>2. QED
  BY <1>1, InitDelivering, NextDelivering, PTL DEF Spec

\* No image lies in a directory that others can read, whatever the directory was before
\* and whichever paste made it private (pasteImage.ts:148-156).
THEOREM ImagesKeptPrivate == Spec => []ImagesPrivate
<1>1. Delivering => ImagesPrivate
  BY DEF Delivering, Uploading, ImagesPrivate
<1>2. QED
  BY <1>1, InitDelivering, NextDelivering, PTL DEF Spec

=============================================================================
