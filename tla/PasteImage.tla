----------------------------- MODULE PasteImage -----------------------------
(***************************************************************************)
(* Pasting an image of the local clipboard into a remote terminal: the     *)
(* command of src/src/extension.ts, the orchestration in                   *)
(* src/src/clipboard/pasteImage.ts, the readers clipboardImage.ts lists    *)
(* for a platform and the webview of clipboardWebview.ts, the last reader. *)
(*                                                                         *)
(* The pastes may overlap: each has its temporary file, its panel and its  *)
(* name on the remote; they share the clipboard, which the user goes on    *)
(* using, and the directory of the images, which every connection sweeps.  *)
(***************************************************************************)
EXTENDS Naturals, Sequences

CONSTANTS
    Pastes,      \* runs of the command
    Platforms,   \* the native readers of a machine: the kind of each
    Clips,       \* what the clipboard may hold
    MaxCopies,   \* how often the user copies something else meanwhile
    MaxMishaps   \* readers that are killed or cannot write, refused reads, failed
                 \* commands and writes, terminals that go

\* What a reader does: it writes the file and its exit code tells how that went, it
\* writes the file and exits 0 whatever became of the write (both scripts for
\* PowerShell), or it streams the image.
Kinds == {"file", "forced", "stdout"}
Images == {"none", "ok", "big"}

ASSUME PasteImageAssumption ==
    /\ Platforms \subseteq Seq(Kinds)
    /\ Clips \subseteq [text: BOOLEAN, image: Images]
    /\ MaxCopies \in Nat /\ MaxMishaps \in Nat

VARIABLES
    clip,      \* the clipboard
    copies,    \* how often it may still change
    native,    \* the readers of this machine
    paste,     \* each run: where it stands and what it found
    local,     \* its temporary file
    page,      \* its webview, and the message under way from it
    task,      \* its upload, which outlives the delay of the progress bar
    terminal,  \* the terminal it was aimed at
    effects,   \* what the user has got from it: text, a path, an error
    seen,      \* a reader handed over an image that can be uploaded
    dir,       \* the image directory on the remote
    img,       \* the image each run left there
    old,       \* ... more than 48 hours ago
    mishaps    \* how much may still go wrong

here == <<clip, copies, native>>
remote == <<dir, img, old>>
vars == <<here, paste, local, page, task, terminal, effects, seen, remote, mishaps>>

NoPage == [at |-> "none", blob |-> "none", msg |-> "none"]

Init ==
    /\ clip \in Clips
    /\ copies = MaxCopies
    /\ native \in Platforms
    /\ paste = [p \in Pastes |-> [pc |-> "idle", left |-> <<>>, hasText |-> FALSE,
                                  bytes |-> "none", handled |-> FALSE]]
    /\ local = [p \in Pastes |-> "absent"]
    /\ page = [p \in Pastes |-> NoPage]
    /\ task = [p \in Pastes |-> "none"]
    /\ terminal = [p \in Pastes |-> "open"]
    /\ effects = [p \in Pastes |-> {}]
    /\ seen = [p \in Pastes |-> FALSE]
    /\ dir \in {"absent", "open", "private", "blocked"}
    /\ img = [p \in Pastes |-> "none"]
    /\ old = [p \in Pastes |-> FALSE]
    /\ mishaps = MaxMishaps

Mishap == mishaps > 0 /\ mishaps' = mishaps - 1
NoMishap == UNCHANGED mishaps

At(p, pc) == paste[p].pc = pc
GoTo(p, pc) == paste' = [paste EXCEPT ![p].pc = pc]

\* pasteClipboardImage returns by way of its finally.
Return(p, handled) == paste' = [paste EXCEPT ![p].pc = "tidy", ![p].handled = handled]

\* Its catch: an image was found and cannot be delivered; the user is told.
Throw(p) ==
    /\ Return(p, TRUE)
    /\ effects' = [effects EXCEPT ![p] = @ \cup {"error"}]

------------------------------------------------------------------------------
(* The command, and the text on the clipboard *)

\* The paste key.  A Windows remote, a window without an authority and no active
\* terminal are one gate: the paste is one of text.
Start(p) ==
    /\ At(p, "idle")
    /\ \/ GoTo(p, "text")
       \/ GoTo(p, "fallback")
    /\ UNCHANGED <<here, local, page, task, terminal, effects, seen, remote, mishaps>>

\* Mutant of Unreadable: the read stands outside the try, and the command fails.
UnreadableEscapes(p) == [paste[p] EXCEPT !.pc = "done"]

\* A clipboard another process has locked is taken to hold no text.
Unreadable(p) == [paste[p] EXCEPT !.pc = "capture", !.hasText = FALSE, !.left = native]

ClipboardHasText(p) ==
    /\ At(p, "text")
    /\ \/ /\ paste' = [paste EXCEPT ![p] = [@ EXCEPT !.pc = "capture", !.left = native,
                                                     !.hasText = clip.text]]
          /\ NoMishap
       \/ Mishap /\ paste' = [paste EXCEPT ![p] = Unreadable(p)]
    /\ UNCHANGED <<here, local, page, task, terminal, effects, seen, remote>>

------------------------------------------------------------------------------
(* The readers *)

\* The next reader, or, when all have missed, the webview: unless there is text.
Took(p, bytes) ==
    /\ paste' = [paste EXCEPT ![p].left = Tail(@), ![p].bytes = bytes,
                              ![p].pc = IF bytes = "none" THEN "capture" ELSE "found"]
    /\ seen' = [seen EXCEPT ![p] = @ \/ bytes \notin {"none", "big"}]

\* wl-paste and xclip stream the image, up to maxBuffer.
ReadStdout(p) ==
    /\ Took(p, IF clip.image = "ok" THEN "ok" ELSE "none")
    /\ UNCHANGED local

\* The other readers write the temporary file, which is read back.
ReadFile(p) ==
    /\ Took(p, clip.image)
    /\ local' = IF clip.image = "none" THEN local ELSE [local EXCEPT ![p] = clip.image]

\* What is read back of a file: an empty one counts as one that is not there.
ReadBack(file) == IF file = "absent" THEN "none" ELSE file

\* A write that goes wrong leaves what was there, nothing, part of the image or all of
\* it.  A killed reader and one that says so are a miss, and so is a file that cannot
\* be read; a PowerShell script whose Save threw exits 0, and what lies there is taken.
WriteGoesWrong(p) ==
    \E leaves \in {local[p], "absent", "part", clip.image} :
        /\ local' = [local EXCEPT ![p] = leaves]
        /\ \/ Took(p, "none")
           \/ Head(paste[p].left) = "forced" /\ Took(p, ReadBack(leaves))

\* execFile on the next reader.  A missing binary, no image and a timeout are a miss.
RunCaptureCandidate(p) ==
    /\ At(p, "capture") /\ paste[p].left # <<>>
    /\ \/ /\ IF Head(paste[p].left) = "stdout" THEN ReadStdout(p) ELSE ReadFile(p)
          /\ NoMishap
       \/ Took(p, "none") /\ UNCHANGED local /\ NoMishap
       \/ /\ Mishap /\ Head(paste[p].left) # "stdout" /\ clip.image # "none"
          /\ WriteGoesWrong(p)
    /\ UNCHANGED <<here, page, task, terminal, effects, remote>>

NoReaderLeft(p) ==
    /\ At(p, "capture") /\ paste[p].left = <<>>
    /\ IF paste[p].hasText
         THEN Return(p, FALSE) /\ UNCHANGED page
         ELSE /\ GoTo(p, "webview")
              /\ page' = [page EXCEPT ![p] = [NoPage EXCEPT !.at = "reading"]]
    /\ UNCHANGED <<here, local, task, terminal, effects, seen, remote, mishaps>>

------------------------------------------------------------------------------
(* The webview *)

Send(p, msg) == page' = [page EXCEPT ![p].at = "sent", ![p].msg = msg]

\* The page sees the clipboard as it is now: at its own read, or when the user
\* pastes into it because that read was blocked.
PageReads(p) ==
    /\ page[p].at \in {"reading", "manual"}
    /\ \/ clip.image = "none" /\ Send(p, "empty")
       \/ clip.image # "none" /\ page' = [page EXCEPT ![p].at = "loading", ![p].blob = clip.image]
       \/ page[p].at = "reading" /\ page' = [page EXCEPT ![p].at = "manual"]
    /\ UNCHANGED <<here, paste, local, task, terminal, effects, seen, remote, mishaps>>

\* FileReader: the one message of the page, an image or none.
PageLoaded(p) ==
    /\ page[p].at = "loading"
    /\ \/ Send(p, page[p].blob) /\ NoMishap
       \/ Mishap /\ Send(p, "empty")
    /\ UNCHANGED <<here, paste, local, task, terminal, effects, seen, remote>>

PageEscape(p) ==
    /\ page[p].at \in {"reading", "manual", "loading"}
    /\ Send(p, "empty")
    /\ UNCHANGED <<here, paste, local, task, terminal, effects, seen, remote, mishaps>>

\* Mutant of Resolved: the panel is disposed of before `settled` is set, and its
\* onDidDispose settles the read first.
ResolvedByDispose(bytes) == "none"

\* finish() settles once: the dispose it causes finds it settled.
Resolved(bytes) == bytes

\* Mutant of Disposed: the panel is left to the user.
DisposedNot(p) == page[p]

Disposed(p) == NoPage

\* finish(): the panel goes, the terminal gets the focus, the read resolves.
\* show() throws on a terminal the extension has disposed of; then the read never
\* resolves.  One the user has closed it passes over.
Finish(p, bytes) ==
    /\ At(p, "webview")
    /\ page' = [page EXCEPT ![p] = Disposed(p)]
    /\ IF terminal[p] = "disposed" THEN GoTo(p, "lost")
       ELSE IF Resolved(bytes) = "none" THEN Return(p, FALSE)
       ELSE paste' = [paste EXCEPT ![p].pc = "found", ![p].bytes = Resolved(bytes)]
    /\ UNCHANGED <<here, local, task, terminal, effects, remote, mishaps>>

\* onDidReceiveMessage, which refuses an image over the limit.
Receive(p) ==
    /\ page[p].msg # "none"
    /\ Finish(p, IF page[p].msg = "ok" THEN "ok" ELSE "none")
    /\ seen' = [seen EXCEPT ![p] = page[p].msg = "ok" /\ terminal[p] # "disposed"]

Dismiss(p) == Finish(p, "none") /\ UNCHANGED seen

\* Mutant of TimerRuns: nobody sets a timer.
TimerRunsNot(p) == FALSE

\* The timer of thirty seconds runs for as long as the read is not settled.
TimerRuns(p) == At(p, "webview")

TimesOut(p) == TimerRuns(p) /\ Finish(p, "none") /\ UNCHANGED seen

------------------------------------------------------------------------------
(* The upload *)

\* The limit, and then $HOME on the remote, which has to be an absolute path.
ResolveRemoteHome(p) ==
    /\ At(p, "found")
    /\ \/ paste[p].bytes = "big" /\ Throw(p) /\ NoMishap /\ UNCHANGED task
       \/ /\ paste[p].bytes # "big"
          /\ GoTo(p, "delay")
          /\ task' = [task EXCEPT ![p] = "mkdir"]
          /\ NoMishap /\ UNCHANGED effects
       \/ paste[p].bytes # "big" /\ Mishap /\ Throw(p) /\ UNCHANGED task
    /\ UNCHANGED <<here, local, page, terminal, seen, remote>>

\* Mutant of MadePrivate: mkdir -m alone, which leaves a directory that exists.
MadeIfAbsent(d) == IF d = "absent" THEN "private" ELSE d

\* mkdir -p -m 700 && chmod 700, unless something else sits at the path.
MadePrivate(d) == IF d = "blocked" THEN d ELSE "private"

\* Without the marker the upload ends, whatever kept the command from printing it.
EnsureRemoteImageDir(p) ==
    /\ task[p] = "mkdir"
    /\ \/ /\ dir' = MadePrivate(dir)
          /\ task' = [task EXCEPT ![p] = IF dir = "blocked" THEN "failed" ELSE "write"]
          /\ NoMishap
       \/ /\ Mishap
          /\ dir' \in {dir, MadePrivate(dir)}
          /\ task' = [task EXCEPT ![p] = "failed"]
    /\ UNCHANGED <<here, paste, local, page, terminal, effects, seen, img, old>>

\* workspace.fs.writeFile, which makes a directory that is missing.
WriteFile(p) ==
    /\ task[p] = "write"
    /\ \/ /\ img' = [img EXCEPT ![p] = paste[p].bytes]
          /\ task' = [task EXCEPT ![p] = "ok"]
          /\ NoMishap
       \/ /\ Mishap
          /\ \E upTo \in {"none", "part"} : img' = [img EXCEPT ![p] = upTo]
          /\ task' = [task EXCEPT ![p] = "failed"]
    /\ dir' = IF dir = "absent" /\ img'[p] # "none" THEN "open" ELSE dir
    /\ UNCHANGED <<here, paste, local, page, terminal, effects, seen, old>>

\* 300 milliseconds on: the progress bar appears if the upload is not over.
DelayOver(p) ==
    /\ At(p, "delay")
    /\ GoTo(p, "await")
    /\ UNCHANGED <<here, local, page, task, terminal, effects, seen, remote, mishaps>>

\* Mutant of UploadOver: the progress bar is awaited and not the upload.
UploadOverAlways(p) == TRUE

UploadOver(p) == task[p] \in {"ok", "failed"}

\* The path is typed: sendText throws on a terminal the extension has disposed of, and
\* on one the user has closed it drops the text and says nothing.
Uploaded(p) ==
    /\ At(p, "await")
    /\ UploadOver(p)
    /\ \/ (task[p] = "failed" \/ terminal[p] = "disposed") /\ Throw(p)
       \/ /\ task[p] # "failed" /\ terminal[p] # "disposed"
          /\ Return(p, TRUE)
          /\ effects' = IF terminal[p] = "closed" THEN effects
                        ELSE [effects EXCEPT ![p] = @ \cup {"path"}]
    /\ UNCHANGED <<here, local, page, task, terminal, seen, remote, mishaps>>

------------------------------------------------------------------------------
(* The end of a paste *)

\* The finally.  A file that cannot be removed stays.
Tidy(p) ==
    /\ At(p, "tidy")
    /\ GoTo(p, IF paste[p].handled THEN "done" ELSE "fallback")
    /\ \/ local' = [local EXCEPT ![p] = "absent"] /\ NoMishap
       \/ /\ Mishap /\ local[p] # "absent"
          /\ local' = [local EXCEPT ![p] = "stuck"]
    /\ UNCHANGED <<here, page, task, terminal, effects, seen, remote>>

\* Not handled: workbench.action.terminal.paste.
Fallback(p) ==
    /\ At(p, "fallback")
    /\ GoTo(p, "done")
    /\ effects' = [effects EXCEPT ![p] = @ \cup {"text"}]
    /\ UNCHANGED <<here, local, page, task, terminal, seen, remote, mishaps>>

------------------------------------------------------------------------------
(* Around it *)

\* The user copies something else.
Copy ==
    /\ copies > 0
    /\ copies' = copies - 1
    /\ clip' \in Clips
    /\ UNCHANGED <<native, paste, local, page, task, terminal, effects, seen, remote, mishaps>>

\* The user closes the terminal, or the extension disposes of it: it discards a tab
\* that shows a session twice.
CloseTerminal(p) ==
    /\ terminal[p] = "open" /\ ~At(p, "idle") /\ ~At(p, "done")
    /\ Mishap
    /\ \E how \in {"closed", "disposed"} : terminal' = [terminal EXCEPT ![p] = how]
    /\ UNCHANGED <<here, paste, local, page, task, effects, seen, remote>>

Ages(p) ==
    /\ img[p] # "none" /\ At(p, "done") /\ ~old[p]
    /\ old' = [old EXCEPT ![p] = TRUE]
    /\ UNCHANGED <<here, paste, local, page, task, terminal, effects, seen, dir, img, mishaps>>

\* -mmin +2880
Doomed(p) == old[p]

\* sweepOldImages, of a window that has connected: one find on the remote.
Sweep ==
    /\ \E p \in Pastes : img[p] # "none" /\ Doomed(p)
    /\ img' = [p \in Pastes |-> IF img[p] # "none" /\ Doomed(p) THEN "none" ELSE img[p]]
    /\ UNCHANGED <<here, paste, local, page, task, terminal, effects, seen, dir, old, mishaps>>

Step(p) ==
    \/ Start(p) \/ ClipboardHasText(p) \/ RunCaptureCandidate(p) \/ NoReaderLeft(p)
    \/ ResolveRemoteHome(p) \/ EnsureRemoteImageDir(p) \/ WriteFile(p)
    \/ DelayOver(p) \/ Uploaded(p) \/ Tidy(p) \/ Fallback(p)

Webview(p) ==
    PageReads(p) \/ PageLoaded(p) \/ PageEscape(p) \/ Receive(p) \/ Dismiss(p) \/ TimesOut(p)

Next ==
    \/ \E p \in Pastes : Step(p) \/ Webview(p) \/ CloseTerminal(p) \/ Ages(p)
    \/ Copy
    \/ Sweep

Spec == Init /\ [][Next]_vars

\* The event loop, the timers, and commands that answer or fail; nothing of the
\* page or of the user.
Fairness == \A p \in Pastes : WF_vars(~At(p, "idle") /\ Step(p)) /\ WF_vars(TimesOut(p))
FairSpec == Spec /\ Fairness

------------------------------------------------------------------------------
(* Properties *)

Runs == [pc: {"idle", "text", "capture", "webview", "found", "delay", "await", "tidy",
              "fallback", "done", "lost"},
         left: Seq(Kinds), hasText: BOOLEAN,
         bytes: {"none", "ok", "big", "part"}, handled: BOOLEAN]

Pages == [at: {"none", "reading", "manual", "loading", "sent"}, blob: Images,
          msg: {"none", "empty", "ok", "big"}]

\* A panel is open exactly while its read waits for it.
PanelMatches == \A p \in Pastes : page[p].at # "none" <=> At(p, "webview")

\* The shape of every variable, and of the panels what PanelMatches says.
TypeOK ==
    /\ clip \in Clips /\ copies \in 0..MaxCopies /\ native \in Platforms
    /\ paste \in [Pastes -> Runs]
    /\ local \in [Pastes -> {"absent", "part", "ok", "big", "stuck"}]
    /\ page \in [Pastes -> Pages]
    /\ task \in [Pastes -> {"none", "mkdir", "write", "ok", "failed"}]
    /\ terminal \in [Pastes -> {"open", "closed", "disposed"}]
    /\ effects \in [Pastes -> SUBSET {"text", "path", "error"}]
    /\ seen \in [Pastes -> BOOLEAN]
    /\ dir \in {"absent", "open", "private", "blocked"}
    /\ img \in [Pastes -> {"none", "part", "ok", "big"}]
    /\ old \in [Pastes -> BOOLEAN]
    /\ mishaps \in 0..MaxMishaps
    /\ PanelMatches

\* The text typed into a terminal the user has closed meanwhile goes nowhere.
Dropped(p) == terminal[p] = "closed" /\ task[p] = "ok" /\ effects[p] = {}

\* A paste is never swallowed and never done twice: when the command is over the
\* user has got the text, or the path, or the error, and one of them only
\* (pasteImage.ts:106-107, :116-126, :163-166).  The one exception is a path for a
\* terminal the user closed while the image was on its way.
OneEffect ==
    \A p \in Pastes :
        IF At(p, "done")
          THEN (\E e \in {"text", "path", "error"} : effects[p] = {e}) \/ Dropped(p)
          ELSE effects[p] # {} => At(p, "tidy") /\ paste[p].handled

\* This machine has readers that exit 0 without having written the image.
Forced == \E i \in DOMAIN native : native[i] = "forced"

\* A path that was typed names all that the reader handed over, from the moment it is
\* typed until it is two days old, whatever connects and sweeps meanwhile; and that is
\* the whole image, whatever a killed reader left in the file, except on a
\* machine whose readers exit 0 although they have not written it (clipboardImage.ts:95-96,
\* :109, pasteImage.ts:242-243): those hand over the piece they or their forerunner left.
PathNamesImage ==
    \A p \in Pastes : "path" \in effects[p] =>
        \/ old[p]
        \/ /\ img[p] = paste[p].bytes
           /\ \/ img[p] = "ok"
              \/ img[p] = "part" /\ Forced

\* An image that a reader handed over is not answered with a paste of text, in
\* whatever order the message, the timer and the dispose of the panel come.  (An image
\* still in the page's message when the read settles has not been handed over.)
FoundIsNotText ==
    \A p \in Pastes : seen[p] => "text" \notin effects[p]

\* No image, not even part of one, lies in a directory others can read
\* (pasteImage.ts:148-151, clipboardImage.ts:239-254).
ImagesPrivate ==
    \A p \in Pastes : img[p] # "none" => dir = "private"

\* Every paste is answered, and the copy of the clipboard on the local disk is gone
\* by then, or could not be removed (pasteImage.ts:170-172): no panel that nobody
\* looks at, no silent page and no failed command keeps it waiting.  Only a terminal
\* the extension disposes of under the panel can: finish() throws before it resolves.
PasteEnds ==
    \A p \in Pastes :
        At(p, "text") ~> \/ At(p, "done") /\ local[p] \in {"absent", "stuck"}
                         \/ At(p, "lost") /\ terminal[p] = "disposed"

=============================================================================
