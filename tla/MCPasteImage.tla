---------------------------- MODULE MCPasteImage ----------------------------
(* PasteImage for TLC: the readers of Windows and of macOS, and a Linux    *)
(* whose wl-paste has missed (a machine without readers is one on which    *)
(* all have); a screenshot, nothing, and an image with its URL, too large  *)
(* to upload.                                                              *)
EXTENDS PasteImage

EveryPlatform == {<<"forced", "forced">>, <<"file", "file">>, <<"stdout">>}
SomeClips == {[text |-> FALSE, image |-> "ok"], [text |-> FALSE, image |-> "none"],
              [text |-> TRUE, image |-> "big"]}

=============================================================================
