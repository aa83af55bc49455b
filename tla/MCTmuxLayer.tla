---------------------------- MODULE MCTmuxLayer ----------------------------
(* TmuxLayer for TLC.  What this workspace does not own are corpses, the    *)
(* sessions a reaper could mistake for its own.                             *)
EXTENDS TmuxLayer

LeftBehind == {left \in [Names -> {"none", "live", "corpse"}] :
                 \A n \in Sibling \cup Foreign : left[n] = "corpse"}

============================================================================
