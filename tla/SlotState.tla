------------------------------ MODULE SlotState ------------------------------
(***************************************************************************)
(* The slot decision of src/src/tmux/slotState.ts and the reap decision of *)
(* src/src/tmux/tmuxSession.ts: pure functions of what was observed.  A    *)
(* session of this workspace is named by its slot, so a slot stands for    *)
(* the name everywhere in these modules.                                   *)
(***************************************************************************)
EXTENDS Integers

\* What list-sessions says of one slot.  `windows` is not kept: the decision
\* has no branch on it (slotState.ts:115-121).
RemoteSlotState == {"none", "detached", "attached"}

SlotAction == {"restore-takeover", "restore", "adopt", "skip"}

\* Precedence: a slot on screen is left alone; then ownership (mapped); then
\* adoption, of a detached orphan only.
DecideSlotAction(mapped, openHere, remote) ==
    CASE openHere                                    -> "skip"
      [] ~openHere /\ mapped /\ remote = "attached"  -> "restore-takeover"
      [] ~openHere /\ mapped /\ remote # "attached"  -> "restore"
      [] ~openHere /\ ~mapped /\ remote = "detached" -> "adopt"
      [] ~openHere /\ ~mapped /\ remote # "detached" -> "skip"

=============================================================================
