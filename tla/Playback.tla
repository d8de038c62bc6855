----------------------------- MODULE Playback -----------------------------
(***************************************************************************)
(* What a playback backend promises the session that runs it: it returns   *)
(* once, of its own accord or because its context is done, it reports a    *)
(* cancellation only when there was one, and it does not outlive its       *)
(* context for ever.  Module Caster implements it; StreamManager relies on *)
(* it (BackendReturns, and the fairness of BackendInterrupted).            *)
(***************************************************************************)
VARIABLES
  result,  \* "running", or how the backend returned
  ctxDone  \* its context is done

Cancel == ~ctxDone /\ ctxDone' = TRUE /\ UNCHANGED result

Return ==
  /\ result = "running"
  /\ \/ result' \in {"ok", "failed"}
     \/ ctxDone /\ result' = "canceled"
  /\ UNCHANGED ctxDone

PlaybackInit == result = "running" /\ ctxDone = FALSE

\* What it does when it does something ...
PlaybackSteps == PlaybackInit /\ [][Cancel \/ Return]_<<result, ctxDone>>

\* ... and what it does in the end.
PlaybackSpec ==
  /\ PlaybackSteps
  /\ WF_<<result, ctxDone>>(ctxDone /\ Return)
=============================================================================
