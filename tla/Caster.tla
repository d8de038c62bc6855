------------------------------ MODULE Caster ------------------------------
(***************************************************************************)
(* A cast of src/internal/cast/session.go: Run connects to the device,     *)
(* loads the stream with retries, then watches a status poller until       *)
(* playback ends, the receiver disappears or the context is done, and      *)
(* closes the session within a bound.  Playback controls run concurrently. *)
(* The device and the go-chromecast client are external: calls into them   *)
(* return, in any way the code provides for, except Close, which may hang. *)
(*                                                                         *)
(* Time is abstract: a timer may fire at any moment after it was armed.    *)
(* Without an OnStatus callback the reporting steps do nothing.            *)
(***************************************************************************)
EXTENDS Naturals

CONSTANTS
  LoadAttempts,  \* loadAttempts: how often Load is tried
  GoneThreshold  \* goneThreshold: polls without media that end a session

ASSUME CasterAssumption ==
  /\ LoadAttempts \in Nat \ {0}
  /\ GoneThreshold \in Nat \ {0}

VARIABLES
  run,       \* where Run is
  result,    \* what Run returns, "running" until it has returned
  verdict,   \* what it is going to return
  attempt,   \* Load attempts made
  app,       \* c.app is set
  ctxDone,   \* the context is done
  poll,      \* where pollStatus is
  sawMedia, misses, deadline, \* its local variables
  ended, gone, \* channels closed
  closing,   \* closeBounded's goroutine: none, running, done
  cached,    \* the client's last known media status
  receiver,  \* the media on the device: none, playing, finished
  loaded,    \* the device accepted a load and was not closed
  control,   \* a control call holds the app it found
  \* history: the last status shown to OnStatus, polls in a row without media
  \* (counted up to GoneThreshold)
  shown, silent

runVars == <<run, verdict, attempt, app>>
pollVars == <<poll, sawMedia, misses, deadline, ended, gone>>
devVars == <<cached, receiver, loaded>>
histVars == <<shown, silent>>
vars == <<runVars, result, ctxDone, pollVars, closing, devVars, control, histVars>>

Media == {"none", "playing", "finished"}

TypeOK ==
  /\ run \in {"start", "connected", "load", "retry", "watch", "disconnect",
              "closing", "over"}
  /\ result \in {"running", "ok", "failed", "canceled"}
  /\ verdict \in {"ok", "failed", "canceled"}
  /\ attempt \in 0 .. LoadAttempts
  /\ app \in BOOLEAN /\ ctxDone \in BOOLEAN
  /\ poll \in {"off", "waiting", "updating", "reporting", "over"}
  /\ sawMedia \in BOOLEAN /\ misses \in 0 .. GoneThreshold
  /\ deadline \in {"armed", "fired"}
  /\ ended \in BOOLEAN /\ gone \in BOOLEAN
  /\ closing \in {"none", "running", "done"}
  /\ cached \in Media /\ receiver \in Media /\ loaded \in BOOLEAN
  /\ control \in BOOLEAN
  /\ shown \in {"nothing", "CONNECTED", "DISCONNECTED"} \cup Media
  /\ silent \in 0 .. GoneThreshold

Init ==
  /\ run = "start" /\ result = "running" /\ verdict = "ok" /\ attempt = 0
  /\ app = FALSE /\ ctxDone = FALSE
  /\ poll = "off" /\ sawMedia = FALSE /\ misses = 0 /\ deadline = "armed"
  /\ ended = FALSE /\ gone = FALSE /\ closing = "none"
  /\ cached = "none" /\ receiver = "none" /\ loaded = FALSE
  /\ control = FALSE
  /\ shown = "nothing" /\ silent = 0

----------------------------------------------------------------------------
(* Run and load *)

\* app.Start fails: nothing to close.
StartFails ==
  /\ run = "start" /\ run' = "over" /\ result' = "failed"
  /\ UNCHANGED <<verdict, attempt, app, ctxDone, pollVars, closing, devVars,
                 control, histVars>>

\* It succeeds; the controls can reach the app from here on.
Connect ==
  /\ run = "start" /\ run' = "connected"
  /\ app' = TRUE
  /\ shown' = "CONNECTED"
  /\ UNCHANGED <<result, verdict, attempt, ctxDone, pollVars, closing, devVars,
                 control, silent>>

\* OnStatus(CONNECTED) returns.
Connected ==
  /\ run = "connected" /\ run' = "load"
  /\ UNCHANGED <<verdict, attempt, app, result, ctxDone, pollVars, closing,
                 devVars, control, histVars>>

\* app.Load succeeds: the poller starts.
Load ==
  /\ run = "load" /\ run' = "watch"
  /\ attempt' = attempt + 1
  /\ loaded' = TRUE
  /\ poll' = "waiting"
  /\ UNCHANGED <<verdict, app, result, ctxDone, sawMedia, misses, deadline,
                 ended, gone, closing, cached, receiver, control, histVars>>

\* closeBounded starts app.Close in a goroutine; Run will return v.
StartClosing == closing' = "running"

CloseAndReturn(v) ==
  /\ run' = "closing" /\ verdict' = v
  /\ StartClosing

GiveUp == CloseAndReturn("failed")

\* Variant with a defect: there is always another attempt.
LoadFailsForEver ==
  /\ run = "load" /\ run' = "retry"
  /\ attempt' = attempt + 1
  /\ UNCHANGED <<verdict, closing, app, result, ctxDone, pollVars, devVars,
                 control, histVars>>

\* app.Load fails: another attempt, or none are left.
LoadFails ==
  /\ run = "load"
  /\ attempt' = attempt + 1
  /\ \/ attempt' < LoadAttempts /\ run' = "retry" /\ UNCHANGED <<verdict, closing>>
     \/ attempt' = LoadAttempts /\ GiveUp
  /\ UNCHANGED <<app, result, ctxDone, pollVars, devVars, control, histVars>>

\* The client's view is refreshed, or the call fails and it stays.
Update == cached' \in {cached, receiver}

\* RetryDelay passes, then app.Update.
Retry ==
  /\ run = "retry" /\ run' = "load"
  /\ Update
  /\ UNCHANGED <<verdict, attempt, app, result, ctxDone, pollVars, closing,
                 receiver, loaded, control, histVars>>

\* Variant with a defect: Run returns the cancellation at once.
RetryCanceledAtOnce ==
  /\ run = "retry" /\ ctxDone
  /\ run' = "over" /\ verdict' = "canceled" /\ result' = "canceled"
  /\ app' = FALSE
  /\ UNCHANGED <<attempt, ctxDone, pollVars, closing, devVars, control, histVars>>

RetryCanceled ==
  /\ run = "retry" /\ ctxDone
  /\ CloseAndReturn("canceled")
  /\ UNCHANGED <<attempt, app, result, ctxDone, pollVars, devVars, control, histVars>>

\* The select of Run takes whichever of these is ready.
WatchEnded ==
  /\ run = "watch" /\ ended
  /\ CloseAndReturn("ok")
  /\ UNCHANGED <<attempt, app, result, ctxDone, pollVars, devVars, control, histVars>>

WatchGone ==
  /\ run = "watch" /\ gone
  /\ run' = "disconnect"
  /\ shown' = "DISCONNECTED"
  /\ UNCHANGED <<verdict, attempt, app, result, ctxDone, pollVars, closing,
                 devVars, control, silent>>

WatchCanceled ==
  /\ run = "watch" /\ ctxDone
  /\ CloseAndReturn("canceled")
  /\ UNCHANGED <<attempt, app, result, ctxDone, pollVars, devVars, control, histVars>>

\* OnStatus(DISCONNECTED) returns.
Disconnected ==
  /\ run = "disconnect"
  /\ CloseAndReturn("ok")
  /\ UNCHANGED <<attempt, app, result, ctxDone, pollVars, devVars, control, histVars>>

\* app.Close(true), in closeBounded's goroutine, stops the receiver or fails.
Close ==
  /\ closing = "running" /\ closing' = "done"
  /\ \/ receiver' = "none" /\ loaded' = FALSE
     \/ UNCHANGED <<receiver, loaded>>
  /\ UNCHANGED <<runVars, result, ctxDone, pollVars, cached, control, histVars>>

\* Variant with a defect: closeBounded waits for Close only.
MayLeaveCloseUnbounded == closing = "done"

\* closeBounded returns when Close does, or after closeBoundedGrace.
MayLeaveClose == closing \in {"done", "running"}

\* Run returns; the deferred calls stop the poller and clear the app.
Return ==
  /\ run = "closing" /\ run' = "over"
  /\ MayLeaveClose
  /\ result' = verdict /\ app' = FALSE
  /\ UNCHANGED <<verdict, attempt, ctxDone, pollVars, closing, devVars, control,
                 histVars>>

----------------------------------------------------------------------------
(* pollStatus *)

PollCtxDone == ctxDone \/ run = "over"

\* <-ctx.Done()
PollCanceled ==
  /\ poll = "waiting" /\ PollCtxDone
  /\ poll' = "over"
  /\ UNCHANGED <<runVars, result, ctxDone, sawMedia, misses, deadline, ended,
                 gone, closing, devVars, control, histVars>>

\* Variant with a defect: the loop goes on after gone was closed.
DeclareGoneAndGoOn == gone' = TRUE /\ poll' = "waiting"

\* close(gone); return
DeclareGone == gone' = TRUE /\ poll' = "over"

\* <-deadline.C: no media in noMediaTimeout.
DeadlineFires ==
  /\ poll = "waiting" /\ deadline = "armed"
  /\ deadline' = "fired"
  /\ IF sawMedia THEN UNCHANGED <<gone, poll>> ELSE DeclareGone
  /\ UNCHANGED <<runVars, result, ctxDone, sawMedia, misses, ended, closing,
                 devVars, control, histVars>>

\* <-ticker.C
Tick ==
  /\ poll = "waiting"
  /\ poll' = "updating"
  /\ UNCHANGED <<runVars, result, ctxDone, sawMedia, misses, deadline, ended,
                 gone, closing, devVars, control, histVars>>

\* Variant with a defect: misses are counted over the whole session.
MissesKept == misses

MissesAfterMedia == 0

\* app.Update and app.MediaStatus give a media status, shown to OnStatus.
PollMedia ==
  /\ poll = "updating" /\ poll' = "reporting"
  /\ Update /\ cached' # "none"
  /\ sawMedia' = TRUE /\ misses' = MissesAfterMedia
  /\ shown' = cached'
  /\ silent' = 0
  /\ UNCHANGED <<runVars, result, ctxDone, deadline, ended, gone, closing,
                 receiver, loaded, control>>

\* They give none: a miss, once media has been seen.
PollNothing ==
  /\ poll = "updating"
  /\ Update /\ cached' = "none"
  /\ misses' = IF sawMedia THEN misses + 1 ELSE misses
  /\ IF misses' >= GoneThreshold THEN DeclareGone
                                 ELSE poll' = "waiting" /\ UNCHANGED gone
  /\ silent' = IF silent < GoneThreshold THEN silent + 1 ELSE silent
  /\ UNCHANGED <<runVars, result, ctxDone, sawMedia, deadline, ended, closing,
                 receiver, loaded, control, shown>>

\* Variant with a defect: the reason is missing from the table.
TerminalMissing(media) == FALSE

\* terminalIdleReasons: IDLE for one of these reasons is the end.
Terminal(media) == media = "finished"

\* OnStatus returns; a terminal idle state ends the poller.
Reported ==
  /\ poll = "reporting"
  /\ IF Terminal(cached) THEN ended' = TRUE /\ poll' = "over"
                            ELSE poll' = "waiting" /\ UNCHANGED ended
  /\ UNCHANGED <<runVars, result, ctxDone, sawMedia, misses, deadline, gone,
                 closing, devVars, control, histVars>>

----------------------------------------------------------------------------
(* The caller's context, the playback controls, and the device *)

Cancel ==
  /\ ~ctxDone /\ ctxDone' = TRUE
  /\ UNCHANGED <<runVars, result, pollVars, closing, devVars, control, histVars>>

\* control reads c.app under the lock ...
ControlBegin ==
  /\ ~control /\ app /\ control' = TRUE
  /\ UNCHANGED <<runVars, result, ctxDone, pollVars, closing, devVars, histVars>>

\* ... and calls it outside: Stop ends the media that is playing, Pause and
\* Unpause leave it there.
ControlCall ==
  /\ control /\ control' = FALSE
  /\ receiver' \in {receiver, IF receiver = "playing" THEN "finished" ELSE receiver}
  /\ UNCHANGED <<runVars, result, ctxDone, pollVars, closing, cached, loaded, histVars>>

\* The media starts, ends, or is not reported for a while.
DeviceChanges ==
  /\ loaded
  /\ \/ receiver = "none" /\ receiver' = "playing"
     \/ receiver = "playing" /\ receiver' \in {"finished", "none"}
     \/ receiver = "finished" /\ receiver' = "none"
  /\ UNCHANGED <<runVars, result, ctxDone, pollVars, closing, cached, loaded,
                 control, histVars>>

----------------------------------------------------------------------------
RunStep ==
  \/ StartFails \/ Connect \/ Connected
  \/ Load \/ LoadFails \/ Retry \/ RetryCanceled
  \/ WatchEnded \/ WatchGone \/ WatchCanceled \/ Disconnected \/ Return

PollStep ==
  \/ PollCanceled \/ DeadlineFires \/ Tick
  \/ PollMedia \/ PollNothing \/ Reported

Next ==
  \/ RunStep \/ PollStep \/ Close
  \/ Cancel \/ ControlBegin \/ ControlCall \/ DeviceChanges

Spec == Init /\ [][Next]_vars

\* Run and the poller are scheduled, timers fire, calls into the client
\* return; nothing is asked of Close, of the device or of the callers.
FairSpec == Spec /\ WF_vars(RunStep) /\ WF_vars(PollStep)

\* What a device that is not playing needs to be noticed: select is fair to
\* a deadline that has passed, and Update succeeds now and then.
Refresh == (PollMedia \/ PollNothing) /\ cached' = receiver

DeviceIsHeard == SF_vars(DeadlineFires) /\ SF_vars(Refresh)

----------------------------------------------------------------------------
(* Properties *)

(* OnStatus is never running twice at once, although two goroutines call   *)
(* it: Run's two synthetic statuses come before the poller starts and      *)
(* after it has returned.  Its callees rely on that to print each          *)
(* transition once (plainUI.CastStatus loads and stores the last state).   *)
StatusCallsDoNotOverlap ==
  ~(run \in {"connected", "disconnect"} /\ poll = "reporting")

(* The receiver is declared gone only after goneThreshold polls in a row   *)
(* without media, or if it never showed any: statuses that are missed now  *)
(* and then do not end a film.                                             *)
GoneMeansSilence == gone /\ sawMedia => silent >= GoneThreshold

(* Whatever way Run returns, a session it connected was told to close, so  *)
(* that the television does not go on playing.                             *)
ReturnedMeansClosed == result # "running" /\ shown # "nothing" => closing # "none"

(* A cast keeps what Playback promises, the end after a cancellation       *)
(* included, also when Close hangs.                                        *)
Backend == INSTANCE Playback

BackendSpec == Backend!PlaybackSpec

(* A session whose device does not play any more ends without being        *)
(* cancelled: the media finished, vanished, or never appeared.             *)
IdleDeviceEndsSession ==
  DeviceIsHeard =>
    []<>(receiver = "playing") \/ (run = "watch" ~> result # "running")
=============================================================================
