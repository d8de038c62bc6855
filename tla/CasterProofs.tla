---------------------------- MODULE CasterProofs ----------------------------
(***************************************************************************)
(* Theorems about Caster for every number of load attempts and of polls    *)
(* that declare a receiver gone.                                           *)
(***************************************************************************)
EXTENDS Caster, TLAPS

BeforeWatch == {"start", "connected", "load", "retry"}

(* Run: the poller is off until the stream is loaded; whatever way leads   *)
(* out of a session that was connected leads through closeBounded.         *)
RunInv ==
  /\ run \in BeforeWatch => attempt < LoadAttempts /\ poll = "off"
  /\ run = "start" => shown = "nothing"
  /\ run = "closing" => closing # "none"
  /\ run = "over" => closing # "none" \/ (poll = "off" /\ shown = "nothing")
  /\ run = "over" <=> result # "running"
  /\ verdict = "canceled" => ctxDone
  /\ run = "disconnect" => gone

(* pollStatus: it ends when it declares the receiver gone, and what it     *)
(* counts is never more than the polls in a row without media.             *)
PollInv ==
  /\ gone => poll = "over"
  /\ poll # "over" => misses < GoneThreshold
  /\ ~sawMedia => misses = 0
  /\ misses <= silent

(* TypeOK in two parts: the Booleans and the rest.                         *)
Flags ==
  /\ app \in BOOLEAN /\ ctxDone \in BOOLEAN /\ sawMedia \in BOOLEAN
  /\ ended \in BOOLEAN /\ gone \in BOOLEAN
  /\ loaded \in BOOLEAN /\ control \in BOOLEAN

Ranges ==
  /\ run \in BeforeWatch \cup {"watch", "disconnect", "closing", "over"}
  /\ result \in {"running", "ok", "failed", "canceled"}
  /\ verdict \in {"ok", "failed", "canceled"}
  /\ attempt \in 0 .. LoadAttempts
  /\ poll \in {"off", "waiting", "updating", "reporting", "over"}
  /\ misses \in 0 .. GoneThreshold
  /\ deadline \in {"armed", "fired"}
  /\ closing \in {"none", "running", "done"}
  /\ cached \in Media /\ receiver \in Media
  /\ shown \in {"nothing", "CONNECTED", "DISCONNECTED"} \cup Media
  /\ silent \in 0 .. GoneThreshold

IInv == Flags /\ Ranges /\ RunInv /\ PollInv /\ GoneMeansSilence

----------------------------------------------------------------------------
(* The invariant is inductive, one lemma for each goroutine *)

(* Run keeps it, and the goroutine that closes the session.                *)
LEMMA RunSteps ==
  ASSUME IInv, RunStep \/ Close
  PROVE  IInv'
<1> USE CasterAssumption DEF IInv, Flags, Ranges, RunInv, PollInv, GoneMeansSilence,
      BeforeWatch, Media, runVars, pollVars, devVars, histVars
<1>1. CASE StartFails
  BY <1>1 DEF StartFails
<1>2. CASE Connect
  BY <1>2 DEF Connect
<1>3. CASE Connected
  BY <1>3 DEF Connected
<1>4. CASE Load
  BY <1>4 DEF Load
<1>5. CASE LoadFails
  BY <1>5 DEF LoadFails, GiveUp, CloseAndReturn, StartClosing
<1>6. CASE Retry
  BY <1>6 DEF Retry, Update
<1>7. CASE RetryCanceled
  BY <1>7 DEF RetryCanceled, CloseAndReturn, StartClosing
<1>8. CASE WatchEnded
  BY <1>8 DEF WatchEnded, CloseAndReturn, StartClosing
<1>9. CASE WatchGone
  BY <1>9 DEF WatchGone
<1>10. CASE WatchCanceled
  BY <1>10 DEF WatchCanceled, CloseAndReturn, StartClosing
<1>11. CASE Disconnected
  BY <1>11 DEF Disconnected, CloseAndReturn, StartClosing
<1>12. CASE Return
  <2>1. Flags'
    BY <1>12 DEF Return, MayLeaveClose
  <2>2. Ranges'
    BY <1>12 DEF Return, MayLeaveClose
  <2>3. RunInv'
    BY <1>12 DEF Return, MayLeaveClose
  <2>4. PollInv' /\ GoneMeansSilence'
    BY <1>12 DEF Return, MayLeaveClose
  <2> QED
    BY <2>1, <2>2, <2>3, <2>4
<1>13. CASE Close
  <2>1. Flags'
    BY <1>13 DEF Close
  <2>2. Ranges'
    BY <1>13 DEF Close
  <2>3. RunInv'
    BY <1>13 DEF Close
  <2>4. PollInv' /\ GoneMeansSilence'
    BY <1>13 DEF Close
  <2> QED
    BY <2>1, <2>2, <2>3, <2>4
<1> HIDE DEF IInv
<1> QED
  BY <1>1, <1>2, <1>3, <1>4, <1>5, <1>6, <1>7, <1>8, <1>9, <1>10, <1>11, <1>12,
     <1>13
    DEF RunStep

(* The poller keeps it.                                                    *)
LEMMA PollSteps ==
  ASSUME IInv, PollStep
  PROVE  IInv'
<1> USE CasterAssumption DEF IInv, Flags, Ranges, RunInv, PollInv, GoneMeansSilence,
      BeforeWatch, Media, runVars, pollVars, devVars, histVars, DeclareGone
<1>1. CASE PollCanceled
  BY <1>1 DEF PollCanceled
<1>2. CASE DeadlineFires
  <2>1. Flags'
    BY <1>2 DEF DeadlineFires
  <2>2. Ranges'
    BY <1>2 DEF DeadlineFires
  <2>3. RunInv'
    BY <1>2 DEF DeadlineFires
  <2>4. PollInv' /\ GoneMeansSilence'
    BY <1>2 DEF DeadlineFires
  <2> QED
    BY <2>1, <2>2, <2>3, <2>4
<1>3. CASE Tick
  BY <1>3 DEF Tick
<1>4. CASE PollMedia
  BY <1>4 DEF PollMedia, Update, MissesAfterMedia
<1>5. CASE PollNothing
  <2>1. Flags'
    BY <1>5 DEF PollNothing, Update
  <2>2. Ranges'
    BY <1>5 DEF PollNothing, Update
  <2>3. RunInv'
    BY <1>5 DEF PollNothing, Update
  <2>4. PollInv' /\ GoneMeansSilence'
    BY <1>5 DEF PollNothing, Update
  <2> QED
    BY <2>1, <2>2, <2>3, <2>4
<1>6. CASE Reported
  <2>1. Flags'
    BY <1>6 DEF Reported, Terminal
  <2>2. Ranges'
    BY <1>6 DEF Reported, Terminal
  <2>3. RunInv'
    BY <1>6 DEF Reported, Terminal
  <2>4. PollInv' /\ GoneMeansSilence'
    BY <1>6 DEF Reported, Terminal
  <2> QED
    BY <2>1, <2>2, <2>3, <2>4
<1> HIDE DEF IInv
<1> QED
  BY <1>1, <1>2, <1>3, <1>4, <1>5, <1>6 DEF PollStep

(* The caller, the playback controls and the device keep it.               *)
LEMMA OutsideSteps ==
  ASSUME IInv, Cancel \/ ControlBegin \/ ControlCall \/ DeviceChanges
  PROVE  IInv'
<1> USE DEF IInv, Flags, Ranges, RunInv, PollInv, GoneMeansSilence, BeforeWatch, Media,
      runVars, pollVars, devVars, histVars
<1>1. CASE Cancel
  BY <1>1 DEF Cancel
<1>2. CASE ControlBegin
  BY <1>2 DEF ControlBegin
<1>3. CASE ControlCall
  <2>1. Flags'
    BY <1>3 DEF ControlCall
  <2>2. Ranges'
    BY <1>3 DEF ControlCall
  <2>3. RunInv' /\ PollInv' /\ GoneMeansSilence'
    BY <1>3 DEF ControlCall
  <2> QED
    BY <2>1, <2>2, <2>3
<1>4. CASE DeviceChanges
  BY <1>4 DEF DeviceChanges
<1> HIDE DEF IInv
<1> QED
  BY <1>1, <1>2, <1>3, <1>4

(* The invariant holds of a cast at every moment.                          *)
LEMMA CastInductive == Spec => []IInv
<1>1. Init => IInv
  <2> SUFFICES ASSUME Init PROVE IInv
    OBVIOUS
  <2>1. Flags
    BY DEF Init, Flags
  <2>2. Ranges
    BY CasterAssumption DEF Init, Ranges, BeforeWatch, Media
  <2>3. RunInv /\ PollInv /\ GoneMeansSilence
    BY CasterAssumption DEF Init, RunInv, PollInv, GoneMeansSilence, BeforeWatch
  <2> QED
    BY <2>1, <2>2, <2>3 DEF IInv
<1>2. IInv /\ [Next]_vars => IInv'
  <2>1. CASE UNCHANGED vars
    BY <2>1 DEF IInv, Flags, Ranges, RunInv, PollInv, GoneMeansSilence, vars, runVars,
      pollVars, devVars, histVars
  <2> QED
    BY <2>1, RunSteps, PollSteps, OutsideSteps DEF Next
<1> QED
  BY <1>1, <1>2, PTL DEF Spec

----------------------------------------------------------------------------
(* What follows from it *)

(* Every variable keeps its type; the attempts to load are bounded.        *)
THEOREM CastTypeCorrect == Spec => []TypeOK
<1>1. IInv => TypeOK
  BY DEF IInv, Flags, Ranges, BeforeWatch, TypeOK
<1> QED
  BY <1>1, CastInductive, PTL

(* Run and pollStatus never call OnStatus at the same time.                *)
THEOREM StatusCallsAreSerial == Spec => []StatusCallsDoNotOverlap
<1>1. IInv => StatusCallsDoNotOverlap
  BY DEF IInv, RunInv, PollInv, StatusCallsDoNotOverlap, BeforeWatch
<1> QED
  BY <1>1, CastInductive, PTL

(* A receiver that has shown media is declared gone only after as many     *)
(* polls in a row without any as goneThreshold says.                       *)
THEOREM GoneIsSilent == Spec => []GoneMeansSilence
<1>1. IInv => GoneMeansSilence
  BY DEF IInv
<1> QED
  BY <1>1, CastInductive, PTL

(* Run does not return from a session it connected without closing it.     *)
THEOREM EveryWayOutCloses == Spec => []ReturnedMeansClosed
<1>1. IInv => ReturnedMeansClosed
  BY DEF IInv, RunInv, ReturnedMeansClosed
<1> QED
  BY <1>1, CastInductive, PTL

(* A cast does what a playback backend may do, and nothing else: it        *)
(* returns once, and as cancelled only if it was.                          *)
THEOREM ImplementsPlayback == Spec => Backend!PlaybackSteps
<1>1. Init => Backend!PlaybackInit
  BY DEF Init, Backend!PlaybackInit
<1>2. IInv /\ [Next]_vars
        => [Backend!Cancel \/ Backend!Return]_<<result, ctxDone>>
  <2> SUFFICES ASSUME IInv, [Next]_vars,
                      ~UNCHANGED <<result, ctxDone>>
               PROVE  Backend!Cancel \/ Backend!Return
    OBVIOUS
  <2> USE DEF runVars, pollVars, devVars, histVars
  <2>1. CASE Cancel
    BY <2>1 DEF Cancel, Backend!Cancel
  <2>2. CASE StartFails
    BY <2>2 DEF StartFails, IInv, RunInv, Backend!Return
  <2>3. CASE Return
    BY <2>3 DEF Return, IInv, Ranges, RunInv, Backend!Return
  <2>4. CASE Connect \/ Connected \/ Load \/ LoadFails \/ Retry \/ RetryCanceled
    BY <2>4 DEF Connect, Connected, Load, LoadFails, Retry, RetryCanceled
  <2>5. CASE WatchEnded \/ WatchGone \/ WatchCanceled \/ Disconnected \/ Close
    BY <2>5 DEF WatchEnded, WatchGone, WatchCanceled, Disconnected, Close
  <2>6. CASE PollStep
    BY <2>6 DEF PollStep, PollCanceled, DeadlineFires, Tick, PollMedia,
      PollNothing, Reported
  <2>7. CASE ControlBegin \/ ControlCall \/ DeviceChanges
    BY <2>7 DEF ControlBegin, ControlCall, DeviceChanges
  <2>8. CASE UNCHANGED vars
    BY <2>8 DEF vars
  <2> QED
    BY <2>1, <2>2, <2>3, <2>4, <2>5, <2>6, <2>7, <2>8 DEF Next, RunStep
<1> QED
  BY <1>1, <1>2, CastInductive, PTL DEF Spec, Backend!PlaybackSteps
=============================================================================
