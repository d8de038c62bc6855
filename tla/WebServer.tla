----------------------------- MODULE WebServer -----------------------------
(***************************************************************************)
(* The web mode: the HTTP handlers of src/internal/web/web.go in front of  *)
(* one StreamManager, and the shutdown sequence of                         *)
(* src/internal/cli/webserver.go with the watchdog of run.go.              *)
(*                                                                         *)
(* A handler runs in a goroutine of its own and may be anywhere between    *)
(* the arrival of its request and its answer when the process is told to   *)
(* stop.  Requests that are answered with an error before they reach the   *)
(* manager, and GET requests, change nothing and are left out.             *)
(***************************************************************************)
EXTENDS StreamManager

\* Callers, of StreamManager, are the handlers and the shutdown goroutine.
CONSTANTS
  Requests,  \* slots for requests in progress
  Closer     \* the goroutine that shuts down, the only other caller of Stop

ASSUME WebAssumption == Callers = Requests \cup {Closer} /\ Closer \notin Requests

VARIABLES
  req,       \* what the handler in each slot is doing
  started,   \* the session its Start began, 0 if none
  stored,    \* handlers that hold the temporary file of an upload
  httpOpen,  \* the API's listener accepts requests
  closer,    \* where the shutdown goroutine is
  exited     \* how the process ended, if it did

webVars == <<req, started, stored, httpOpen, closer, exited>>
allVars == <<vars, webVars>>

Idle == "idle"
Starting == {"magnet", "upload"}

WebTypeOK ==
  /\ TypeOK
  /\ req \in [Requests -> Starting \cup
                {Idle, "select", "stop", "accepted", "refused"}]
  /\ started \in [Requests -> 0 .. MaxGen]
  /\ stored \in SUBSET Requests
  /\ httpOpen \in BOOLEAN
  /\ closer \in {"waiting", "closing", "closed", "over"}
  /\ exited \in {"no", "returned", "forced"}

WebInit ==
  /\ Init
  /\ req = [r \in Requests |-> Idle]
  /\ started = [r \in Requests |-> 0]
  /\ stored = {}
  /\ httpOpen = TRUE
  /\ closer = "waiting"
  /\ exited = "no"

Becomes(r, from, to) == req[r] = from /\ req' = [req EXCEPT ![r] = to]

----------------------------------------------------------------------------
(* Handlers *)

\* A request arrives; an upload is written to a temporary file first.
Receive(r, kind) ==
  /\ httpOpen
  /\ Becomes(r, Idle, kind)
  /\ stored' = IF kind = "upload" THEN stored \cup {r} ELSE stored
  /\ UNCHANGED <<vars, started, httpOpen, closer, exited>>

\* start: the manager takes the source ...
StartAccepted(r) ==
  /\ req[r] \in Starting
  /\ Start(req[r] = "upload")
  /\ req' = [req EXCEPT ![r] = "accepted"]
  /\ started' = [started EXCEPT ![r] = gen + 1]
  /\ stored' = stored \ {r}
  /\ UNCHANGED <<httpOpen, closer, exited>>

\* ... or refuses it: busy, or no data directory.
StartRefused(r) ==
  /\ req[r] \in Starting
  /\ req' = [req EXCEPT ![r] = "refused"]
  /\ UNCHANGED <<vars, started, stored, httpOpen, closer, exited>>

\* Variant with a defect: the file is removed whatever Start returned.
CleanupAlways(r) ==
  /\ stored' = stored \ {r}
  /\ source' = IF req[r] = "accepted" /\ source[started[r]] = "uploaded"
               THEN [source EXCEPT ![started[r]] = "removed"]
               ELSE source

\* The file of an upload that was refused is removed.
Cleanup(r) ==
  /\ stored' = IF req[r] = "refused" THEN stored \ {r} ELSE stored
  /\ UNCHANGED source

AnswerStart(r) ==
  /\ req[r] \in {"accepted", "refused"}
  /\ Cleanup(r)
  /\ req' = [req EXCEPT ![r] = Idle]
  /\ started' = [started EXCEPT ![r] = 0]
  /\ UNCHANGED <<mgrVars, sess, pc, loc, eng, lis, grp, ctxVars, op, histVars>>
  /\ UNCHANGED <<httpOpen, closer, exited>>

\* selectFile: acknowledged, or refused for a state or index that is wrong.
AnswerSelect(r) ==
  /\ Becomes(r, "select", Idle)
  /\ \/ \E i \in Index : Select(i)
     \/ UNCHANGED vars
  /\ UNCHANGED <<started, stored, httpOpen, closer, exited>>

\* stop: 200 whatever Stop returned.
CallStop(r) ==
  /\ req[r] = "stop" /\ StopBegin(r)
  /\ UNCHANGED webVars

AnswerStop(r) ==
  /\ Becomes(r, "stop", Idle)
  /\ \/ StopReturn(r)
     \/ cur = 0 /\ op[r] = NoCall /\ UNCHANGED vars
  /\ UNCHANGED <<started, stored, httpOpen, closer, exited>>

----------------------------------------------------------------------------
(* Shutdown *)

\* ListenAndServe fails; its error cancels the errgroup's context.
ListenAndServeFails ==
  /\ httpOpen /\ closer = "waiting"
  /\ httpOpen' = FALSE
  /\ UNCHANGED <<vars, req, started, stored, closer, exited>>

\* <-gctx.Done(), then manager.Close: Stop the session there is, if any.
Shutdown ==
  /\ closer = "waiting"
  /\ procDone \/ ~httpOpen
  /\ IF cur # 0 THEN StopBegin(Closer) ELSE UNCHANGED vars
  /\ closer' = IF cur # 0 THEN "closing" ELSE "closed"
  /\ UNCHANGED <<req, started, stored, httpOpen, exited>>

\* manager.Close returns, whatever Stop returned.
ManagerClosed ==
  /\ closer = "closing" /\ StopReturn(Closer)
  /\ closer' = "closed"
  /\ UNCHANGED <<req, started, stored, httpOpen, exited>>

\* httpSrv.Close: handlers in progress go on.
CloseHTTP ==
  /\ closer = "closed" /\ closer' = "over"
  /\ httpOpen' = FALSE
  /\ UNCHANGED <<vars, req, started, stored, exited>>

\* group.Wait and runWebserver return.
Exit ==
  /\ closer = "over" /\ exited' = "returned"
  /\ UNCHANGED <<vars, req, started, stored, httpOpen, closer>>

\* The watchdog gives a signalled process fifteen seconds.
ForceExit ==
  /\ procDone /\ exited' = "forced"
  /\ UNCHANGED <<vars, req, started, stored, httpOpen, closer>>

----------------------------------------------------------------------------
Handler(r) ==
  \/ \E kind \in Starting \cup {"select", "stop"} : Receive(r, kind)
  \/ StartAccepted(r) \/ StartRefused(r) \/ AnswerStart(r)
  \/ AnswerSelect(r)
  \/ CallStop(r) \/ AnswerStop(r)

Waiting(c) == (StopCancel(c) \/ StopDone(c) \/ StopTimeout(c)) /\ UNCHANGED webVars

Closing == Shutdown \/ ManagerClosed \/ CloseHTTP \/ Exit

WebNext ==
  /\ exited = "no"
  /\ \/ \E r \in Requests : Handler(r)
     \/ \E c \in Callers : Waiting(c)
     \/ \E g \in Gens : Session(g) /\ UNCHANGED webVars
     \/ Interrupt /\ UNCHANGED webVars
     \/ ListenAndServeFails
     \/ Closing
     \/ ForceExit

WebSpec == WebInit /\ [][WebNext]_allVars

(* The shutdown goroutine runs and Stop's timer fires; neither the         *)
(* sessions nor the watchdog are relied upon.                              *)
ShutdownSpec ==
  /\ WebSpec
  /\ WF_allVars(exited = "no" /\ Closing)
  /\ WF_allVars(exited = "no" /\ Waiting(Closer))

----------------------------------------------------------------------------
(* Properties *)

(* The temporary file of an upload has one keeper from its request to its  *)
(* end: a handler that has answered keeps none, because the manager took   *)
(* it or it was removed; and the file a session was started with stays in  *)
(* place until the session has opened it, although the handler that stored *)
(* it is long gone.                                                        *)
UploadHasOneKeeper ==
  /\ \A r \in stored : req[r] \in {"upload", "refused"}
  /\ \A g \in Gens : pc[g] \in {"engine", "open"} => source[g] # "removed"

(* A signal ends the process without the watchdog's help, even when a      *)
(* torrent client hangs: manager.Close waits stopGrace at most.            *)
SignalEndsProcess == procDone ~> exited # "no"
=============================================================================
