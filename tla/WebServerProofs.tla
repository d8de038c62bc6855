--------------------------- MODULE WebServerProofs ---------------------------
(***************************************************************************)
(* Theorems about WebServer for every number of requests in progress: the  *)
(* handlers and the shutdown use the streaming manager as StreamManager    *)
(* has it used, so that what is proved there holds of the web mode, and    *)
(* uploads are handed over without a gap.                                  *)
(***************************************************************************)
EXTENDS WebServer, StreamManagerProofs

(* The web mode's own variables.                                           *)
WebVarsOK ==
  /\ req \in [Requests -> Starting \cup
                {Idle, "select", "stop", "accepted", "refused"}]
  /\ started \in [Requests -> 0 .. MaxGen]
  /\ stored \in SUBSET Requests
  /\ httpOpen \in BOOLEAN
  /\ closer \in {"waiting", "closing", "closed", "over"}
  /\ exited \in {"no", "returned", "forced"}

HandlerKeeps == \A r \in stored : req[r] \in {"upload", "refused"}

SessionKeeps(g) == pc[g] \in {"engine", "open"} => source[g] # "removed"

WInv ==
  /\ IInv /\ WebVarsOK /\ HandlerKeeps
  /\ \A g \in Gens : SessionKeeps(g)

----------------------------------------------------------------------------
(* The web mode drives the manager through its API *)

(* Whatever the server does, the manager sees a call of its API, a step of *)
(* its own, or nothing.                                                    *)
LEMMA ManagerStep ==
  ASSUME [WebNext]_allVars
  PROVE  [Next]_vars
<1> USE DEF Next, Caller
<1>1. ASSUME NEW r \in Requests, Handler(r) PROVE [Next]_vars
  <2>1. r \in Callers
    BY WebAssumption
  <2>2. CASE \E kind \in Starting \cup {"select", "stop"} : Receive(r, kind)
    BY <2>2 DEF Receive
  <2>3. CASE StartAccepted(r)
    <3>1. (req[r] = "upload") \in BOOLEAN
      OBVIOUS
    <3> QED
      BY <2>3, <3>1 DEF StartAccepted
  <2>4. CASE StartRefused(r)
    BY <2>4 DEF StartRefused
  <2>5. CASE AnswerStart(r)
    BY <2>5 DEF AnswerStart, Cleanup, vars, resVars
  <2>6. CASE AnswerSelect(r)
    BY <2>6 DEF AnswerSelect
  <2>7. CASE CallStop(r)
    BY <2>1, <2>7 DEF CallStop
  <2>8. CASE AnswerStop(r)
    BY <2>1, <2>8 DEF AnswerStop
  <2> HIDE DEF Next
  <2> QED
    BY <1>1, <2>2, <2>3, <2>4, <2>5, <2>6, <2>7, <2>8 DEF Handler
<1>2. ASSUME NEW c \in Callers, Waiting(c) PROVE [Next]_vars
  BY <1>2 DEF Waiting
<1>3. ASSUME NEW g \in Gens, Session(g) PROVE [Next]_vars
  BY <1>3
<1>4. CASE Interrupt
  BY <1>4
<1>5. CASE ListenAndServeFails
  BY <1>5 DEF ListenAndServeFails
<1>6. CASE Closing \/ ForceExit
  <2>1. Closer \in Callers
    BY WebAssumption
  <2> QED
    BY <1>6, <2>1 DEF Closing, Shutdown, ManagerClosed, CloseHTTP, Exit, ForceExit
<1>7. CASE UNCHANGED allVars
  BY <1>7 DEF allVars
<1> HIDE DEF Next
<1> QED
  BY <1>1, <1>2, <1>3, <1>4, <1>5, <1>6, <1>7 DEF WebNext

(* Every theorem about the manager is one about the manager in the web     *)
(* mode: web.go and webserver.go drive it as any callers of its API would. *)
THEOREM WebDrivesManager == WebSpec => Spec
<1>1. WebInit => Init
  BY DEF WebInit
<1>2. [WebNext]_allVars => [Next]_vars
  BY ManagerStep
<1> QED
  BY <1>1, <1>2, PTL DEF WebSpec, Spec

----------------------------------------------------------------------------
(* Who keeps an upload *)

(* The server's variables keep their types, and a handler holds a file     *)
(* only before its Start or after a refusal (startUpload).                 *)
LEMMA HandlerStep ==
  ASSUME TypeOK, WebVarsOK, HandlerKeeps, WebNext
  PROVE  WebVarsOK' /\ HandlerKeeps'
<1> USE DEF WebVarsOK, HandlerKeeps, Starting, Idle, Becomes
<1>1. ASSUME NEW r \in Requests, Handler(r) PROVE WebVarsOK' /\ HandlerKeeps'
  <2>1. ASSUME NEW kind \in Starting \cup {"select", "stop"}, Receive(r, kind)
        PROVE  WebVarsOK' /\ HandlerKeeps'
    BY <2>1 DEF Receive
  <2>2. CASE StartAccepted(r)
    <3>1. gen + 1 \in 0 .. MaxGen
      BY <2>2, ManagerAssumption DEF StartAccepted, Start, TypeOK
    <3> QED
      BY <2>2, <3>1 DEF StartAccepted
  <2>3. CASE StartRefused(r)
    BY <2>3 DEF StartRefused
  <2>4. CASE AnswerStart(r)
    BY <2>4, ManagerAssumption DEF AnswerStart, Cleanup
  <2>5. CASE AnswerSelect(r)
    BY <2>5 DEF AnswerSelect
  <2>6. CASE CallStop(r)
    BY <2>6 DEF CallStop, webVars
  <2>7. CASE AnswerStop(r)
    BY <2>7 DEF AnswerStop
  <2> HIDE DEF WebVarsOK, HandlerKeeps
  <2> QED
    BY <1>1, <2>1, <2>2, <2>3, <2>4, <2>5, <2>6, <2>7 DEF Handler
<1>2. ASSUME UNCHANGED webVars PROVE WebVarsOK' /\ HandlerKeeps'
  BY <1>2 DEF webVars
<1>3. CASE ListenAndServeFails \/ ForceExit
  BY <1>3 DEF ListenAndServeFails, ForceExit
<1>4. CASE Closing
  BY <1>4 DEF Closing, Shutdown, ManagerClosed, CloseHTTP, Exit
<1> HIDE DEF WebVarsOK, HandlerKeeps
<1> QED
  BY <1>1, <1>2, <1>3, <1>4 DEF WebNext, Waiting

(* No step of the manager removes a file that is still to be opened.       *)
LEMMA KeptStep ==
  ASSUME IInv, Next, NEW g \in Gens, SessionKeeps(g)
  PROVE  SessionKeeps(g)'
<1> USE DEF SessionKeeps, Goto, resVars
<1>1. TypeOK
  BY DEF IInv
<1>2. ASSUME NEW upload \in BOOLEAN, Start(upload), g = gen + 1
      PROVE  SessionKeeps(g)'
  BY <1>1, <1>2 DEF Start, TypeOK
<1>3. ASSUME NEW i \in Index, Select(i) PROVE SessionKeeps(g)'
  BY <1>3 DEF Select
<1>4. CASE Frame(g)
  BY <1>4 DEF Frame
<1>5. ASSUME Session(g) PROVE SessionKeeps(g)'
  <2>1. CASE NewEngine(g) \/ NewEngineFails(g)
    BY <1>1, <2>1 DEF NewEngine, NewEngineFails, TypeOK
  <2>2. CASE Group(g)
    BY <1>1, <2>2 DEF Group, ServeFails, ServeReturns, CloseServer,
      BackendReturns, GroupWait, TypeOK
  <2>3. CASE Prepare(g) /\ ~NewEngine(g)
    <3>1. pc'[g] \notin {"engine", "open"}
      BY <1>1, <2>3 DEF Prepare, NewEngineFails, Opened, OpenFails, ResolveNone,
        ResolveOne, ResolveMany, AnnounceSelecting, ReceiveChoice, CancelWait,
        RecordChoice, AnnouncePreparing, Listen, ListenFails, PublishURL,
        AnnounceStreaming, TypeOK
    <3> QED
      BY <3>1
  <2>4. CASE CloseEngine(g) \/ Finish(g) \/ Retire(g)
    BY <1>1, <2>4 DEF CloseEngine, Finish, Retire, TypeOK
  <2> QED
    BY <1>5, <2>1, <2>2, <2>3, <2>4 DEF Session
<1> QED
  BY <1>2, <1>3, <1>4, <1>5, Ownership

(* The invariant holds of the web mode at every moment.                    *)
LEMMA WebInductive == WebSpec => []WInv
<1>1. WebInit => WebVarsOK /\ HandlerKeeps /\ \A g \in Gens : SessionKeeps(g)
  BY ManagerAssumption DEF WebInit, Init, WebVarsOK, HandlerKeeps, SessionKeeps, Idle
<1>2. /\ WebVarsOK /\ HandlerKeeps /\ \A g \in Gens : SessionKeeps(g)
      /\ IInv /\ [WebNext]_allVars
      => (WebVarsOK /\ HandlerKeeps /\ \A g \in Gens : SessionKeeps(g))'
  <2> SUFFICES ASSUME WebVarsOK, HandlerKeeps, \A g \in Gens : SessionKeeps(g),
                      IInv, [WebNext]_allVars
               PROVE  /\ WebVarsOK' /\ HandlerKeeps'
                      /\ \A g \in Gens : SessionKeeps(g)'
    BY DEF Gens
  <2>1. WebVarsOK' /\ HandlerKeeps'
    <3>1. CASE WebNext
      BY <3>1, HandlerStep DEF IInv
    <3>2. CASE UNCHANGED allVars
      BY <3>2 DEF allVars, webVars, WebVarsOK, HandlerKeeps
    <3> QED
      BY <3>1, <3>2
  <2>2. ASSUME NEW g \in Gens PROVE SessionKeeps(g)'
    <3>1. CASE Next
      BY <3>1, KeptStep
    <3>2. CASE UNCHANGED vars
      BY <3>2 DEF vars, resVars, SessionKeeps
    <3> QED
      BY <3>1, <3>2, ManagerStep
  <2> QED
    BY <2>1, <2>2
<1>3. WebSpec => []IInv
  BY WebDrivesManager, Inductive, PTL
<1> QED
  BY <1>1, <1>2, <1>3, PTL DEF WebSpec, WInv

(* Every variable of the web mode keeps its type.                          *)
THEOREM WebTypeCorrect == WebSpec => []WebTypeOK
<1>1. WInv => WebTypeOK
  BY DEF WInv, IInv, WebVarsOK, WebTypeOK
<1> QED
  BY <1>1, WebInductive, PTL

(* An upload is kept by its handler until the manager has taken it, and by *)
(* the session from then on until it has been opened.                      *)
THEOREM UploadIsHandedOver == WebSpec => []UploadHasOneKeeper
<1>1. WInv => UploadHasOneKeeper
  BY DEF WInv, HandlerKeeps, SessionKeeps, UploadHasOneKeeper
<1> QED
  BY <1>1, WebInductive, PTL
=============================================================================
