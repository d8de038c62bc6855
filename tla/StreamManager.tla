--------------------------- MODULE StreamManager ---------------------------
(***************************************************************************)
(* The streaming manager of src/internal/stream/manager.go: at most one    *)
(* streaming session at a time, driven by a goroutine of its own           *)
(* (runSession), an errgroup of three more while it streams (streamFile),  *)
(* and any number of callers of Start, Select, Stop and Status.            *)
(*                                                                         *)
(* An action is a critical section of m.mu, a channel operation, or a      *)
(* blocking call with the sequential code that follows it up to the next   *)
(* of those.  Calls that return without changing any state (Start when     *)
(* busy or without a data directory, Select when refused, Stop without a   *)
(* session) are stuttering steps.                                          *)
(***************************************************************************)
EXTENDS Naturals, FiniteSets

CONSTANTS
  MaxGen,   \* bound: how many sessions are ever started
  Callers,  \* goroutines that call the manager
  Video,    \* video files a torrent may hold, by their index
  Index,    \* the indexes a client may ask for
  None,     \* no file: the zero value of an index, an empty channel
  HTTPOnly  \* TRUE: no player configured, the backend just waits for ctx

ASSUME ManagerAssumption ==
  /\ MaxGen \in Nat \ {0}
  /\ IsFiniteSet(Video) /\ Video \subseteq Index /\ None \notin Index
  /\ HTTPOnly \in BOOLEAN

VARIABLES
  \* Manager: m.state, m.err # "", the generation of m.sess (0 for nil), m.gen
  state, err, cur, gen,
  \* session struct, by generation
  sess,
  \* runSession's program counter and local variables, by generation
  pc, loc,
  \* resources of a session: torrent engine, media listener, source file
  eng, lis, source,
  \* streamFile's errgroup, by generation
  grp,
  \* contexts cancelled, done channels closed, the process context cancelled
  cancelled, done, procDone,
  \* calls of Stop in progress
  op,
  \* history: sessions a Stop has found current, and the choice acknowledged
  \* last for each session
  stopSeen, acked

mgrVars == <<state, err, cur, gen>>
resVars == <<eng, lis, source>>
ctxVars == <<cancelled, done, procDone>>
histVars == <<stopSeen, acked>>
vars == <<mgrVars, sess, pc, loc, resVars, grp, ctxVars, op, histVars>>

Gens == 1 .. MaxGen
MaybeVideo == Video \cup {None}
MaybeIndex == Index \cup {None}
States == {"idle", "preparing", "selecting", "streaming", "error"}
Ended == {"idle", "error"}

\* Where runSession is: the step it takes next.
BeforeEngine == {"engine"}
EnginePCs == {"open", "resolve", "announce", "waiting", "picked",
              "unannounce", "select", "publish", "stream", "group", "close"}
ListenPCs == {"publish", "stream", "group"}
Live == BeforeEngine \cup EnginePCs \cup {"finish"}
PCs == Live \cup {"none", "retire", "over"}

SessionRec == [torrent : BOOLEAN, fileName : MaybeVideo, streamURL : BOOLEAN,
               files : SUBSET Video, selectCh : MaybeIndex]
LocalRec == [videos : SUBSET Video, index : MaybeIndex,
             outcome : {"ok", "failed"}]
GroupRec == [serve : {"idle", "running", "returned"},
             closer : {"idle", "running", "returned"},
             backend : {"idle", "running", "returned"},
             failed : BOOLEAN]
CallRec == [at : {"idle", "cancel", "wait", "stopped", "timedout"},
            target : 0 .. MaxGen]

TypeOK ==
  /\ state \in States /\ err \in BOOLEAN
  /\ cur \in 0 .. MaxGen /\ gen \in 0 .. MaxGen
  /\ sess \in [Gens -> SessionRec]
  /\ pc \in [Gens -> PCs] /\ loc \in [Gens -> LocalRec]
  /\ eng \in [Gens -> {"none", "open", "closed"}]
  /\ lis \in [Gens -> {"none", "open", "closed"}]
  /\ source \in [Gens -> {"kept", "uploaded", "removed"}]
  /\ grp \in [Gens -> GroupRec]
  /\ cancelled \in SUBSET Gens /\ done \in SUBSET Gens /\ procDone \in BOOLEAN
  /\ op \in [Callers -> CallRec]
  /\ stopSeen \in SUBSET Gens /\ acked \in [Gens -> MaybeIndex]

NewSession == [torrent |-> FALSE, fileName |-> None, streamURL |-> FALSE,
               files |-> {}, selectCh |-> None]
NoCall == [at |-> "idle", target |-> 0]
IdleGroup == [serve |-> "idle", closer |-> "idle", backend |-> "idle",
              failed |-> FALSE]

Init ==
  /\ state = "idle" /\ err = FALSE /\ cur = 0 /\ gen = 0
  /\ sess = [g \in Gens |-> NewSession]
  /\ pc = [g \in Gens |-> "none"]
  /\ loc = [g \in Gens |-> [videos |-> {}, index |-> None, outcome |-> "ok"]]
  /\ eng = [g \in Gens |-> "none"] /\ lis = [g \in Gens |-> "none"]
  /\ source = [g \in Gens |-> "kept"]
  /\ grp = [g \in Gens |-> IdleGroup]
  /\ cancelled = {} /\ done = {} /\ procDone = FALSE
  /\ op = [c \in Callers |-> NoCall]
  /\ stopSeen = {} /\ acked = [g \in Gens |-> None]

----------------------------------------------------------------------------
(* Contexts *)

\* sessCtx is derived from the process context.
CtxDone(g) == g \in cancelled \/ procDone

\* errgroup.WithContext(ctx): also done at the first error.
GroupCtxDone(g) == CtxDone(g) \/ grp[g].failed

----------------------------------------------------------------------------
(* The manager's API *)

\* Status: the display snapshot.
Status ==
  LET shown == IF cur = 0 THEN NewSession ELSE sess[cur]
  IN  [state |-> state, err |-> err, torrent |-> shown.torrent,
       fileName |-> shown.fileName, streamURL |-> shown.streamURL,
       files |-> shown.files]

\* Variant with a defect: only a stream counts as an active session.
BusyStreamingOnly == state = "streaming"

Busy == state \notin Ended

\* Start with opts.RemoveSource = upload.
Start(upload) ==
  /\ ~Busy
  /\ gen < MaxGen
  /\ gen' = gen + 1 /\ cur' = gen + 1
  /\ state' = "preparing" /\ err' = FALSE
  /\ pc' = [pc EXCEPT ![gen + 1] = "engine"]
  /\ source' = [source EXCEPT ![gen + 1] = IF upload THEN "uploaded" ELSE "kept"]
  /\ UNCHANGED <<sess, loc, eng, lis, grp, ctxVars, op, histVars>>

\* Variant with a defect: the index is not checked.
OfferedUnchecked(i) == TRUE

\* The file must be one of those offered by the current session.
Offered(i) == i \in sess[cur].files

\* Select: a non-blocking send on the session's channel of capacity one.
Select(i) ==
  /\ state = "selecting" /\ cur # 0
  /\ Offered(i)
  /\ sess[cur].selectCh = None
  /\ sess' = [sess EXCEPT ![cur].selectCh = i]
  /\ acked' = [acked EXCEPT ![cur] = i]
  /\ UNCHANGED <<mgrVars, pc, loc, resVars, grp, ctxVars, op, stopSeen>>

\* Variant with a defect: m.sess is not compared with nil.
StopBeginUnchecked(c) ==
  /\ op[c].at = "idle"
  /\ op' = [op EXCEPT ![c] = [at |-> "cancel", target |-> cur]]
  /\ stopSeen' = stopSeen \cup {cur}
  /\ UNCHANGED <<mgrVars, sess, pc, loc, resVars, grp, ctxVars, acked>>

\* Stop captures m.sess under the lock ...
StopBegin(c) ==
  /\ op[c].at = "idle"
  /\ cur # 0
  /\ op' = [op EXCEPT ![c] = [at |-> "cancel", target |-> cur]]
  /\ stopSeen' = stopSeen \cup {cur}
  /\ UNCHANGED <<mgrVars, sess, pc, loc, resVars, grp, ctxVars, acked>>

\* ... cancels the session it captured, outside the lock ...
\* Variant with a defect: m.sess is read again instead of the captured one.
StopTargetReread(c) == IF cur = 0 THEN op[c].target ELSE cur

StopTarget(c) == op[c].target

StopCancel(c) ==
  /\ op[c].at = "cancel"
  /\ cancelled' = cancelled \cup {StopTarget(c)}
  /\ op' = [op EXCEPT ![c].at = "wait"]
  /\ UNCHANGED <<mgrVars, sess, pc, loc, resVars, grp, done, procDone, histVars>>

\* ... and waits for its done channel
StopDone(c) ==
  /\ op[c].at = "wait"
  /\ op[c].target \in done
  /\ op' = [op EXCEPT ![c].at = "stopped"]
  /\ UNCHANGED <<mgrVars, sess, pc, loc, resVars, grp, ctxVars, histVars>>

\* or for stopGrace, whichever comes first.
\* Variant with a defect: Stop waits for done only.
StopTimeoutNever(c) ==
  /\ op[c].at = "wait" /\ op[c].target \in done
  /\ op' = [op EXCEPT ![c].at = "timedout"]
  /\ UNCHANGED <<mgrVars, sess, pc, loc, resVars, grp, ctxVars, histVars>>

StopTimeout(c) ==
  /\ op[c].at = "wait"
  /\ op' = [op EXCEPT ![c].at = "timedout"]
  /\ UNCHANGED <<mgrVars, sess, pc, loc, resVars, grp, ctxVars, histVars>>

\* The caller goes on to its next call.
StopReturn(c) ==
  /\ op[c].at \in {"stopped", "timedout"}
  /\ op' = [op EXCEPT ![c] = NoCall]
  /\ UNCHANGED <<mgrVars, sess, pc, loc, resVars, grp, ctxVars, histVars>>

\* The context given to New is cancelled (a signal).
Interrupt ==
  /\ ~procDone /\ procDone' = TRUE
  /\ UNCHANGED <<mgrVars, sess, pc, loc, resVars, grp, cancelled, done, op, histVars>>

----------------------------------------------------------------------------
(* runSession, prepareAndStream, resolveFile, streamFile *)

Goto(g, from, to) == pc[g] = from /\ pc' = [pc EXCEPT ![g] = to]

\* prepareAndStream returns an error other than context.Canceled, or not.
Outcome(g, o) == loc' = [loc EXCEPT ![g].outcome = o]

\* Variant with a defect: the slot is not freed.
SetStateKeepingSession(g, st, failure) ==
  IF cur = g
  THEN state' = st /\ err' = failure /\ cur' = cur
  ELSE UNCHANGED <<state, err, cur>>

\* setState: a session that is not current any more changes nothing.
SetState(g, st, failure) ==
  IF cur = g
  THEN /\ state' = st /\ err' = failure
       /\ cur' = IF st \in Ended THEN 0 ELSE cur
  ELSE UNCHANGED <<state, err, cur>>

\* removeSource
SourceAfterOpen(g) == IF source[g] = "uploaded" THEN "removed" ELSE source[g]

NewEngine(g) ==
  /\ Goto(g, "engine", "open")
  /\ eng' = [eng EXCEPT ![g] = "open"]
  /\ UNCHANGED <<mgrVars, sess, loc, lis, source, grp, ctxVars, op, histVars>>

NewEngineFails(g) ==
  /\ Goto(g, "engine", "finish")
  /\ Outcome(g, "failed")
  /\ UNCHANGED <<mgrVars, sess, resVars, grp, ctxVars, op, histVars>>

\* eng.Open succeeds, the source is removed, the torrent's name is set.
Opened(g) ==
  /\ Goto(g, "open", "resolve")
  /\ source' = [source EXCEPT ![g] = SourceAfterOpen(g)]
  /\ sess' = [sess EXCEPT ![g].torrent = TRUE]
  /\ UNCHANGED <<mgrVars, loc, eng, lis, grp, ctxVars, op, histVars>>

\* Variant with a defect: the source is removed on success only.
OpenFailsKeepingSource(g) ==
  /\ Goto(g, "open", "close")
  /\ \/ Outcome(g, "failed")
     \/ CtxDone(g) /\ Outcome(g, "ok")
  /\ UNCHANGED <<mgrVars, sess, resVars, grp, ctxVars, op, histVars>>

\* eng.Open fails, or returns the error of a context already done.
OpenFails(g) ==
  /\ Goto(g, "open", "close")
  /\ \/ Outcome(g, "failed")
     \/ CtxDone(g) /\ Outcome(g, "ok")
  /\ source' = [source EXCEPT ![g] = SourceAfterOpen(g)]
  /\ UNCHANGED <<mgrVars, sess, eng, lis, grp, ctxVars, op, histVars>>

\* resolveFile: no video file is an error, one is taken, many are offered.
ResolveNone(g) ==
  /\ Goto(g, "resolve", "close")
  /\ Outcome(g, "failed")
  /\ UNCHANGED <<mgrVars, sess, resVars, grp, ctxVars, op, histVars>>

ResolveOne(g, i) ==
  /\ Goto(g, "resolve", "select")
  /\ sess' = [sess EXCEPT ![g].fileName = i]
  /\ loc' = [loc EXCEPT ![g].videos = {i}, ![g].index = i]
  /\ UNCHANGED <<mgrVars, resVars, grp, ctxVars, op, histVars>>

ResolveMany(g, videos) ==
  /\ Goto(g, "resolve", "announce")
  /\ \E i, j \in videos : i # j
  /\ sess' = [sess EXCEPT ![g].files = videos]
  /\ loc' = [loc EXCEPT ![g].videos = videos]
  /\ UNCHANGED <<mgrVars, resVars, grp, ctxVars, op, histVars>>

AnnounceSelecting(g) ==
  /\ Goto(g, "announce", "waiting")
  /\ SetState(g, "selecting", FALSE)
  /\ UNCHANGED <<gen, sess, loc, resVars, grp, ctxVars, op, histVars>>

\* Variant with a defect: the wait goes on after a choice.
ReceiveChoiceDropped(g) ==
  /\ pc[g] = "waiting"
  /\ sess[g].selectCh # None
  /\ sess' = [sess EXCEPT ![g].selectCh = None]
  /\ UNCHANGED <<mgrVars, pc, loc, resVars, grp, ctxVars, op, histVars>>

\* index := <-sess.selectCh
ReceiveChoice(g) ==
  /\ Goto(g, "waiting", "picked")
  /\ sess[g].selectCh # None
  /\ loc' = [loc EXCEPT ![g].index = sess[g].selectCh]
  /\ sess' = [sess EXCEPT ![g].selectCh = None]
  /\ UNCHANGED <<mgrVars, resVars, grp, ctxVars, op, histVars>>

\* Variant with a defect: the manager's context is watched, not the session's.
CancelWaitProcessOnly(g) ==
  /\ Goto(g, "waiting", "close")
  /\ procDone
  /\ Outcome(g, "ok")
  /\ UNCHANGED <<mgrVars, sess, resVars, grp, ctxVars, op, histVars>>

\* <-ctx.Done(), chosen at random when a choice is pending too
CancelWait(g) ==
  /\ Goto(g, "waiting", "close")
  /\ CtxDone(g)
  /\ Outcome(g, "ok")
  /\ UNCHANGED <<mgrVars, sess, resVars, grp, ctxVars, op, histVars>>

\* Variant with a defect: the choices are left in place.
ChosenKeepingFiles(g) ==
  IF loc[g].index \in loc[g].videos
  THEN [sess EXCEPT ![g].fileName = loc[g].index]
  ELSE sess

Chosen(g) ==
  IF loc[g].index \in loc[g].videos
  THEN [sess EXCEPT ![g].fileName = loc[g].index, ![g].files = {}]
  ELSE sess

RecordChoice(g) ==
  /\ Goto(g, "picked", "unannounce")
  /\ sess' = Chosen(g)
  /\ UNCHANGED <<mgrVars, loc, resVars, grp, ctxVars, op, histVars>>

AnnouncePreparing(g) ==
  /\ Goto(g, "unannounce", "select")
  /\ SetState(g, "preparing", FALSE)
  /\ UNCHANGED <<gen, sess, loc, resVars, grp, ctxVars, op, histVars>>

\* eng.Select and srv.Start succeed: the media server listens.
Listen(g) ==
  /\ Goto(g, "select", "publish")
  /\ lis' = [lis EXCEPT ![g] = "open"]
  /\ UNCHANGED <<mgrVars, sess, loc, eng, source, grp, ctxVars, op, histVars>>

\* One of them fails.
ListenFails(g) ==
  /\ Goto(g, "select", "close")
  /\ Outcome(g, "failed")
  /\ UNCHANGED <<mgrVars, sess, resVars, grp, ctxVars, op, histVars>>

PublishURL(g) ==
  /\ Goto(g, "publish", "stream")
  /\ sess' = [sess EXCEPT ![g].streamURL = TRUE]
  /\ UNCHANGED <<mgrVars, loc, resVars, grp, ctxVars, op, histVars>>

\* setState(StateStreaming), then the errgroup's three goroutines.
AnnounceStreaming(g) ==
  /\ Goto(g, "stream", "group")
  /\ SetState(g, "streaming", FALSE)
  /\ grp' = [grp EXCEPT ![g] = [serve |-> "running", closer |-> "running",
                                backend |-> "running", failed |-> FALSE]]
  /\ UNCHANGED <<gen, sess, loc, resVars, ctxVars, op, histVars>>

\* group.Go(srv.Serve): an accept error ends it.
ServeFails(g) ==
  /\ grp[g].serve = "running" /\ grp[g].closer = "running"
  /\ grp' = [grp EXCEPT ![g].serve = "returned", ![g].failed = TRUE]
  /\ lis' = [lis EXCEPT ![g] = "closed"]
  /\ UNCHANGED <<mgrVars, sess, pc, loc, eng, source, ctxVars, op, histVars>>

\* Serve returns nil once the server has been closed; it closes its
\* listener on the way out.
ServeReturns(g) ==
  /\ grp[g].serve = "running" /\ grp[g].closer = "returned"
  /\ grp' = [grp EXCEPT ![g].serve = "returned"]
  /\ lis' = [lis EXCEPT ![g] = "closed"]
  /\ UNCHANGED <<mgrVars, sess, pc, loc, eng, source, ctxVars, op, histVars>>

\* Variant with a defect: the closer does not wait for the context.
CloseServerAtOnce(g) ==
  /\ grp[g].closer = "running"
  /\ grp' = [grp EXCEPT ![g].closer = "returned"]
  /\ lis' = [lis EXCEPT ![g] = "closed"]
  /\ UNCHANGED <<mgrVars, sess, pc, loc, eng, source, ctxVars, op, histVars>>

\* The closer: <-gctx.Done(), then srv.Close.  A listener that Serve has not
\* registered yet is left for Serve to close; closing one may fail.
CloseServer(g) ==
  /\ grp[g].closer = "running"
  /\ GroupCtxDone(g)
  /\ \E failed \in BOOLEAN :
       grp' = [grp EXCEPT ![g].closer = "returned", ![g].failed = @ \/ failed]
  /\ lis' \in {lis, [lis EXCEPT ![g] = "closed"]}
  /\ UNCHANGED <<mgrVars, sess, pc, loc, eng, source, ctxVars, op, histVars>>

\* runBackend returns: a player may end or fail at any time, waiting for a
\* client of the HTTP stream ends with the context only.  Either way the
\* session's context is cancelled.
BackendMayReturn(g) == ~HTTPOnly \/ GroupCtxDone(g)

BackendReturns(g, failed) ==
  /\ grp[g].backend = "running"
  /\ BackendMayReturn(g)
  /\ HTTPOnly => ~failed
  /\ cancelled' = cancelled \cup {g}
  /\ grp' = [grp EXCEPT ![g].backend = "returned", ![g].failed = @ \/ failed]
  /\ UNCHANGED <<mgrVars, sess, pc, loc, resVars, done, procDone, op, histVars>>

\* group.Wait
GroupReturned(g) ==
  /\ grp[g].serve = "returned"
  /\ grp[g].closer = "returned"
  /\ grp[g].backend = "returned"

GroupWait(g) ==
  /\ Goto(g, "group", "close")
  /\ GroupReturned(g)
  /\ Outcome(g, IF grp[g].failed THEN "failed" ELSE "ok")
  /\ UNCHANGED <<mgrVars, sess, resVars, grp, ctxVars, op, histVars>>

\* The deferred eng.Close.
CloseEngine(g) ==
  /\ Goto(g, "close", "finish")
  /\ eng' = [eng EXCEPT ![g] = "closed"]
  /\ UNCHANGED <<mgrVars, sess, loc, lis, source, grp, ctxVars, op, histVars>>

\* runSession's last setState.
Finish(g) ==
  /\ Goto(g, "finish", "retire")
  /\ IF loc[g].outcome = "ok" THEN SetState(g, "idle", FALSE)
                              ELSE SetState(g, "error", TRUE)
  /\ UNCHANGED <<gen, sess, loc, resVars, grp, ctxVars, op, histVars>>

\* Variant with a defect: done is closed before the slot is freed.
RetireUnfinished(g) ==
  /\ Goto(g, "finish", "over")
  /\ cancelled' = cancelled \cup {g}
  /\ done' = done \cup {g}
  /\ UNCHANGED <<mgrVars, sess, loc, resVars, grp, procDone, op, histVars>>

\* Its deferred sess.cancel() and close(sess.done).
Retire(g) ==
  /\ Goto(g, "retire", "over")
  /\ cancelled' = cancelled \cup {g}
  /\ done' = done \cup {g}
  /\ UNCHANGED <<mgrVars, sess, loc, resVars, grp, procDone, op, histVars>>

----------------------------------------------------------------------------
Prepare(g) ==
  \/ NewEngine(g) \/ NewEngineFails(g)
  \/ Opened(g) \/ OpenFails(g)
  \/ ResolveNone(g)
  \/ \E i \in Video : ResolveOne(g, i)
  \/ \E videos \in SUBSET Video : ResolveMany(g, videos)
  \/ AnnounceSelecting(g)
  \/ ReceiveChoice(g) \/ CancelWait(g)
  \/ RecordChoice(g) \/ AnnouncePreparing(g)
  \/ Listen(g) \/ ListenFails(g)
  \/ PublishURL(g) \/ AnnounceStreaming(g)

Group(g) ==
  \/ ServeFails(g) \/ ServeReturns(g)
  \/ CloseServer(g)
  \/ \E failed \in BOOLEAN : BackendReturns(g, failed)
  \/ GroupWait(g)

Session(g) ==
  \/ Prepare(g) \/ Group(g) \/ CloseEngine(g) \/ Finish(g) \/ Retire(g)

Caller(c) ==
  \/ StopBegin(c) \/ StopCancel(c)
  \/ StopDone(c) \/ StopTimeout(c) \/ StopReturn(c)

Next ==
  \/ \E upload \in BOOLEAN : Start(upload)
  \/ \E i \in Index : Select(i)
  \/ \E c \in Callers : Caller(c)
  \/ Interrupt
  \/ \E g \in Gens : Session(g)

Spec == Init /\ [][Next]_vars

----------------------------------------------------------------------------
(* Fairness.  A session's goroutines run: whatever does not wait for the   *)
(* outside world is done eventually.  What waits (metadata, a choice, the  *)
(* player, the network) need not happen, but ends once the context is      *)
(* done: Open and the select of resolveFile watch it, VLC is killed with   *)
(* it (exec.CommandContext), and module Caster shows that a cast ends.     *)

OpenInterrupted(g) == CtxDone(g) /\ (Opened(g) \/ OpenFails(g))
BackendInterrupted(g) ==
  GroupCtxDone(g) /\ \E failed \in BOOLEAN : BackendReturns(g, failed)
Resolve(g) ==
  \/ ResolveNone(g)
  \/ \E i \in Video : ResolveOne(g, i)
  \/ \E videos \in SUBSET Video : ResolveMany(g, videos)

Prompt(g) ==
  \/ NewEngine(g) \/ NewEngineFails(g) \/ OpenInterrupted(g)
  \/ Resolve(g) \/ AnnounceSelecting(g)
  \/ ReceiveChoice(g) \/ CancelWait(g) \/ RecordChoice(g)
  \/ AnnouncePreparing(g) \/ Listen(g) \/ ListenFails(g)
  \/ PublishURL(g) \/ AnnounceStreaming(g)
  \/ ServeReturns(g) \/ CloseServer(g) \/ BackendInterrupted(g)
  \/ GroupWait(g) \/ Finish(g) \/ Retire(g)

CallerFairness ==
  \A c \in Callers : WF_vars(StopCancel(c) \/ StopDone(c) \/ StopTimeout(c))

Fairness == CallerFairness /\ \A g \in Gens : WF_vars(Prompt(g))

\* The torrent client may hang in Close, as run.go's watchdog expects: what
\* needs it to return says so.
ClosesEventually == \A g \in Gens : WF_vars(CloseEngine(g))

----------------------------------------------------------------------------
(* Properties *)

(* One slot: a session that holds a torrent client or a listening media    *)
(* server is the current one, so two sessions never hold them at once      *)
(* (Manager "runs at most one streaming session at a time").               *)
HoldsResources(g) == eng[g] = "open" \/ lis[g] = "open"

OneSessionHoldsResources == \A g \in Gens : HoldsResources(g) => cur = g

(* A session is current exactly from Start to its last setState: the       *)
(* generation check of setState never has to reject anyone, and no session *)
(* is current after its goroutine went away, which would leave the manager *)
(* busy for ever.                                                          *)
CurrentIsLive ==
  /\ \A g \in Gens : pc[g] \in Live <=> cur = g
  /\ state \in Ended <=> cur = 0

(* What the API shows is consistent: an error message is shown in the      *)
(* error state only; a stream is shown with its torrent, file and URL and  *)
(* without choices; a pending choice is shown with at least two files.     *)
StatusIsConsistent ==
  /\ Status.err <=> state = "error"
  /\ state = "streaming" =>
       /\ Status.torrent /\ Status.fileName # None /\ Status.streamURL
       /\ Status.files = {}
  /\ cur # 0 => (pc[cur] = "waiting" => Cardinality(Status.files) > 1)

(* While a stream is shown and nothing has ended it, its URL is served:    *)
(* the listener and the torrent client behind it are open.                 *)
AdvertisedURLIsServed ==
  state = "streaming" /\ ~GroupCtxDone(cur) =>
    eng[cur] = "open" /\ lis[cur] = "open"

(* A file is streamed by the user's choice: from a torrent of several      *)
(* videos only one the user asked this very session for, and always one of *)
(* the session's videos.                                                   *)
StreamedFileWasChosen ==
  \A g \in Gens : grp[g] # IdleGroup =>
    /\ loc[g].index \in loc[g].videos
    /\ sess[g].fileName = loc[g].index
    /\ Cardinality(loc[g].videos) > 1 => acked[g] # None

(* When Stop returns nil the session it found is gone for good: goroutines *)
(* of the stream returned, listener and torrent client closed, slot free   *)
(* of it.                                                                  *)
StoppedMeansTornDown ==
  \A c \in Callers : op[c].at = "stopped" =>
    LET g == op[c].target
    IN  /\ cur # g /\ ~HoldsResources(g)
        /\ grp[g] = IdleGroup \/ GroupReturned(g)

(* A session is cancelled only by a Stop that found it current, or by its  *)
(* own end: a Stop whose session has just ended never hits the one that    *)
(* was started in the meantime.                                            *)
CancelledWasAskedFor ==
  \A g \in cancelled :
    \/ g \in stopSeen
    \/ grp[g].backend = "returned"
    \/ pc[g] = "over"

(* An uploaded .torrent is deleted by the time the torrent client that was *)
(* given it is closed, whether or not it could be opened.                  *)
OpenedUploadIsRemoved ==
  \A g \in Gens : eng[g] = "closed" => source[g] # "uploaded"

(* The manager implements the one-slot specification.                      *)
Slot == INSTANCE SessionSlot WITH
  owner <- cur, issued <- gen, using <- {g \in Gens : HoldsResources(g)}

SlotSpec == Slot!SlotSpec

(* A Stop that has been issued returns, at the latest after stopGrace,     *)
(* even when the torrent client hangs in Close.                            *)
StopReturns ==
  \A c \in Callers :
    op[c].at = "cancel" ~> op[c].at \in {"stopped", "timedout"}

(* A session whose context is done ends, wherever its goroutine is, if its *)
(* torrent client does not hang in Close.                                  *)
EndedContextEndsSession ==
  ClosesEventually =>
    \A g \in Gens : pc[g] # "none" /\ CtxDone(g) ~> g \in done

(* An acknowledged choice is acted on: the session streams or goes on to   *)
(* close its torrent client, it never stays waiting for a choice.          *)
ChoiceIsActedOn ==
  \A g \in Gens :
    acked[g] # None ~> grp[g] # IdleGroup \/ pc[g] \in {"close", "over"}

----------------------------------------------------------------------------
(* Expectations of the comments that the code does not meet *)

(* "Select picks the video file to stream while in the selecting state":   *)
(* the file that streams is the one acknowledged last.                     *)
AcknowledgedFileIsStreamed ==
  \A g \in Gens :
    grp[g] # IdleGroup /\ acked[g] # None => sess[g].fileName = acked[g]

(* "RemoveSource deletes src (an uploaded .torrent) once consumed": it is  *)
(* gone once the session is.                                               *)
UploadIsRemoved == \A g \in done : source[g] # "uploaded"
=============================================================================
