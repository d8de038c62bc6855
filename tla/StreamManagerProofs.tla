------------------------ MODULE StreamManagerProofs ------------------------
(***************************************************************************)
(* Theorems about StreamManager for every number of sessions, callers and  *)
(* files, and for every kind of backend.                                   *)
(***************************************************************************)
EXTENDS StreamManager, FiniteSetTheorems, TLAPS

(* A session's resources follow the program counter of its goroutine.      *)
SessionInv(g) ==
  /\ pc[g] = "none" <=> g > gen
  /\ pc[g] \in Live <=> cur = g
  /\ eng[g] = "open" <=> pc[g] \in EnginePCs
  /\ lis[g] = "open" => pc[g] \in ListenPCs
  /\ g \in done <=> pc[g] = "over"

(* The errgroup runs while the goroutine waits for it, and not before.     *)
GroupInv(g) ==
  /\ grp[g] = IdleGroup \/ GroupReturned(g) \/ pc[g] = "group"
  /\ pc[g] \in {"none", "engine", "open", "resolve", "announce", "waiting",
                "picked", "unannounce", "select", "publish", "stream"}
       => grp[g] = IdleGroup
  /\ pc[g] = "group" => grp[g].serve # "idle"
  /\ grp[g].serve = "returned" => lis[g] # "open"

(* A call of Stop holds a session that was started, and has returned nil   *)
(* only when that session's done channel was closed.                       *)
CallInv(c) ==
  /\ op[c].at # "idle" => op[c].target \in Gens /\ op[c].target <= gen
  /\ op[c].at = "cancel" => op[c].target \in stopSeen
  /\ op[c].at = "stopped" => op[c].target \in done

SlotFree == state \in Ended <=> cur = 0

IInv ==
  /\ TypeOK
  /\ \A g \in Gens : SessionInv(g)
  /\ \A g \in Gens : GroupInv(g)
  /\ \A c \in Callers : CallInv(c)
  /\ SlotFree
  /\ CancelledWasAskedFor

----------------------------------------------------------------------------
(* The invariant is inductive *)

(* Recording the outcome of a session keeps the local variables' type.     *)
LEMMA OutcomeType ==
  ASSUME TypeOK, NEW g \in Gens, NEW o \in {"ok", "failed"}, Outcome(g, o)
  PROVE  loc' \in [Gens -> LocalRec]
<1>1. [loc[g] EXCEPT !.outcome = o] \in LocalRec
  BY DEF TypeOK, LocalRec
<1>2. loc' = [loc EXCEPT ![g] = [loc[g] EXCEPT !.outcome = o]]
  BY DEF Outcome
<1> QED
  BY <1>1, <1>2 DEF TypeOK

(* Every step keeps the types.                                             *)
LEMMA TypeStep ==
  ASSUME TypeOK, \A c \in Callers : CallInv(c), Next
  PROVE  TypeOK'
<1> USE DEF mgrVars, resVars, ctxVars, histVars, Goto, PCs, Live, BeforeEngine,
      EnginePCs
<1>1. ASSUME NEW upload \in BOOLEAN, Start(upload) PROVE TypeOK'
  <2>1. gen + 1 \in Gens
    BY <1>1, ManagerAssumption DEF TypeOK, Start, Gens
  <2>2. pc' \in [Gens -> PCs]
    BY <1>1, <2>1 DEF TypeOK, Start
  <2>3. source' \in [Gens -> {"kept", "uploaded", "removed"}]
    BY <1>1, <2>1 DEF TypeOK, Start
  <2>4. cur' \in 0 .. MaxGen /\ gen' \in 0 .. MaxGen
    BY <1>1, <2>1 DEF Start, Gens
  <2> QED
    BY <1>1, <2>2, <2>3, <2>4 DEF TypeOK, Start, States
<1>2. ASSUME NEW i \in Index, Select(i) PROVE TypeOK'
  <2>1. sess' \in [Gens -> SessionRec]
    BY <1>2 DEF TypeOK, Select, SessionRec, MaybeVideo, MaybeIndex, Gens
  <2> QED
    BY <1>2, <2>1 DEF TypeOK, Select, MaybeIndex
<1>3. ASSUME NEW c \in Callers, StopBegin(c) PROVE TypeOK'
  <2>1. op' \in [Callers -> CallRec]
    BY <1>3 DEF TypeOK, StopBegin, CallRec, NoCall
  <2> QED
    BY <1>3, <2>1 DEF TypeOK, StopBegin, Gens
<1>4. ASSUME NEW c \in Callers, StopCancel(c) PROVE TypeOK'
  <2>1. op[c].target \in Gens
    BY <1>4 DEF StopCancel, CallInv
  <2>2. op' \in [Callers -> CallRec]
    BY <1>4 DEF TypeOK, StopCancel, CallRec
  <2> QED
    BY <1>4, <2>1, <2>2 DEF TypeOK, StopCancel, StopTarget
<1>5. ASSUME NEW c \in Callers, StopDone(c) PROVE TypeOK'
  <2>1. op' \in [Callers -> CallRec]
    BY <1>5 DEF TypeOK, StopDone, CallRec, NoCall
  <2> QED
    BY <1>5, <2>1 DEF TypeOK, StopDone
<1>6. ASSUME NEW c \in Callers, StopTimeout(c) PROVE TypeOK'
  <2>1. op' \in [Callers -> CallRec]
    BY <1>6 DEF TypeOK, StopTimeout, CallRec, NoCall
  <2> QED
    BY <1>6, <2>1 DEF TypeOK, StopTimeout
<1>7. ASSUME NEW c \in Callers, StopReturn(c) PROVE TypeOK'
  <2>1. op' \in [Callers -> CallRec]
    BY <1>7, ManagerAssumption DEF TypeOK, StopReturn, CallRec, NoCall
  <2> QED
    BY <1>7, <2>1 DEF TypeOK, StopReturn
<1>8. ASSUME Interrupt PROVE TypeOK'
  BY <1>8 DEF TypeOK, Interrupt
<1>9. ASSUME NEW g \in Gens, NewEngine(g) PROVE TypeOK'
  BY <1>9 DEF TypeOK, NewEngine
<1>10. ASSUME NEW g \in Gens, NewEngineFails(g) PROVE TypeOK'
  <2>1. loc' \in [Gens -> LocalRec]
    BY <1>10, OutcomeType DEF NewEngineFails
  <2> QED
    BY <1>10, <2>1 DEF TypeOK, NewEngineFails
<1>11. ASSUME NEW g \in Gens, Opened(g) PROVE TypeOK'
  <2>1. sess' \in [Gens -> SessionRec]
    <3>1. sess[g] \in SessionRec
      BY DEF TypeOK
    <3>2. [sess[g] EXCEPT !.torrent = TRUE] \in SessionRec
      BY <3>1 DEF SessionRec
    <3> QED
      BY <1>11, <3>2 DEF TypeOK, Opened
  <2> QED
    BY <1>11, <2>1 DEF TypeOK, Opened, SourceAfterOpen
<1>12. ASSUME NEW g \in Gens, OpenFails(g) PROVE TypeOK'
  <2>1. loc' \in [Gens -> LocalRec]
    BY <1>12, OutcomeType DEF OpenFails, SourceAfterOpen
  <2> QED
    BY <1>12, <2>1 DEF TypeOK, OpenFails, SourceAfterOpen
<1>13. ASSUME NEW g \in Gens, ResolveNone(g) PROVE TypeOK'
  <2>1. loc' \in [Gens -> LocalRec]
    BY <1>13, OutcomeType DEF ResolveNone
  <2> QED
    BY <1>13, <2>1 DEF TypeOK, ResolveNone
<1>14. ASSUME NEW g \in Gens, NEW i \in Video, ResolveOne(g, i) PROVE TypeOK'
  <2>1. sess' \in [Gens -> SessionRec]
    BY <1>14 DEF TypeOK, ResolveOne, SessionRec, MaybeVideo, MaybeIndex, Gens
  <2>2. loc' \in [Gens -> LocalRec]
    <3>1. loc[g] \in LocalRec
      BY DEF TypeOK
    <3>2. [loc[g] EXCEPT !.videos = {i}, !.index = i] \in LocalRec
      BY <3>1, ManagerAssumption DEF LocalRec, MaybeIndex
    <3>3. loc' = [loc EXCEPT ![g] = [loc[g] EXCEPT !.videos = {i}, !.index = i]]
      BY <1>14 DEF ResolveOne
    <3> QED
      BY <3>2, <3>3 DEF TypeOK
  <2> QED
    BY <1>14, <2>1, <2>2 DEF TypeOK, ResolveOne
<1>15. ASSUME NEW g \in Gens, NEW videos \in SUBSET Video, ResolveMany(g, videos)
      PROVE  TypeOK'
  <2>1. sess' \in [Gens -> SessionRec]
    BY <1>15 DEF TypeOK, ResolveMany, SessionRec, MaybeVideo, MaybeIndex, Gens
  <2>2. loc' \in [Gens -> LocalRec]
    BY <1>15, ZenonT(40) DEF TypeOK, ResolveMany, LocalRec, MaybeIndex, SessionRec
  <2> QED
    BY <1>15, <2>1, <2>2 DEF TypeOK, ResolveMany
<1>16. ASSUME NEW g \in Gens, AnnounceSelecting(g) PROVE TypeOK'
  BY <1>16 DEF TypeOK, AnnounceSelecting, SetState, States, Ended
<1>17. ASSUME NEW g \in Gens, ReceiveChoice(g) PROVE TypeOK'
  <2>1. sess' \in [Gens -> SessionRec]
    BY <1>17 DEF TypeOK, ReceiveChoice, SessionRec, MaybeVideo, MaybeIndex, Gens
  <2>2. loc' \in [Gens -> LocalRec]
    <3>1. loc[g] \in LocalRec /\ sess[g] \in SessionRec
      BY DEF TypeOK
    <3>2. sess[g].selectCh \in MaybeIndex
      BY <3>1 DEF SessionRec
    <3>3. [loc[g] EXCEPT !.index = sess[g].selectCh] \in LocalRec
      BY <3>1, <3>2 DEF LocalRec
    <3> QED
      BY <1>17, <3>3 DEF TypeOK, ReceiveChoice
  <2> QED
    BY <1>17, <2>1, <2>2 DEF TypeOK, ReceiveChoice
<1>18. ASSUME NEW g \in Gens, CancelWait(g) PROVE TypeOK'
  <2>1. loc' \in [Gens -> LocalRec]
    BY <1>18, OutcomeType DEF CancelWait
  <2> QED
    BY <1>18, <2>1 DEF TypeOK, CancelWait
<1>19. ASSUME NEW g \in Gens, RecordChoice(g) PROVE TypeOK'
  <2>1. sess' \in [Gens -> SessionRec]
    <3>1. loc[g] \in LocalRec /\ sess[g] \in SessionRec
      BY DEF TypeOK
    <3>2. CASE loc[g].index \in loc[g].videos
      <4>1. loc[g].index \in MaybeVideo
        BY <3>1, <3>2 DEF LocalRec, MaybeVideo
      <4>2. [sess[g] EXCEPT !.fileName = loc[g].index, !.files = {}] \in SessionRec
        BY <3>1, <4>1 DEF SessionRec
      <4>3. sess' = [sess EXCEPT ![g] =
                      [sess[g] EXCEPT !.fileName = loc[g].index, !.files = {}]]
        BY <1>19, <3>2 DEF RecordChoice, Chosen
      <4> QED
        BY <4>2, <4>3 DEF TypeOK
    <3>3. CASE loc[g].index \notin loc[g].videos
      BY <1>19, <3>3 DEF TypeOK, RecordChoice, Chosen
    <3> QED
      BY <3>2, <3>3
  <2> QED
    BY <1>19, <2>1 DEF TypeOK, RecordChoice, Chosen
<1>20. ASSUME NEW g \in Gens, AnnouncePreparing(g) PROVE TypeOK'
  BY <1>20 DEF TypeOK, AnnouncePreparing, SetState, States, Ended
<1>21. ASSUME NEW g \in Gens, Listen(g) PROVE TypeOK'
  BY <1>21 DEF TypeOK, Listen
<1>22. ASSUME NEW g \in Gens, ListenFails(g) PROVE TypeOK'
  <2>1. loc' \in [Gens -> LocalRec]
    BY <1>22, OutcomeType DEF ListenFails
  <2> QED
    BY <1>22, <2>1 DEF TypeOK, ListenFails
<1>23. ASSUME NEW g \in Gens, PublishURL(g) PROVE TypeOK'
  <2>1. sess' \in [Gens -> SessionRec]
    <3>1. sess[g] \in SessionRec
      BY DEF TypeOK
    <3>2. [sess[g] EXCEPT !.streamURL = TRUE] \in SessionRec
      BY <3>1 DEF SessionRec
    <3> QED
      BY <1>23, <3>2 DEF TypeOK, PublishURL
  <2> QED
    BY <1>23, <2>1 DEF TypeOK, PublishURL
<1>24. ASSUME NEW g \in Gens, AnnounceStreaming(g) PROVE TypeOK'
  <2>1. grp' \in [Gens -> GroupRec]
    BY <1>24 DEF TypeOK, AnnounceStreaming, GroupRec
  <2> QED
    BY <1>24, <2>1 DEF TypeOK, AnnounceStreaming, SetState, States, Ended
<1>25. ASSUME NEW g \in Gens, ServeFails(g) PROVE TypeOK'
  <2>1. grp' \in [Gens -> GroupRec]
    <3>1. grp[g] \in GroupRec
      BY DEF TypeOK
    <3>2. [grp[g] EXCEPT !.serve = "returned", !.failed = TRUE] \in GroupRec
      BY <3>1 DEF GroupRec
    <3>3. grp' = [grp EXCEPT ![g] =
                    [grp[g] EXCEPT !.serve = "returned", !.failed = TRUE]]
      BY <1>25 DEF ServeFails
    <3> QED
      BY <3>2, <3>3 DEF TypeOK
  <2> QED
    BY <1>25, <2>1 DEF TypeOK, ServeFails
<1>26. ASSUME NEW g \in Gens, ServeReturns(g) PROVE TypeOK'
  <2>1. grp' \in [Gens -> GroupRec]
    BY <1>26, SMTT(30) DEF TypeOK, ServeReturns, GroupRec
  <2> QED
    BY <1>26, <2>1 DEF TypeOK, ServeReturns
<1>27. ASSUME NEW g \in Gens, CloseServer(g) PROVE TypeOK'
  <2>1. grp' \in [Gens -> GroupRec]
    <3>1. PICK failed \in BOOLEAN :
            grp' = [grp EXCEPT ![g].closer = "returned",
                               ![g].failed = @ \/ failed]
      BY <1>27 DEF CloseServer
    <3>2. (grp[g].failed \/ failed) \in BOOLEAN
      OBVIOUS
    <3>3. grp[g] \in GroupRec
      BY DEF TypeOK
    <3>4. [grp[g] EXCEPT !.closer = "returned",
                         !.failed = grp[g].failed \/ failed] \in GroupRec
      BY <3>2, <3>3 DEF GroupRec
    <3>5. grp' = [grp EXCEPT ![g] = [grp[g] EXCEPT !.closer = "returned",
                                       !.failed = grp[g].failed \/ failed]]
      BY <3>1
    <3> QED
      BY <3>4, <3>5 DEF TypeOK
  <2> QED
    BY <1>27, <2>1 DEF TypeOK, CloseServer
<1>28. ASSUME NEW g \in Gens, NEW failed \in BOOLEAN, BackendReturns(g, failed)
      PROVE  TypeOK'
  <2>1. grp' \in [Gens -> GroupRec]
    <3>1. (grp[g].failed \/ failed) \in BOOLEAN
      OBVIOUS
    <3>2. grp[g] \in GroupRec
      BY DEF TypeOK
    <3>3. [grp[g] EXCEPT !.backend = "returned",
                         !.failed = grp[g].failed \/ failed] \in GroupRec
      BY <3>1, <3>2 DEF GroupRec
    <3>4. grp' = [grp EXCEPT ![g] = [grp[g] EXCEPT !.backend = "returned",
                                       !.failed = grp[g].failed \/ failed]]
      BY <1>28 DEF BackendReturns
    <3> QED
      BY <3>3, <3>4 DEF TypeOK
  <2> QED
    BY <1>28, <2>1 DEF TypeOK, BackendReturns
<1>29. ASSUME NEW g \in Gens, GroupWait(g) PROVE TypeOK'
  <2>1. loc' \in [Gens -> LocalRec]
    BY <1>29, OutcomeType DEF GroupWait
  <2> QED
    BY <1>29, <2>1 DEF TypeOK, GroupWait
<1>30. ASSUME NEW g \in Gens, CloseEngine(g) PROVE TypeOK'
  BY <1>30 DEF TypeOK, CloseEngine
<1>31. ASSUME NEW g \in Gens, Finish(g) PROVE TypeOK'
  <2>1. /\ state' \in States /\ err' \in BOOLEAN
        /\ cur' \in 0 .. MaxGen
    <3>1. \E st \in States, failure \in BOOLEAN : SetState(g, st, failure)
      BY <1>31 DEF Finish, States
    <3> QED
      BY <3>1, ManagerAssumption DEF TypeOK, SetState
  <2>2. pc' \in [Gens -> PCs]
    BY <1>31 DEF TypeOK, Finish
  <2> QED
    BY <1>31, <2>1, <2>2 DEF TypeOK, Finish
<1>32. ASSUME NEW g \in Gens, Retire(g) PROVE TypeOK'
  BY <1>32 DEF TypeOK, Retire
<1>33. QED
  BY <1>1, <1>2, <1>3, <1>4, <1>5, <1>6, <1>7, <1>8, <1>9, <1>10, <1>11, <1>12,
     <1>13, <1>14, <1>15, <1>16, <1>17, <1>18, <1>19, <1>20, <1>21, <1>22, <1>23,
     <1>24, <1>25, <1>26, <1>27, <1>28, <1>29, <1>30, <1>31, <1>32
    DEF Next, Caller, Session, Prepare, Group

(* Every step keeps a session's resources in line with its goroutine, and  *)
(* the manager's state in line with its session.                           *)
LEMMA SessionStep ==
  ASSUME TypeOK, \A g \in Gens : SessionInv(g) /\ GroupInv(g), SlotFree, Next,
         NEW h \in Gens
  PROVE  SessionInv(h)' /\ SlotFree'
<1> USE DEF TypeOK, SessionInv, SlotFree, Ended, Gens, PCs, Live, BeforeEngine,
      EnginePCs, ListenPCs, mgrVars, resVars, ctxVars, histVars, Goto, Outcome,
      SetState
<1>1. ASSUME NEW upload \in BOOLEAN, Start(upload) PROVE SessionInv(h)' /\ SlotFree'
  BY <1>1, ManagerAssumption DEF Start, Busy
<1>2. ASSUME NEW i \in Index, Select(i) PROVE SessionInv(h)' /\ SlotFree'
  BY <1>2 DEF Select
<1>3. ASSUME NEW c \in Callers, Caller(c) PROVE SessionInv(h)' /\ SlotFree'
  BY <1>3, ZenonT(40) DEF Caller, StopBegin, StopCancel, StopDone, StopTimeout, StopReturn
<1>4. ASSUME Interrupt PROVE SessionInv(h)' /\ SlotFree'
  BY <1>4 DEF Interrupt
<1>5. ASSUME NEW g \in Gens, NewEngine(g) PROVE SessionInv(h)' /\ SlotFree'
  BY <1>5 DEF NewEngine
<1>6. ASSUME NEW g \in Gens, NewEngineFails(g) PROVE SessionInv(h)' /\ SlotFree'
  BY <1>6 DEF NewEngineFails
<1>7. ASSUME NEW g \in Gens, Opened(g) PROVE SessionInv(h)' /\ SlotFree'
  BY <1>7 DEF Opened, SourceAfterOpen
<1>8. ASSUME NEW g \in Gens, OpenFails(g) PROVE SessionInv(h)' /\ SlotFree'
  BY <1>8 DEF OpenFails, Outcome, SourceAfterOpen
<1>9. ASSUME NEW g \in Gens, ResolveNone(g) PROVE SessionInv(h)' /\ SlotFree'
  BY <1>9 DEF ResolveNone
<1>10. ASSUME NEW g \in Gens, NEW i \in Video, ResolveOne(g, i)
      PROVE  SessionInv(h)' /\ SlotFree'
  BY <1>10 DEF ResolveOne
<1>11. ASSUME NEW g \in Gens, NEW videos \in SUBSET Video, ResolveMany(g, videos)
      PROVE  SessionInv(h)' /\ SlotFree'
  BY <1>11 DEF ResolveMany
<1>12. ASSUME NEW g \in Gens, AnnounceSelecting(g) PROVE SessionInv(h)' /\ SlotFree'
  BY <1>12 DEF AnnounceSelecting
<1>13. ASSUME NEW g \in Gens, ReceiveChoice(g) PROVE SessionInv(h)' /\ SlotFree'
  BY <1>13 DEF ReceiveChoice
<1>14. ASSUME NEW g \in Gens, CancelWait(g) PROVE SessionInv(h)' /\ SlotFree'
  BY <1>14 DEF CancelWait
<1>15. ASSUME NEW g \in Gens, RecordChoice(g) PROVE SessionInv(h)' /\ SlotFree'
  BY <1>15 DEF RecordChoice, Chosen
<1>16. ASSUME NEW g \in Gens, AnnouncePreparing(g) PROVE SessionInv(h)' /\ SlotFree'
  BY <1>16 DEF AnnouncePreparing
<1>17. ASSUME NEW g \in Gens, Listen(g) PROVE SessionInv(h)' /\ SlotFree'
  BY <1>17 DEF Listen
<1>18. ASSUME NEW g \in Gens, ListenFails(g) PROVE SessionInv(h)' /\ SlotFree'
  BY <1>18 DEF ListenFails
<1>19. ASSUME NEW g \in Gens, PublishURL(g) PROVE SessionInv(h)' /\ SlotFree'
  BY <1>19 DEF PublishURL
<1>20. ASSUME NEW g \in Gens, AnnounceStreaming(g) PROVE SessionInv(h)' /\ SlotFree'
  BY <1>20 DEF AnnounceStreaming
<1>21. ASSUME NEW g \in Gens, ServeFails(g) PROVE SessionInv(h)' /\ SlotFree'
  BY <1>21 DEF ServeFails, GroupInv, GroupReturned, IdleGroup, GroupRec, States
<1>22. ASSUME NEW g \in Gens, ServeReturns(g) PROVE SessionInv(h)' /\ SlotFree'
  BY <1>22 DEF ServeReturns, GroupInv, GroupReturned, IdleGroup, GroupRec, States
<1>23. ASSUME NEW g \in Gens, CloseServer(g) PROVE SessionInv(h)' /\ SlotFree'
  BY <1>23, ZenonT(40) DEF CloseServer, GroupInv, GroupReturned, IdleGroup, GroupRec, States
<1>24. ASSUME NEW g \in Gens, NEW failed \in BOOLEAN, BackendReturns(g, failed)
      PROVE  SessionInv(h)' /\ SlotFree'
  BY <1>24 DEF BackendReturns
<1>25. ASSUME NEW g \in Gens, GroupWait(g) PROVE SessionInv(h)' /\ SlotFree'
  BY <1>25 DEF GroupWait, GroupInv, GroupReturned, IdleGroup, GroupRec, States
<1>26. ASSUME NEW g \in Gens, CloseEngine(g) PROVE SessionInv(h)' /\ SlotFree'
  BY <1>26 DEF CloseEngine
<1>27. ASSUME NEW g \in Gens, Finish(g) PROVE SessionInv(h)' /\ SlotFree'
  BY <1>27 DEF Finish
<1>28. ASSUME NEW g \in Gens, Retire(g) PROVE SessionInv(h)' /\ SlotFree'
  BY <1>28 DEF Retire
<1> HIDE DEF TypeOK, SessionInv, SlotFree, Ended, Gens, PCs, Live, BeforeEngine,
      EnginePCs, ListenPCs, mgrVars, resVars, ctxVars, histVars, Goto, Outcome,
      SetState
<1>29. QED
  BY <1>1, <1>2, <1>3, <1>4, <1>5, <1>6, <1>7, <1>8, <1>9, <1>10, <1>11, <1>12,
     <1>13, <1>14, <1>15, <1>16, <1>17, <1>18, <1>19, <1>20, <1>21, <1>22, <1>23,
     <1>24, <1>25, <1>26, <1>27, <1>28
    DEF Next, Session, Prepare, Group

(* Every step keeps a session's errgroup in line with its goroutine.       *)
LEMMA GroupStep ==
  ASSUME TypeOK, \A g \in Gens : SessionInv(g) /\ GroupInv(g), Next, NEW h \in Gens
  PROVE  GroupInv(h)'
<1> USE DEF TypeOK, SessionInv, GroupInv, GroupReturned, IdleGroup, GroupRec, Gens,
      PCs, Live, BeforeEngine, EnginePCs, ListenPCs, mgrVars, resVars, ctxVars,
      histVars, Goto, Outcome, SetState
<1>1. ASSUME NEW upload \in BOOLEAN, Start(upload) PROVE GroupInv(h)'
  BY <1>1 DEF Start
<1>2. ASSUME NEW i \in Index, Select(i) PROVE GroupInv(h)'
  BY <1>2 DEF Select
<1>3. ASSUME NEW c \in Callers, Caller(c) PROVE GroupInv(h)'
  <2>1. UNCHANGED <<pc, lis, grp>>
    BY <1>3 DEF Caller, StopBegin, StopCancel, StopDone, StopTimeout, StopReturn
  <2> QED BY <2>1
<1>4. ASSUME Interrupt PROVE GroupInv(h)'
  BY <1>4 DEF Interrupt
<1>5. ASSUME NEW g \in Gens, NewEngine(g) PROVE GroupInv(h)'
  BY <1>5 DEF NewEngine
<1>6. ASSUME NEW g \in Gens, NewEngineFails(g) PROVE GroupInv(h)'
  BY <1>6 DEF NewEngineFails
<1>7. ASSUME NEW g \in Gens, Opened(g) PROVE GroupInv(h)'
  BY <1>7 DEF Opened, SourceAfterOpen
<1>8. ASSUME NEW g \in Gens, OpenFails(g) PROVE GroupInv(h)'
  BY <1>8 DEF OpenFails, Outcome, SourceAfterOpen
<1>9. ASSUME NEW g \in Gens, ResolveNone(g) PROVE GroupInv(h)'
  BY <1>9 DEF ResolveNone
<1>10. ASSUME NEW g \in Gens, NEW i \in Video, ResolveOne(g, i) PROVE GroupInv(h)'
  BY <1>10 DEF ResolveOne
<1>11. ASSUME NEW g \in Gens, NEW videos \in SUBSET Video, ResolveMany(g, videos)
      PROVE  GroupInv(h)'
  BY <1>11 DEF ResolveMany
<1>12. ASSUME NEW g \in Gens, AnnounceSelecting(g) PROVE GroupInv(h)'
  BY <1>12 DEF AnnounceSelecting
<1>13. ASSUME NEW g \in Gens, ReceiveChoice(g) PROVE GroupInv(h)'
  BY <1>13 DEF ReceiveChoice
<1>14. ASSUME NEW g \in Gens, CancelWait(g) PROVE GroupInv(h)'
  BY <1>14 DEF CancelWait
<1>15. ASSUME NEW g \in Gens, RecordChoice(g) PROVE GroupInv(h)'
  BY <1>15 DEF RecordChoice, Chosen
<1>16. ASSUME NEW g \in Gens, AnnouncePreparing(g) PROVE GroupInv(h)'
  BY <1>16 DEF AnnouncePreparing
<1>17. ASSUME NEW g \in Gens, Listen(g) PROVE GroupInv(h)'
  BY <1>17 DEF Listen
<1>18. ASSUME NEW g \in Gens, ListenFails(g) PROVE GroupInv(h)'
  BY <1>18 DEF ListenFails
<1>19. ASSUME NEW g \in Gens, PublishURL(g) PROVE GroupInv(h)'
  BY <1>19 DEF PublishURL
<1>20. ASSUME NEW g \in Gens, AnnounceStreaming(g) PROVE GroupInv(h)'
  BY <1>20, ZenonT(40) DEF AnnounceStreaming
<1>21. ASSUME NEW g \in Gens, ServeFails(g) PROVE GroupInv(h)'
  <2>1. pc[g] = "group"
    BY <1>21 DEF ServeFails
  <2>2. CASE h = g
    BY <1>21, <2>1, <2>2 DEF ServeFails
  <2>3. CASE h # g
    <3>1. UNCHANGED <<pc[h], lis[h], grp[h]>>
      BY <1>21, <2>3 DEF ServeFails
    <3> QED BY <3>1
  <2> QED BY <2>2, <2>3
<1>22. ASSUME NEW g \in Gens, ServeReturns(g) PROVE GroupInv(h)'
  <2>1. pc[g] = "group"
    BY <1>22 DEF ServeReturns
  <2>2. CASE h = g
    BY <1>22, <2>1, <2>2 DEF ServeReturns
  <2>3. CASE h # g
    <3>1. UNCHANGED <<pc[h], lis[h], grp[h]>>
      BY <1>22, <2>3 DEF ServeReturns
    <3> QED BY <3>1
  <2> QED BY <2>2, <2>3
<1>23. ASSUME NEW g \in Gens, CloseServer(g) PROVE GroupInv(h)'
  <2>1. pc[g] = "group"
    BY <1>23 DEF CloseServer
  <2>2. CASE h = g
    <3>1. PICK failed \in BOOLEAN :
            grp' = [grp EXCEPT ![g].closer = "returned",
                               ![g].failed = @ \/ failed]
      BY <1>23 DEF CloseServer
    <3>2. grp'[g].serve = grp[g].serve
      BY <3>1
    <3>3. pc' = pc
      BY <1>23 DEF CloseServer
    <3>4. lis'[g] \in {lis[g], "closed"}
      BY <1>23 DEF CloseServer
    <3> QED BY <2>1, <2>2, <3>2, <3>3, <3>4
  <2>3. CASE h # g
    <3>1. UNCHANGED <<pc[h], lis[h], grp[h]>>
      BY <1>23, <2>3, ZenonT(40) DEF CloseServer
    <3> QED BY <3>1
  <2> QED BY <2>2, <2>3
<1>24. ASSUME NEW g \in Gens, NEW failed \in BOOLEAN, BackendReturns(g, failed)
      PROVE  GroupInv(h)'
  <2>1. pc[g] = "group"
    BY <1>24 DEF BackendReturns
  <2>2. CASE h = g
    BY <1>24, <2>1, <2>2 DEF BackendReturns
  <2>3. CASE h # g
    <3>1. UNCHANGED <<pc[h], lis[h], grp[h]>>
      BY <1>24, <2>3 DEF BackendReturns
    <3> QED BY <3>1
  <2> QED BY <2>2, <2>3
<1>25. ASSUME NEW g \in Gens, GroupWait(g) PROVE GroupInv(h)'
  BY <1>25 DEF GroupWait
<1>26. ASSUME NEW g \in Gens, CloseEngine(g) PROVE GroupInv(h)'
  BY <1>26 DEF CloseEngine
<1>27. ASSUME NEW g \in Gens, Finish(g) PROVE GroupInv(h)'
  BY <1>27 DEF Finish
<1>28. ASSUME NEW g \in Gens, Retire(g) PROVE GroupInv(h)'
  BY <1>28 DEF Retire
<1> HIDE DEF TypeOK, SessionInv, GroupInv, GroupReturned, IdleGroup, GroupRec, Gens,
      PCs, Live, BeforeEngine, EnginePCs, ListenPCs, mgrVars, resVars, ctxVars,
      histVars, Goto, Outcome, SetState
<1>29. QED
  BY <1>1, <1>2, <1>3, <1>4, <1>5, <1>6, <1>7, <1>8, <1>9, <1>10, <1>11, <1>12,
     <1>13, <1>14, <1>15, <1>16, <1>17, <1>18, <1>19, <1>20, <1>21, <1>22, <1>23,
     <1>24, <1>25, <1>26, <1>27, <1>28
    DEF Next, Session, Prepare, Group

(* Every step keeps what a pending Stop knows of its session.              *)
LEMMA CallStep ==
  ASSUME TypeOK, \A g \in Gens : SessionInv(g),
         \A c \in Callers : CallInv(c), Next, NEW b \in Callers
  PROVE  CallInv(b)'
<1> USE DEF TypeOK, SessionInv, CallInv, CallRec, NoCall, Gens, PCs, Live,
      BeforeEngine, EnginePCs, ListenPCs, mgrVars, resVars, ctxVars, histVars, Goto,
      Outcome, SetState
<1>1. ASSUME NEW upload \in BOOLEAN, Start(upload) PROVE CallInv(b)'
  BY <1>1 DEF Start
<1>2. ASSUME NEW i \in Index, Select(i) PROVE CallInv(b)'
  BY <1>2 DEF Select
<1>3. ASSUME NEW c \in Callers, StopBegin(c) PROVE CallInv(b)'
  BY <1>3 DEF StopBegin
<1>4. ASSUME NEW c \in Callers, StopCancel(c) PROVE CallInv(b)'
  BY <1>4 DEF StopCancel, StopTarget
<1>5. ASSUME NEW c \in Callers, StopDone(c) PROVE CallInv(b)'
  BY <1>5 DEF StopDone
<1>6. ASSUME NEW c \in Callers, StopTimeout(c) PROVE CallInv(b)'
  BY <1>6 DEF StopTimeout
<1>7. ASSUME NEW c \in Callers, StopReturn(c) PROVE CallInv(b)'
  BY <1>7 DEF StopReturn
<1>8. ASSUME Interrupt PROVE CallInv(b)'
  BY <1>8 DEF Interrupt
<1>9. ASSUME NEW g \in Gens, NewEngine(g) PROVE CallInv(b)'
  BY <1>9 DEF NewEngine
<1>10. ASSUME NEW g \in Gens, NewEngineFails(g) PROVE CallInv(b)'
  BY <1>10 DEF NewEngineFails
<1>11. ASSUME NEW g \in Gens, Opened(g) PROVE CallInv(b)'
  BY <1>11 DEF Opened, SourceAfterOpen
<1>12. ASSUME NEW g \in Gens, OpenFails(g) PROVE CallInv(b)'
  BY <1>12 DEF OpenFails, Outcome, SourceAfterOpen
<1>13. ASSUME NEW g \in Gens, ResolveNone(g) PROVE CallInv(b)'
  BY <1>13 DEF ResolveNone
<1>14. ASSUME NEW g \in Gens, NEW i \in Video, ResolveOne(g, i) PROVE CallInv(b)'
  BY <1>14 DEF ResolveOne
<1>15. ASSUME NEW g \in Gens, NEW videos \in SUBSET Video, ResolveMany(g, videos)
      PROVE  CallInv(b)'
  BY <1>15 DEF ResolveMany
<1>16. ASSUME NEW g \in Gens, AnnounceSelecting(g) PROVE CallInv(b)'
  BY <1>16 DEF AnnounceSelecting
<1>17. ASSUME NEW g \in Gens, ReceiveChoice(g) PROVE CallInv(b)'
  BY <1>17 DEF ReceiveChoice
<1>18. ASSUME NEW g \in Gens, CancelWait(g) PROVE CallInv(b)'
  BY <1>18 DEF CancelWait
<1>19. ASSUME NEW g \in Gens, RecordChoice(g) PROVE CallInv(b)'
  BY <1>19 DEF RecordChoice, Chosen
<1>20. ASSUME NEW g \in Gens, AnnouncePreparing(g) PROVE CallInv(b)'
  BY <1>20 DEF AnnouncePreparing
<1>21. ASSUME NEW g \in Gens, Listen(g) PROVE CallInv(b)'
  BY <1>21 DEF Listen
<1>22. ASSUME NEW g \in Gens, ListenFails(g) PROVE CallInv(b)'
  BY <1>22 DEF ListenFails
<1>23. ASSUME NEW g \in Gens, PublishURL(g) PROVE CallInv(b)'
  BY <1>23 DEF PublishURL
<1>24. ASSUME NEW g \in Gens, AnnounceStreaming(g) PROVE CallInv(b)'
  BY <1>24 DEF AnnounceStreaming
<1>25. ASSUME NEW g \in Gens, ServeFails(g) PROVE CallInv(b)'
  BY <1>25 DEF ServeFails
<1>26. ASSUME NEW g \in Gens, ServeReturns(g) PROVE CallInv(b)'
  BY <1>26 DEF ServeReturns
<1>27. ASSUME NEW g \in Gens, CloseServer(g) PROVE CallInv(b)'
  BY <1>27 DEF CloseServer
<1>28. ASSUME NEW g \in Gens, NEW failed \in BOOLEAN, BackendReturns(g, failed)
      PROVE  CallInv(b)'
  BY <1>28 DEF BackendReturns
<1>29. ASSUME NEW g \in Gens, GroupWait(g) PROVE CallInv(b)'
  BY <1>29 DEF GroupWait
<1>30. ASSUME NEW g \in Gens, CloseEngine(g) PROVE CallInv(b)'
  BY <1>30 DEF CloseEngine
<1>31. ASSUME NEW g \in Gens, Finish(g) PROVE CallInv(b)'
  BY <1>31 DEF Finish
<1>32. ASSUME NEW g \in Gens, Retire(g) PROVE CallInv(b)'
  BY <1>32 DEF Retire
<1> HIDE DEF TypeOK, SessionInv, CallInv, CallRec, NoCall, Gens, PCs, Live,
      BeforeEngine, EnginePCs, ListenPCs, mgrVars, resVars, ctxVars, histVars, Goto,
      Outcome, SetState
<1>33. QED
  BY <1>1, <1>2, <1>3, <1>4, <1>5, <1>6, <1>7, <1>8, <1>9, <1>10, <1>11, <1>12,
     <1>13, <1>14, <1>15, <1>16, <1>17, <1>18, <1>19, <1>20, <1>21, <1>22, <1>23,
     <1>24, <1>25, <1>26, <1>27, <1>28, <1>29, <1>30, <1>31, <1>32
    DEF Next, Caller, Session, Prepare, Group

(* No step cancels a session that nobody stopped.                          *)
LEMMA CancelStep ==
  ASSUME TypeOK, \A g \in Gens : SessionInv(g) /\ GroupInv(g),
         \A c \in Callers : CallInv(c), CancelledWasAskedFor, Next
  PROVE  CancelledWasAskedFor'
<1> USE DEF TypeOK, SessionInv, GroupInv, IdleGroup, GroupReturned, GroupRec,
      CancelledWasAskedFor, Gens, PCs, Live, BeforeEngine, EnginePCs, ListenPCs,
      mgrVars, resVars, ctxVars, histVars, Goto, Outcome, SetState
<1>1. ASSUME NEW upload \in BOOLEAN, Start(upload) PROVE CancelledWasAskedFor'
  BY <1>1 DEF Start
<1>2. ASSUME NEW i \in Index, Select(i) PROVE CancelledWasAskedFor'
  BY <1>2 DEF Select
<1>3. ASSUME NEW c \in Callers, StopBegin(c) PROVE CancelledWasAskedFor'
  BY <1>3 DEF StopBegin
<1>4. ASSUME NEW c \in Callers, StopCancel(c) PROVE CancelledWasAskedFor'
  <2>1. op[c].target \in stopSeen
    BY <1>4 DEF StopCancel, CallInv
  <2>2. cancelled' = cancelled \cup {op[c].target}
    BY <1>4 DEF StopCancel, StopTarget
  <2>3. UNCHANGED <<stopSeen, grp, pc>>
    BY <1>4 DEF StopCancel
  <2> QED BY <2>1, <2>2, <2>3
<1>5. ASSUME NEW c \in Callers, StopDone(c) PROVE CancelledWasAskedFor'
  BY <1>5 DEF StopDone
<1>6. ASSUME NEW c \in Callers, StopTimeout(c) PROVE CancelledWasAskedFor'
  BY <1>6 DEF StopTimeout
<1>7. ASSUME NEW c \in Callers, StopReturn(c) PROVE CancelledWasAskedFor'
  BY <1>7 DEF StopReturn
<1>8. ASSUME Interrupt PROVE CancelledWasAskedFor'
  BY <1>8 DEF Interrupt
<1>9. ASSUME NEW g \in Gens, NewEngine(g) PROVE CancelledWasAskedFor'
  BY <1>9 DEF NewEngine
<1>10. ASSUME NEW g \in Gens, NewEngineFails(g) PROVE CancelledWasAskedFor'
  BY <1>10 DEF NewEngineFails
<1>11. ASSUME NEW g \in Gens, Opened(g) PROVE CancelledWasAskedFor'
  BY <1>11 DEF Opened, SourceAfterOpen
<1>12. ASSUME NEW g \in Gens, OpenFails(g) PROVE CancelledWasAskedFor'
  BY <1>12 DEF OpenFails, Outcome, SourceAfterOpen
<1>13. ASSUME NEW g \in Gens, ResolveNone(g) PROVE CancelledWasAskedFor'
  BY <1>13 DEF ResolveNone
<1>14. ASSUME NEW g \in Gens, NEW i \in Video, ResolveOne(g, i)
      PROVE  CancelledWasAskedFor'
  BY <1>14 DEF ResolveOne
<1>15. ASSUME NEW g \in Gens, NEW videos \in SUBSET Video, ResolveMany(g, videos)
      PROVE  CancelledWasAskedFor'
  BY <1>15 DEF ResolveMany
<1>16. ASSUME NEW g \in Gens, AnnounceSelecting(g) PROVE CancelledWasAskedFor'
  BY <1>16 DEF AnnounceSelecting
<1>17. ASSUME NEW g \in Gens, ReceiveChoice(g) PROVE CancelledWasAskedFor'
  BY <1>17 DEF ReceiveChoice
<1>18. ASSUME NEW g \in Gens, CancelWait(g) PROVE CancelledWasAskedFor'
  BY <1>18 DEF CancelWait
<1>19. ASSUME NEW g \in Gens, RecordChoice(g) PROVE CancelledWasAskedFor'
  BY <1>19 DEF RecordChoice, Chosen
<1>20. ASSUME NEW g \in Gens, AnnouncePreparing(g) PROVE CancelledWasAskedFor'
  BY <1>20 DEF AnnouncePreparing
<1>21. ASSUME NEW g \in Gens, Listen(g) PROVE CancelledWasAskedFor'
  BY <1>21 DEF Listen
<1>22. ASSUME NEW g \in Gens, ListenFails(g) PROVE CancelledWasAskedFor'
  BY <1>22 DEF ListenFails
<1>23. ASSUME NEW g \in Gens, PublishURL(g) PROVE CancelledWasAskedFor'
  BY <1>23 DEF PublishURL
<1>24. ASSUME NEW g \in Gens, AnnounceStreaming(g) PROVE CancelledWasAskedFor'
  BY <1>24 DEF AnnounceStreaming
<1>25. ASSUME NEW g \in Gens, ServeFails(g) PROVE CancelledWasAskedFor'
  BY <1>25 DEF ServeFails
<1>26. ASSUME NEW g \in Gens, ServeReturns(g) PROVE CancelledWasAskedFor'
  BY <1>26 DEF ServeReturns
<1>27. ASSUME NEW g \in Gens, CloseServer(g) PROVE CancelledWasAskedFor'
  BY <1>27 DEF CloseServer
<1>28. ASSUME NEW g \in Gens, NEW failed \in BOOLEAN, BackendReturns(g, failed)
      PROVE  CancelledWasAskedFor'
  BY <1>28 DEF BackendReturns
<1>29. ASSUME NEW g \in Gens, GroupWait(g) PROVE CancelledWasAskedFor'
  BY <1>29 DEF GroupWait
<1>30. ASSUME NEW g \in Gens, CloseEngine(g) PROVE CancelledWasAskedFor'
  BY <1>30 DEF CloseEngine
<1>31. ASSUME NEW g \in Gens, Finish(g) PROVE CancelledWasAskedFor'
  BY <1>31 DEF Finish
<1>32. ASSUME NEW g \in Gens, Retire(g) PROVE CancelledWasAskedFor'
  BY <1>32 DEF Retire
<1> HIDE DEF TypeOK, SessionInv, GroupInv, IdleGroup, GroupReturned, GroupRec,
      CancelledWasAskedFor, Gens, PCs, Live, BeforeEngine, EnginePCs, ListenPCs,
      mgrVars, resVars, ctxVars, histVars, Goto, Outcome, SetState
<1>33. QED
  BY <1>1, <1>2, <1>3, <1>4, <1>5, <1>6, <1>7, <1>8, <1>9, <1>10, <1>11, <1>12,
     <1>13, <1>14, <1>15, <1>16, <1>17, <1>18, <1>19, <1>20, <1>21, <1>22, <1>23,
     <1>24, <1>25, <1>26, <1>27, <1>28, <1>29, <1>30, <1>31, <1>32
    DEF Next, Caller, Session, Prepare, Group

(* The inductive invariant: the manager's variables stay in line with the   *)
(* goroutines and the calls in progress (manager.go as a whole).           *)
THEOREM Inductive == Spec => []IInv
<1>1. Init => IInv
  <2> SUFFICES ASSUME Init PROVE IInv
    OBVIOUS
  <2>1. TypeOK
    <3>1. sess \in [Gens -> SessionRec] /\ acked \in [Gens -> MaybeIndex]
      BY DEF Init, SessionRec, NewSession, MaybeVideo, MaybeIndex
    <3>2. loc \in [Gens -> LocalRec]
      BY DEF Init, LocalRec, MaybeIndex
    <3>3. grp \in [Gens -> GroupRec]
      BY DEF Init, GroupRec, IdleGroup
    <3>4. op \in [Callers -> CallRec]
      BY ManagerAssumption DEF Init, CallRec, NoCall
    <3>5. cur \in 0 .. MaxGen /\ gen \in 0 .. MaxGen
      BY ManagerAssumption DEF Init
    <3> QED
      BY <3>1, <3>2, <3>3, <3>4, <3>5 DEF Init, TypeOK, States, PCs
  <2>2. ASSUME NEW g \in Gens PROVE SessionInv(g) /\ GroupInv(g)
    BY DEF Init, SessionInv, GroupInv, Gens, Live, BeforeEngine, EnginePCs,
      IdleGroup
  <2>3. ASSUME NEW c \in Callers PROVE CallInv(c)
    BY DEF Init, CallInv, NoCall
  <2>4. SlotFree /\ CancelledWasAskedFor
    BY DEF Init, SlotFree, Ended, CancelledWasAskedFor
  <2> QED
    BY <2>1, <2>2, <2>3, <2>4 DEF IInv
<1>2. IInv /\ [Next]_vars => IInv'
  <2> SUFFICES ASSUME IInv, [Next]_vars PROVE IInv'
    OBVIOUS
  <2>1. CASE Next
    <3>1. TypeOK'
      BY <2>1, TypeStep DEF IInv
    <3>2. ASSUME NEW g \in Gens
          PROVE  SessionInv(g)' /\ GroupInv(g)' /\ SlotFree'
      BY <2>1, SessionStep, GroupStep DEF IInv
    <3>3. ASSUME NEW c \in Callers PROVE CallInv(c)'
      BY <2>1, CallStep DEF IInv
    <3>4. CancelledWasAskedFor'
      BY <2>1, CancelStep DEF IInv
    <3>5. 1 \in Gens
      BY ManagerAssumption DEF Gens
    <3>6. Gens' = Gens
      BY DEF Gens
    <3> QED
      BY <3>1, <3>2, <3>3, <3>4, <3>5, <3>6 DEF IInv
  <2>2. CASE UNCHANGED vars
    BY <2>2 DEF IInv, vars, mgrVars, resVars, ctxVars, histVars, TypeOK,
      SessionInv, GroupInv, GroupReturned, CallInv, SlotFree,
      CancelledWasAskedFor
  <2> QED
    BY <2>1, <2>2
<1> QED
  BY <1>1, <1>2, PTL DEF Spec

----------------------------------------------------------------------------
(* What follows from it *)

(* Every variable keeps its type (the structs of manager.go).              *)
THEOREM TypeCorrect == Spec => []TypeOK
<1>1. IInv => TypeOK
  BY DEF IInv
<1> QED
  BY <1>1, Inductive, PTL

(* A session that holds a torrent client or a listener has the client.     *)
LEMMA Holding ==
  ASSUME IInv
  PROVE  {g \in Gens : HoldsResources(g)} = {g \in Gens : eng[g] = "open"}
  BY DEF IInv, SessionInv, HoldsResources, EnginePCs, ListenPCs

(* A torrent client is open for the current session only.                  *)
LEMMA EngineIsCurrent ==
  ASSUME IInv, NEW g \in Gens, eng[g] = "open"
  PROVE  cur = g
  BY DEF IInv, SessionInv, Live

(* Two sessions never hold a torrent client or a listener at once: prepare *)
(* AndStream closes them before runSession gives the slot up.              *)
THEOREM SlotIsExclusive == Spec => []OneSessionHoldsResources
<1>1. IInv => OneSessionHoldsResources
  BY Holding, EngineIsCurrent DEF OneSessionHoldsResources
<1> QED
  BY <1>1, Inductive, PTL

(* The manager is busy exactly while a session's goroutine has to reach    *)
(* its last setState; setState never rejects a session.                    *)
THEOREM BusyMeansLive == Spec => []CurrentIsLive
<1>1. IInv => CurrentIsLive
  BY DEF IInv, SessionInv, SlotFree, CurrentIsLive
<1> QED
  BY <1>1, Inductive, PTL

(* A Stop that returns nil leaves nothing of its session behind.           *)
THEOREM StopIsThorough == Spec => []StoppedMeansTornDown
<1>1. IInv => StoppedMeansTornDown
  <2> SUFFICES ASSUME IInv, NEW c \in Callers, op[c].at = "stopped"
               PROVE  LET g == op[c].target
                      IN  /\ cur # g /\ ~HoldsResources(g)
                          /\ grp[g] = IdleGroup \/ GroupReturned(g)
    BY DEF StoppedMeansTornDown
  <2>1. op[c].target \in Gens /\ op[c].target \in done
    BY DEF IInv, CallInv
  <2>2. pc[op[c].target] = "over"
    BY <2>1 DEF IInv, SessionInv
  <2> QED
    BY <2>1, <2>2 DEF IInv, SessionInv, GroupInv, HoldsResources, Live,
      BeforeEngine, EnginePCs, ListenPCs
<1> QED
  BY <1>1, Inductive, PTL

(* A session is cancelled by a Stop that found it current, or by its own   *)
(* end: Stop acts on the session it captured.                              *)
THEOREM StopHitsItsSession == Spec => []CancelledWasAskedFor
<1>1. IInv => CancelledWasAskedFor
  BY DEF IInv
<1> QED
  BY <1>1, Inductive, PTL

----------------------------------------------------------------------------
(* The manager implements the one-slot specification *)

(* Only these steps take the slot, give it up, or change who uses the      *)
(* machine; the slot sees every other step as a stutter.                   *)
LEMMA SlotStutter ==
  ASSUME Next,
         \A upload \in BOOLEAN : ~Start(upload),
         \A g \in Gens : ~NewEngine(g) /\ ~CloseEngine(g) /\ ~Finish(g),
         IInv
  PROVE  UNCHANGED <<cur, gen, eng>>
<1> USE DEF mgrVars, resVars
<1>1. ASSUME NEW i \in Index, Select(i) PROVE UNCHANGED <<cur, gen, eng>>
  BY <1>1 DEF Select
<1>2. ASSUME NEW c \in Callers, Caller(c) PROVE UNCHANGED <<cur, gen, eng>>
  BY <1>2 DEF Caller, StopBegin, StopCancel, StopDone, StopTimeout, StopReturn
<1>3. CASE Interrupt
  BY <1>3 DEF Interrupt
<1>4. ASSUME NEW g \in Gens, Prepare(g) PROVE UNCHANGED <<cur, gen, eng>>
  BY <1>4 DEF Prepare, NewEngineFails, Opened, OpenFails, ResolveNone,
    ResolveOne, ResolveMany, AnnounceSelecting, ReceiveChoice, CancelWait,
    RecordChoice, AnnouncePreparing, Listen, ListenFails, PublishURL,
    AnnounceStreaming, SetState, Ended
<1>5. ASSUME NEW g \in Gens, Group(g) \/ Retire(g)
      PROVE  UNCHANGED <<cur, gen, eng>>
  BY <1>5 DEF Group, ServeFails, ServeReturns, CloseServer, BackendReturns,
    GroupWait, Retire
<1> QED
  BY <1>1, <1>2, <1>3, <1>4, <1>5 DEF Next, Session

(* Every step of the manager is a step of the slot or a stutter.           *)
LEMMA SlotStep ==
  ASSUME IInv, IInv', [Next]_vars
  PROVE  [Slot!SlotNext]_(Slot!slotVars)
<1> DEFINE using == {g \in Gens : eng[g] = "open"}
<1>1. {g \in Gens : HoldsResources(g)} = using
  BY Holding
<1>2. {g \in Gens : HoldsResources(g)}' = using'
  BY DEF IInv, SessionInv, HoldsResources, EnginePCs, ListenPCs
<1>3. ASSUME NEW upload \in BOOLEAN, Start(upload) PROVE Slot!Acquire
  BY <1>1, <1>2, <1>3 DEF Start, Busy, IInv, SlotFree, Slot!Acquire
<1>4. ASSUME NEW g \in Gens, NewEngine(g) PROVE Slot!Use
  <2>1. cur = g /\ cur # 0 /\ cur' = cur /\ gen' = gen
    BY <1>4 DEF NewEngine, Goto, mgrVars, IInv, SessionInv, Live, BeforeEngine,
      Gens
  <2>2. using = {}
    BY <1>4, <2>1, EngineIsCurrent DEF NewEngine, Goto, IInv, SessionInv,
      EnginePCs
  <2>3. using' = {g}
    BY <1>4, <2>2 DEF NewEngine, IInv, TypeOK, Gens
  <2> QED
    BY <1>1, <1>2, <2>1, <2>2, <2>3 DEF Slot!Use
<1>5. ASSUME NEW g \in Gens, CloseEngine(g) PROVE Slot!StopUsing
  <2>1. cur = g /\ cur # 0 /\ cur' = cur /\ gen' = gen
    BY <1>5 DEF CloseEngine, Goto, mgrVars, IInv, SessionInv, Live, EnginePCs,
      Gens
  <2>2. using = {g}
    BY <1>5, <2>1, EngineIsCurrent DEF CloseEngine, Goto, IInv, SessionInv,
      EnginePCs
  <2>3. using' = {}
    BY <1>5, <2>2 DEF CloseEngine, IInv, TypeOK, Gens
  <2> QED
    BY <1>1, <1>2, <2>1, <2>2, <2>3 DEF Slot!StopUsing
<1>6. ASSUME NEW g \in Gens, Finish(g) PROVE Slot!Release
  <2>1. cur = g /\ cur # 0 /\ gen' = gen /\ eng' = eng
    BY <1>6 DEF Finish, Goto, resVars, IInv, SessionInv, Live, Gens
  <2>2. cur' = 0
    BY <1>6, <2>1 DEF Finish, SetState, Ended
  <2>3. using = {} /\ using' = {}
    BY <1>6, <2>1, EngineIsCurrent DEF Finish, Goto, IInv, SessionInv,
      EnginePCs, Gens
  <2> QED
    BY <1>1, <1>2, <2>1, <2>2, <2>3 DEF Slot!Release
<1>7. CASE UNCHANGED <<cur, gen, eng>>
  BY <1>1, <1>2, <1>7 DEF Slot!slotVars, Gens
<1>8. CASE UNCHANGED vars
  BY <1>7, <1>8 DEF vars, mgrVars, resVars
<1> QED
  BY <1>3, <1>4, <1>5, <1>6, <1>7, <1>8, SlotStutter DEF Slot!SlotNext

(* The streaming manager implements one slot: what SessionSlot promises,   *)
(* manager.go does.                                                        *)
THEOREM ImplementsSlot == Spec => SlotSpec
<1>1. Init => Slot!SlotInit
  BY DEF Init, HoldsResources, Slot!SlotInit
<1>2. IInv /\ IInv' /\ [Next]_vars => [Slot!SlotNext]_(Slot!slotVars)
  BY SlotStep
<1> QED
  BY <1>1, <1>2, Inductive, PTL DEF Spec, SlotSpec, Slot!SlotSpec

----------------------------------------------------------------------------
(* What the API shows, what is streamed and served, and what becomes of an *)
(* upload: what a session has established at each point of its goroutine,  *)
(* inductive beside IInv.                                                  *)

Undecided == {"none", "engine", "open", "resolve"}
Deciding == {"announce", "waiting", "picked"}
Decided == {"unannounce", "select", "publish", "stream", "group"}

(* An upload is there until the torrent client has tried to open it.       *)
UploadInv(g) ==
  /\ pc[g] \in {"none", "engine"} => eng[g] = "none"
  /\ eng[g] # "none" /\ pc[g] # "open" => source[g] # "uploaded"

Several(g) == \E i, j \in loc[g].videos : i # j
Only(g) == \E i \in Video : loc[g].videos = {i}

(* A choice is one of the videos offered, from the moment it is in the     *)
(* channel; once it is made it stays, and nothing is offered any more.     *)
ChoiceInv(g) ==
  /\ sess[g].files \subseteq loc[g].videos
  /\ sess[g].selectCh # None =>
       sess[g].selectCh \in loc[g].videos /\ acked[g] # None
  /\ pc[g] \in Undecided => sess[g].files = {} /\ sess[g].selectCh = None
  /\ pc[g] \in Deciding => sess[g].files = loc[g].videos /\ Several(g)
  /\ pc[g] = "picked" => loc[g].index \in loc[g].videos /\ acked[g] # None
  /\ pc[g] \in Decided \/ grp[g] # IdleGroup =>
       /\ loc[g].index \in loc[g].videos
       /\ sess[g].fileName = loc[g].index
       /\ sess[g].files = {}
       /\ Only(g) \/ acked[g] # None

(* The torrent's name and the URL are published before they are needed.    *)
ShownInv(g) ==
  /\ pc[g] \in Deciding \cup Decided \cup {"resolve"} \/ grp[g] # IdleGroup =>
       sess[g].torrent
  /\ pc[g] \in {"stream", "group"} \/ grp[g] # IdleGroup => sess[g].streamURL

(* The media server listens until the group's context is done, which it is *)
(* when any of the group's goroutines that matter to it has returned.      *)
ServeInv(g) ==
  /\ pc[g] \in {"publish", "stream"} => lis[g] = "open"
  /\ grp[g].serve = "running" /\ grp[g].closer = "running" => lis[g] = "open"
  /\ grp[g].serve = "idle" <=> grp[g].closer = "idle"
  /\ grp[g].serve = "returned" \/ grp[g].closer = "returned" => GroupCtxDone(g)

(* The manager's own variables: a stream is announced with its group.      *)
StateInv ==
  /\ err <=> state = "error"
  /\ state = "streaming" => cur # 0 /\ grp[cur] # IdleGroup

SInv ==
  /\ \A g \in Gens : UploadInv(g) /\ ChoiceInv(g) /\ ShownInv(g) /\ ServeInv(g)
  /\ StateInv

----------------------------------------------------------------------------
(* Whose steps matter to a session *)

Frame(g) ==
  /\ UNCHANGED <<pc[g], loc[g], sess[g], eng[g], lis[g], source[g], grp[g], acked[g]>>
  /\ g \in cancelled => g \in cancelled'
  /\ procDone => procDone'

(* A session's variables are changed by its own goroutines, by the Start   *)
(* that begins it, and by a Select while it is current: by nothing else.   *)
LEMMA Ownership ==
  ASSUME IInv, Next, NEW g \in Gens
  PROVE  \/ Session(g)
         \/ g = gen + 1 /\ \E upload \in BOOLEAN : Start(upload)
         \/ g = cur /\ \E i \in Index : Select(i)
         \/ Frame(g)
<1> USE DEF Frame, mgrVars, resVars, ctxVars, histVars, Goto, Outcome
<1> TypeOK
  BY DEF IInv
<1>1. ASSUME NEW upload \in BOOLEAN, Start(upload), g # gen + 1 PROVE Frame(g)
  BY <1>1 DEF Start, TypeOK
<1>2. ASSUME NEW i \in Index, Select(i), g # cur PROVE Frame(g)
  BY <1>2 DEF Select, TypeOK
<1>3. ASSUME NEW c \in Callers, Caller(c) PROVE Frame(g)
  BY <1>3 DEF Caller, StopBegin, StopCancel, StopDone, StopTimeout, StopReturn
<1>4. ASSUME Interrupt PROVE Frame(g)
  BY <1>4 DEF Interrupt
<1>5. ASSUME NEW h \in Gens, Session(h), h # g PROVE Frame(g)
  <2> USE DEF TypeOK
  <2>1. CASE NewEngine(h) \/ NewEngineFails(h) \/ Opened(h) \/ OpenFails(h)
    BY <2>1, <1>5 DEF NewEngine, NewEngineFails, Opened, OpenFails
  <2>2. CASE ResolveNone(h) \/ \E i \in Video : ResolveOne(h, i)
    BY <2>2, <1>5 DEF ResolveNone, ResolveOne
  <2>3. CASE \E videos \in SUBSET Video : ResolveMany(h, videos)
    BY <2>3, <1>5 DEF ResolveMany
  <2>4. CASE AnnounceSelecting(h) \/ ReceiveChoice(h) \/ CancelWait(h)
    BY <2>4, <1>5 DEF AnnounceSelecting, ReceiveChoice, CancelWait
  <2>5. CASE RecordChoice(h) \/ AnnouncePreparing(h)
    BY <2>5, <1>5 DEF RecordChoice, Chosen, AnnouncePreparing
  <2>6. CASE Listen(h) \/ ListenFails(h) \/ PublishURL(h) \/ AnnounceStreaming(h)
    BY <2>6, <1>5 DEF Listen, ListenFails, PublishURL, AnnounceStreaming
  <2>7. CASE ServeFails(h) \/ ServeReturns(h) \/ CloseServer(h)
    BY <2>7, <1>5 DEF ServeFails, ServeReturns, CloseServer
  <2>8. CASE (\E failed \in BOOLEAN : BackendReturns(h, failed)) \/ GroupWait(h)
    BY <2>8, <1>5 DEF BackendReturns, GroupWait
  <2>9. CASE CloseEngine(h) \/ Finish(h) \/ Retire(h)
    BY <2>9, <1>5 DEF CloseEngine, Finish, Retire
  <2> HIDE DEF TypeOK, Frame
  <2> QED
    BY <1>5, <2>1, <2>2, <2>3, <2>4, <2>5, <2>6, <2>7, <2>8, <2>9
      DEF Session, Prepare, Group
<1> HIDE DEF Frame
<1> QED
  BY <1>1, <1>2, <1>3, <1>4, <1>5 DEF Next

----------------------------------------------------------------------------
(* The invariants are inductive *)

(* Open removes an upload whether it succeeds or fails.                    *)
LEMMA UploadStep ==
  ASSUME IInv, Next, NEW g \in Gens, UploadInv(g)
  PROVE  UploadInv(g)'
<1> USE DEF UploadInv, Goto, resVars
<1> TypeOK /\ SessionInv(g)
  BY DEF IInv
<1>1. ASSUME NEW upload \in BOOLEAN, Start(upload), g = gen + 1 PROVE UploadInv(g)'
  BY <1>1 DEF Start, TypeOK, SessionInv, Gens
<1>2. ASSUME NEW i \in Index, Select(i) PROVE UploadInv(g)'
  BY <1>2 DEF Select
<1>3. CASE Frame(g)
  BY <1>3 DEF Frame
<1>4. CASE NewEngine(g) \/ NewEngineFails(g)
  BY <1>4 DEF NewEngine, NewEngineFails, TypeOK
<1>5. CASE Opened(g) \/ OpenFails(g)
  BY <1>5 DEF Opened, OpenFails, SourceAfterOpen, TypeOK
<1>6. CASE ResolveNone(g) \/ (\E i \in Video : ResolveOne(g, i))
             \/ \E videos \in SUBSET Video : ResolveMany(g, videos)
  BY <1>6 DEF ResolveNone, ResolveOne, ResolveMany, TypeOK
<1>7. CASE AnnounceSelecting(g) \/ ReceiveChoice(g) \/ CancelWait(g)
             \/ RecordChoice(g) \/ AnnouncePreparing(g)
  BY <1>7 DEF AnnounceSelecting, ReceiveChoice, CancelWait, RecordChoice,
    AnnouncePreparing, TypeOK
<1>8. CASE Listen(g) \/ ListenFails(g) \/ PublishURL(g) \/ AnnounceStreaming(g)
  BY <1>8 DEF Listen, ListenFails, PublishURL, AnnounceStreaming, TypeOK
<1>9. CASE Group(g)
  BY <1>9 DEF Group, ServeFails, ServeReturns, CloseServer, BackendReturns,
    GroupWait, TypeOK
<1>10. CASE CloseEngine(g) \/ Finish(g) \/ Retire(g)
  BY <1>10 DEF CloseEngine, Finish, Retire, TypeOK, SessionInv, EnginePCs
<1> HIDE DEF UploadInv
<1> QED
  BY <1>1, <1>2, <1>3, <1>4, <1>5, <1>6, <1>7, <1>8, <1>9, <1>10, Ownership
    DEF Session, Prepare

(* Only what is offered can be chosen, and only what is in the channel     *)
(* becomes the choice (Select, resolveFile).                               *)
LEMMA ChoiceStep ==
  ASSUME IInv, Next, NEW g \in Gens, ChoiceInv(g)
  PROVE  ChoiceInv(g)'
<1> USE DEF ChoiceInv, Undecided, Deciding, Decided, Several, Only, Goto
<1>1. TypeOK /\ GroupInv(g) /\ SessionInv(g)
  BY DEF IInv
<1>2. sess \in [Gens -> SessionRec] /\ loc \in [Gens -> LocalRec]
      /\ pc \in [Gens -> PCs] /\ acked \in [Gens -> MaybeIndex]
      /\ grp \in [Gens -> GroupRec]
  BY <1>1 DEF TypeOK
<1>3. sess[g] \in SessionRec /\ loc[g] \in LocalRec
  BY <1>2
<1>4. pc[g] \in {"none", "engine", "open", "resolve", "announce", "waiting",
                 "picked", "unannounce", "select", "publish", "stream"}
        => grp[g] = IdleGroup
  BY <1>1 DEF GroupInv
<1>5. ASSUME NEW upload \in BOOLEAN, Start(upload), g = gen + 1 PROVE ChoiceInv(g)'
  <2>1. pc[g] = "none"
    BY <1>1, <1>5 DEF SessionInv, TypeOK, Gens
  <2>2. pc'[g] = "engine"
    BY <1>2, <1>5 DEF Start
  <2>3. UNCHANGED <<sess, loc, grp, acked>>
    BY <1>5 DEF Start, histVars
  <2> QED
    BY <1>4, <2>1, <2>2, <2>3
<1>6. ASSUME NEW i \in Index, Select(i), g = cur PROVE ChoiceInv(g)'
  <2>1. UNCHANGED <<pc, loc, grp>>
    BY <1>6 DEF Select
  <2>2. acked'[g] = i /\ i # None
    BY <1>2, <1>6, ManagerAssumption DEF Select
  <2>3. i \in sess[g].files
    BY <1>6 DEF Select, Offered
  <2>4. sess'[g] = [sess[g] EXCEPT !.selectCh = i]
    BY <1>2, <1>6 DEF Select
  <2>5. /\ sess'[g].files = sess[g].files /\ sess'[g].fileName = sess[g].fileName
        /\ sess'[g].selectCh = i
    BY <1>3, <2>4 DEF SessionRec
  <2> QED
    BY <2>1, <2>2, <2>3, <2>5
<1>7. CASE Frame(g)
  BY <1>7 DEF Frame
<1>8. ASSUME UNCHANGED <<sess[g], loc[g].videos, loc[g].index, grp[g], acked[g]>>,
             \/ pc[g] \in {"none", "engine", "open"} /\ pc'[g] \in Undecided
             \/ pc'[g] \in {"close", "finish", "retire", "over"}
             \/ pc[g] = "announce" /\ pc'[g] = "waiting"
             \/ pc[g] \in Decided /\ pc'[g] \in Decided
      PROVE  ChoiceInv(g)'
  BY <1>8, <1>4
<1>9. CASE NewEngine(g) \/ NewEngineFails(g) \/ OpenFails(g) \/ ResolveNone(g)
           \/ CancelWait(g) \/ ListenFails(g)
  <2>1. UNCHANGED <<sess, grp, acked>>
    BY <1>9 DEF NewEngine, NewEngineFails, OpenFails, ResolveNone, CancelWait,
      ListenFails, histVars
  <2>2. UNCHANGED <<loc[g].videos, loc[g].index>>
    BY <1>2, <1>3, <1>9 DEF NewEngine, NewEngineFails, OpenFails, ResolveNone,
      CancelWait, ListenFails, Outcome, LocalRec
  <2>3. \/ pc[g] \in {"none", "engine", "open"} /\ pc'[g] \in Undecided
        \/ pc'[g] \in {"close", "finish"}
    BY <1>2, <1>9 DEF NewEngine, NewEngineFails, OpenFails, ResolveNone,
      CancelWait, ListenFails
  <2> QED
    BY <1>8, <2>1, <2>2, <2>3
<1>10. CASE Opened(g)
  <2>1. UNCHANGED <<loc, grp, acked>> /\ pc[g] = "open" /\ pc'[g] = "resolve"
    BY <1>2, <1>10 DEF Opened, histVars
  <2>2. sess'[g].files = sess[g].files /\ sess'[g].selectCh = sess[g].selectCh
    BY <1>2, <1>3, <1>10 DEF Opened, SessionRec
  <2> QED
    BY <1>4, <2>1, <2>2
<1>11. ASSUME NEW i \in Video, ResolveOne(g, i) PROVE ChoiceInv(g)'
  <2>1. UNCHANGED <<grp, acked>> /\ pc[g] = "resolve" /\ pc'[g] = "select"
    BY <1>2, <1>11 DEF ResolveOne, histVars
  <2>2. /\ sess'[g].files = sess[g].files /\ sess'[g].selectCh = sess[g].selectCh
        /\ sess'[g].fileName = i
    BY <1>2, <1>3, <1>11 DEF ResolveOne, SessionRec
  <2>3. loc'[g].videos = {i} /\ loc'[g].index = i
    BY <1>2, <1>3, <1>11 DEF ResolveOne, LocalRec
  <2> QED
    BY <2>1, <2>2, <2>3
<1>12. ASSUME NEW videos \in SUBSET Video, ResolveMany(g, videos)
       PROVE  ChoiceInv(g)'
  <2>1. UNCHANGED <<grp, acked>> /\ pc[g] = "resolve" /\ pc'[g] = "announce"
    BY <1>2, <1>12 DEF ResolveMany, histVars
  <2>2. sess'[g].files = videos /\ sess'[g].selectCh = sess[g].selectCh
    BY <1>2, <1>3, <1>12 DEF ResolveMany, SessionRec
  <2>3. loc'[g].videos = videos /\ \E i, j \in videos : i # j
    BY <1>2, <1>3, <1>12 DEF ResolveMany, LocalRec
  <2> QED
    BY <1>4, <2>1, <2>2, <2>3
<1>13. CASE AnnounceSelecting(g)
  BY <1>2, <1>8, <1>13 DEF AnnounceSelecting, histVars
<1>14. CASE ReceiveChoice(g)
  <2>1. UNCHANGED <<grp, acked>> /\ pc[g] = "waiting" /\ pc'[g] = "picked"
    BY <1>2, <1>14 DEF ReceiveChoice, histVars
  <2>2. /\ sess'[g].files = sess[g].files /\ sess'[g].selectCh = None
        /\ sess[g].selectCh # None
    BY <1>2, <1>3, <1>14 DEF ReceiveChoice, SessionRec
  <2>3. loc'[g].videos = loc[g].videos /\ loc'[g].index = sess[g].selectCh
    BY <1>2, <1>3, <1>14 DEF ReceiveChoice, LocalRec
  <2> QED
    BY <1>4, <2>1, <2>2, <2>3
<1>15. CASE RecordChoice(g)
  <2>1. UNCHANGED <<loc, grp, acked>> /\ pc[g] = "picked" /\ pc'[g] = "unannounce"
    BY <1>2, <1>15 DEF RecordChoice, histVars
  <2>2. sess'[g] = [sess[g] EXCEPT !.fileName = loc[g].index, !.files = {}]
    BY <1>2, <1>15, <2>1 DEF RecordChoice, Chosen
  <2>3. /\ sess'[g].files = {} /\ sess'[g].selectCh = sess[g].selectCh
        /\ sess'[g].fileName = loc[g].index
    BY <1>3, <2>2 DEF SessionRec
  <2> QED
    BY <2>1, <2>3
<1>16. CASE AnnouncePreparing(g) \/ Listen(g)
  BY <1>2, <1>8, <1>16 DEF AnnouncePreparing, Listen, histVars
<1>17. CASE PublishURL(g)
  <2>1. UNCHANGED <<loc, grp, acked>> /\ pc[g] = "publish" /\ pc'[g] = "stream"
    BY <1>2, <1>17 DEF PublishURL, histVars
  <2>2. /\ sess'[g].files = sess[g].files /\ sess'[g].selectCh = sess[g].selectCh
        /\ sess'[g].fileName = sess[g].fileName
    BY <1>2, <1>3, <1>17 DEF PublishURL, SessionRec
  <2> QED
    BY <2>1, <2>2
<1>18. CASE AnnounceStreaming(g)
  BY <1>2, <1>18 DEF AnnounceStreaming, histVars
<1>19. CASE ServeFails(g) \/ ServeReturns(g) \/ CloseServer(g)
            \/ \E failed \in BOOLEAN : BackendReturns(g, failed)
  <2>1. UNCHANGED <<pc, sess, loc, acked>>
    BY <1>19 DEF ServeFails, ServeReturns, CloseServer, BackendReturns, histVars
  <2>2. grp[g] # IdleGroup
    BY <1>19 DEF ServeFails, ServeReturns, CloseServer, BackendReturns, IdleGroup
  <2> QED
    BY <2>1, <2>2
<1>20. CASE GroupWait(g)
  <2>1. UNCHANGED <<sess, grp, acked>> /\ pc'[g] = "close"
    BY <1>2, <1>20 DEF GroupWait, histVars
  <2>2. UNCHANGED <<loc[g].videos, loc[g].index>>
    BY <1>2, <1>3, <1>20 DEF GroupWait, Outcome, LocalRec
  <2> QED
    BY <1>8, <2>1, <2>2
<1>21. CASE CloseEngine(g) \/ Finish(g) \/ Retire(g)
  BY <1>2, <1>8, <1>21 DEF CloseEngine, Finish, Retire, histVars
<1> HIDE DEF ChoiceInv
<1> QED
  BY <1>5, <1>6, <1>7, <1>9, <1>10, <1>11, <1>12, <1>13, <1>14, <1>15, <1>16,
     <1>17, <1>18, <1>19, <1>20, <1>21, Ownership
    DEF Session, Prepare, Group

(* What has been published stays so (Status reads the session struct).     *)
LEMMA ShownStep ==
  ASSUME IInv, Next, NEW g \in Gens, ShownInv(g)
  PROVE  ShownInv(g)'
<1> USE DEF ShownInv, Deciding, Decided, Goto
<1>1. TypeOK /\ GroupInv(g) /\ SessionInv(g)
  BY DEF IInv
<1>2. sess \in [Gens -> SessionRec] /\ pc \in [Gens -> PCs]
  BY <1>1 DEF TypeOK
<1>3. sess[g] \in SessionRec
  BY <1>2
<1>4. pc[g] \in {"none", "engine", "open", "resolve", "announce", "waiting",
                 "picked", "unannounce", "select", "publish", "stream"}
        => grp[g] = IdleGroup
  BY <1>1 DEF GroupInv
<1>5. ASSUME NEW upload \in BOOLEAN, Start(upload), g = gen + 1 PROVE ShownInv(g)'
  <2>1. pc[g] = "none"
    BY <1>1, <1>5 DEF SessionInv, TypeOK, Gens
  <2>2. pc'[g] = "engine" /\ UNCHANGED <<sess, grp>>
    BY <1>2, <1>5 DEF Start
  <2> QED
    BY <1>4, <2>1, <2>2
<1>6. ASSUME NEW i \in Index, Select(i), g = cur PROVE ShownInv(g)'
  <2>1. UNCHANGED <<pc, grp>>
    BY <1>6 DEF Select
  <2>2. sess'[g] = [sess[g] EXCEPT !.selectCh = i]
    BY <1>2, <1>6 DEF Select
  <2>3. UNCHANGED <<sess[g].torrent, sess[g].streamURL>>
    BY <1>3, <2>2 DEF SessionRec
  <2> QED
    BY <2>1, <2>3
<1>7. CASE Frame(g)
  BY <1>7 DEF Frame
<1>8. ASSUME UNCHANGED <<sess[g].torrent, sess[g].streamURL, grp[g]>>,
             \/ pc'[g] \in {"open", "close", "finish", "retire", "over"}
             \/ pc[g] \in Deciding /\ pc'[g] \in {"waiting", "picked", "unannounce"}
             \/ pc[g] \in Decided /\ pc'[g] \in {"select", "publish"}
             \/ pc[g] = "resolve" /\ pc'[g] \in {"announce", "select"}
      PROVE  ShownInv(g)'
  BY <1>8, <1>4
<1>9. CASE NewEngine(g) \/ NewEngineFails(g) \/ OpenFails(g) \/ ResolveNone(g)
           \/ AnnounceSelecting(g) \/ CancelWait(g) \/ AnnouncePreparing(g)
           \/ Listen(g) \/ ListenFails(g)
  BY <1>2, <1>8, <1>9 DEF NewEngine, NewEngineFails, OpenFails, ResolveNone,
    AnnounceSelecting, CancelWait, AnnouncePreparing, Listen, ListenFails
<1>10. CASE Opened(g)
  <2>1. UNCHANGED grp /\ pc[g] = "open" /\ pc'[g] = "resolve"
    BY <1>2, <1>10 DEF Opened
  <2>2. sess'[g].torrent
    BY <1>2, <1>3, <1>10 DEF Opened, SessionRec
  <2> QED
    BY <1>4, <2>1, <2>2
<1>11. CASE \/ \E i \in Video : ResolveOne(g, i)
            \/ \E videos \in SUBSET Video : ResolveMany(g, videos)
  <2>1. UNCHANGED grp /\ pc[g] = "resolve" /\ pc'[g] \in {"announce", "select"}
    BY <1>2, <1>11 DEF ResolveOne, ResolveMany
  <2>2. UNCHANGED <<sess[g].torrent, sess[g].streamURL>>
    <3>1. CASE \E i \in Video : ResolveOne(g, i)
      BY <1>2, <1>3, <3>1 DEF ResolveOne, SessionRec
    <3>2. CASE \E videos \in SUBSET Video : ResolveMany(g, videos)
      BY <1>2, <1>3, <3>2 DEF ResolveMany, SessionRec
    <3> QED
      BY <1>11, <3>1, <3>2
  <2> QED
    BY <1>8, <2>1, <2>2
<1>12. CASE ReceiveChoice(g) \/ RecordChoice(g)
  <2>1. UNCHANGED grp /\ pc[g] \in Deciding /\ pc'[g] \in {"picked", "unannounce"}
    BY <1>2, <1>12 DEF ReceiveChoice, RecordChoice
  <2>2. UNCHANGED <<sess[g].torrent, sess[g].streamURL>>
    BY <1>2, <1>3, <1>12 DEF ReceiveChoice, RecordChoice, Chosen, SessionRec
  <2> QED
    BY <1>8, <2>1, <2>2
<1>13. CASE PublishURL(g)
  <2>1. UNCHANGED grp /\ pc[g] = "publish"
    BY <1>13 DEF PublishURL
  <2>2. sess'[g].streamURL /\ sess'[g].torrent = sess[g].torrent
    BY <1>2, <1>3, <1>13 DEF PublishURL, SessionRec
  <2> QED
    BY <2>1, <2>2
<1>14. CASE AnnounceStreaming(g)
  BY <1>14 DEF AnnounceStreaming
<1>15. CASE ServeFails(g) \/ ServeReturns(g) \/ CloseServer(g)
            \/ \E failed \in BOOLEAN : BackendReturns(g, failed)
  BY <1>15 DEF ServeFails, ServeReturns, CloseServer, BackendReturns, IdleGroup
<1>16. CASE GroupWait(g) \/ CloseEngine(g) \/ Finish(g) \/ Retire(g)
  BY <1>2, <1>8, <1>16 DEF GroupWait, CloseEngine, Finish, Retire
<1> HIDE DEF ShownInv
<1> QED
  BY <1>5, <1>6, <1>7, <1>9, <1>10, <1>11, <1>12, <1>13, <1>14, <1>15, <1>16,
     Ownership
    DEF Session, Prepare, Group

(* A server that was not told to stop goes on listening (streamFile).      *)
LEMMA ServeStep ==
  ASSUME IInv, Next, NEW g \in Gens, ServeInv(g)
  PROVE  ServeInv(g)'
<1> USE DEF ServeInv, GroupCtxDone, CtxDone, Goto, resVars, ctxVars
<1>1. TypeOK /\ GroupInv(g) /\ SessionInv(g)
  BY DEF IInv
<1>2. /\ pc \in [Gens -> PCs] /\ grp \in [Gens -> GroupRec]
      /\ lis \in [Gens -> {"none", "open", "closed"}]
  BY <1>1 DEF TypeOK
<1>3. grp[g] \in GroupRec
  BY <1>2
<1>4. pc[g] \in {"none", "engine", "open", "resolve", "announce", "waiting",
                 "picked", "unannounce", "select", "publish", "stream"}
        => grp[g] = IdleGroup
  BY <1>1 DEF GroupInv
<1>5. ASSUME NEW upload \in BOOLEAN, Start(upload) PROVE ServeInv(g)'
  <2>1. UNCHANGED <<lis, grp, ctxVars>>
    BY <1>5 DEF Start
  <2>2. pc'[g] \in {"publish", "stream"} => pc'[g] = pc[g]
    BY <1>1, <1>2, <1>5 DEF Start, TypeOK, Gens
  <2> QED
    BY <2>1, <2>2
<1>6. ASSUME NEW i \in Index, Select(i) PROVE ServeInv(g)'
  BY <1>6 DEF Select
<1>7. CASE Frame(g)
  BY <1>7 DEF Frame
<1>8. ASSUME UNCHANGED <<lis, grp, ctxVars>>,
             \/ pc'[g] \notin {"publish", "stream"}
             \/ pc[g] = "publish"
      PROVE  ServeInv(g)'
  BY <1>8
<1>9. CASE NewEngine(g) \/ NewEngineFails(g) \/ Opened(g) \/ OpenFails(g)
           \/ ResolveNone(g) \/ (\E i \in Video : ResolveOne(g, i))
           \/ \E videos \in SUBSET Video : ResolveMany(g, videos)
  BY <1>2, <1>8, <1>9 DEF NewEngine, NewEngineFails, Opened, OpenFails,
    ResolveNone, ResolveOne, ResolveMany
<1>10. CASE AnnounceSelecting(g) \/ ReceiveChoice(g) \/ CancelWait(g)
            \/ RecordChoice(g) \/ AnnouncePreparing(g) \/ ListenFails(g)
            \/ PublishURL(g)
  BY <1>2, <1>8, <1>10 DEF AnnounceSelecting, ReceiveChoice, CancelWait,
    RecordChoice, AnnouncePreparing, ListenFails, PublishURL
<1>11. CASE Listen(g)
  BY <1>2, <1>11 DEF Listen
<1>12. CASE AnnounceStreaming(g)
  BY <1>2, <1>12 DEF AnnounceStreaming
<1>13. CASE ServeFails(g)
  <2>1. /\ grp'[g].serve = "returned" /\ grp'[g].closer = "running"
        /\ grp'[g].failed
    BY <1>2, <1>3, <1>13 DEF ServeFails, GroupRec
  <2>2. pc[g] \notin {"publish", "stream"} /\ pc' = pc
    BY <1>4, <1>13 DEF ServeFails, IdleGroup
  <2> QED
    BY <2>1, <2>2
<1>14. CASE ServeReturns(g)
  <2>1. /\ grp'[g].serve = "returned" /\ grp'[g].closer = "returned"
        /\ grp'[g].failed = grp[g].failed /\ grp[g].closer = "returned"
    BY <1>2, <1>3, <1>14 DEF ServeReturns, GroupRec
  <2>2. pc[g] \notin {"publish", "stream"} /\ pc' = pc /\ UNCHANGED ctxVars
    BY <1>4, <1>14 DEF ServeReturns, IdleGroup
  <2> QED
    BY <2>1, <2>2
<1>15. CASE CloseServer(g)
  <2>1. PICK failed \in BOOLEAN :
          grp' = [grp EXCEPT ![g].closer = "returned", ![g].failed = @ \/ failed]
    BY <1>15 DEF CloseServer
  <2>2. /\ grp'[g].serve = grp[g].serve /\ grp'[g].closer = "returned"
        /\ grp'[g].failed = (grp[g].failed \/ failed)
    BY <1>2, <1>3, <2>1 DEF GroupRec
  <2>3. grp[g].closer = "running" /\ GroupCtxDone(g) /\ UNCHANGED <<pc, ctxVars>>
    BY <1>15 DEF CloseServer
  <2>4. pc[g] \notin {"publish", "stream"}
    BY <1>4, <2>3 DEF IdleGroup
  <2> QED
    BY <2>2, <2>3, <2>4
<1>16. ASSUME NEW failed \in BOOLEAN, BackendReturns(g, failed)
       PROVE  ServeInv(g)'
  <2>1. /\ grp'[g].serve = grp[g].serve /\ grp'[g].closer = grp[g].closer
        /\ grp'[g].failed = (grp[g].failed \/ failed)
    BY <1>2, <1>3, <1>16 DEF BackendReturns, GroupRec
  <2>2. g \in cancelled' /\ UNCHANGED <<pc, lis>>
    BY <1>16 DEF BackendReturns
  <2> QED
    BY <2>1, <2>2
<1>17. CASE GroupWait(g) \/ CloseEngine(g) \/ Finish(g)
  BY <1>2, <1>8, <1>17 DEF GroupWait, CloseEngine, Finish
<1>18. CASE Retire(g)
  BY <1>2, <1>18 DEF Retire
<1> HIDE DEF ServeInv
<1> QED
  BY <1>5, <1>6, <1>7, <1>9, <1>10, <1>11, <1>12, <1>13, <1>14, <1>15, <1>16,
     <1>17, <1>18, Ownership
    DEF Session, Prepare, Group

(* No step but that of the current session announces anything, and it      *)
(* announces a stream and starts its group at once.                        *)
LEMMA StateStep ==
  ASSUME IInv, Next, StateInv
  PROVE  StateInv'
<1> USE DEF StateInv, SetState, Ended, Goto, mgrVars
<1>1. TypeOK /\ \A g \in Gens : SessionInv(g) /\ GroupInv(g)
  BY DEF IInv
<1>2. cur # 0 => cur \in Gens
  BY <1>1 DEF TypeOK, Gens
<1>3. ASSUME NEW upload \in BOOLEAN, Start(upload) PROVE StateInv'
  BY <1>3 DEF Start
<1>4. ASSUME UNCHANGED <<mgrVars, grp>> PROVE StateInv'
  BY <1>4
<1>5. ASSUME NEW i \in Index, Select(i) PROVE StateInv'
  BY <1>4, <1>5 DEF Select
<1>6. ASSUME NEW c \in Callers, Caller(c) PROVE StateInv'
  BY <1>4, <1>6 DEF Caller, StopBegin, StopCancel, StopDone, StopTimeout,
    StopReturn
<1>7. CASE Interrupt
  BY <1>4, <1>7 DEF Interrupt
<1>8. ASSUME NEW g \in Gens, Session(g) PROVE StateInv'
  <2>1. CASE NewEngine(g) \/ NewEngineFails(g) \/ Opened(g) \/ OpenFails(g)
             \/ ResolveNone(g) \/ (\E i \in Video : ResolveOne(g, i))
             \/ \E videos \in SUBSET Video : ResolveMany(g, videos)
    BY <1>4, <2>1 DEF NewEngine, NewEngineFails, Opened, OpenFails, ResolveNone,
      ResolveOne, ResolveMany
  <2>2. CASE ReceiveChoice(g) \/ CancelWait(g) \/ RecordChoice(g) \/ Listen(g)
             \/ ListenFails(g) \/ PublishURL(g)
    BY <1>4, <2>2 DEF ReceiveChoice, CancelWait, RecordChoice, Listen,
      ListenFails, PublishURL
  <2>3. CASE GroupWait(g) \/ CloseEngine(g) \/ Retire(g)
    BY <1>4, <2>3 DEF GroupWait, CloseEngine, Retire
  <2>4. CASE AnnounceSelecting(g) \/ AnnouncePreparing(g)
    BY <2>4 DEF AnnounceSelecting, AnnouncePreparing
  <2>5. CASE AnnounceStreaming(g)
    <3>1. grp'[g] # IdleGroup
      BY <1>1, <2>5 DEF AnnounceStreaming, TypeOK, IdleGroup
    <3>2. cur = g /\ cur # 0
      BY <1>1, <2>5 DEF AnnounceStreaming, SessionInv, Live, EnginePCs, Gens
    <3> QED
      BY <2>5, <3>1, <3>2 DEF AnnounceStreaming
  <2>6. CASE ServeFails(g) \/ ServeReturns(g) \/ CloseServer(g)
             \/ \E failed \in BOOLEAN : BackendReturns(g, failed)
    <3>1. UNCHANGED mgrVars
      BY <2>6 DEF ServeFails, ServeReturns, CloseServer, BackendReturns
    <3>2. ASSUME NEW h \in Gens, grp[h] # IdleGroup PROVE grp'[h] # IdleGroup
      <4>1. CASE h # g
        BY <1>1, <2>6, <3>2, <4>1 DEF ServeFails, ServeReturns, CloseServer,
          BackendReturns, TypeOK
      <4>2. CASE h = g
        <5>1. grp \in [Gens -> GroupRec] /\ grp[g] \in GroupRec
          BY <1>1 DEF TypeOK
        <5>2. \/ grp'[g].serve = "returned"
              \/ grp'[g].closer = "returned"
              \/ grp'[g].backend = "returned"
          BY <2>6, <5>1 DEF ServeFails, ServeReturns, CloseServer,
            BackendReturns, GroupRec
        <5> QED
          BY <4>2, <5>2 DEF IdleGroup
      <4> QED
        BY <4>1, <4>2
    <3> QED
      BY <1>2, <3>1, <3>2
  <2>7. CASE Finish(g)
    <3>1. cur = g
      BY <1>1, <2>7 DEF Finish, SessionInv, Live
    <3> QED
      BY <2>7, <3>1 DEF Finish
  <2> HIDE DEF StateInv
  <2> QED
    BY <1>8, <2>1, <2>2, <2>3, <2>4, <2>5, <2>6, <2>7 DEF Session, Prepare, Group
<1> HIDE DEF StateInv
<1> QED
  BY <1>3, <1>5, <1>6, <1>7, <1>8 DEF Next

(* Beside the first invariant, what each session has established and what  *)
(* is announced of it is invariant too.                                    *)
LEMMA StatusInductive == Spec => [](IInv /\ SInv)
<1>1. Init => SInv
  <2> SUFFICES ASSUME Init PROVE SInv
    OBVIOUS
  <2>1. ASSUME NEW g \in Gens
        PROVE  UploadInv(g) /\ ChoiceInv(g) /\ ShownInv(g) /\ ServeInv(g)
    BY DEF Init, UploadInv, ChoiceInv, ShownInv, ServeInv, NewSession, IdleGroup,
      Deciding, Decided
  <2>2. StateInv
    BY DEF Init, StateInv
  <2> QED
    BY <2>1, <2>2 DEF SInv
<1>2. IInv /\ SInv /\ [Next]_vars => SInv'
  <2> SUFFICES ASSUME IInv, SInv, [Next]_vars PROVE SInv'
    OBVIOUS
  <2>1. CASE Next
    <3>1. ASSUME NEW g \in Gens
          PROVE  UploadInv(g)' /\ ChoiceInv(g)' /\ ShownInv(g)' /\ ServeInv(g)'
      BY <2>1, UploadStep, ChoiceStep, ShownStep, ServeStep DEF SInv
    <3>2. StateInv'
      BY <2>1, StateStep DEF SInv
    <3>3. Gens' = Gens
      BY DEF Gens
    <3> QED
      BY <3>1, <3>2, <3>3 DEF SInv
  <2>2. CASE UNCHANGED vars
    BY <2>2 DEF SInv, vars, mgrVars, resVars, ctxVars, histVars, UploadInv,
      ChoiceInv, ShownInv, ServeInv, StateInv, Several, Only, GroupCtxDone,
      CtxDone
  <2> QED
    BY <2>1, <2>2
<1> QED
  BY <1>1, <1>2, Inductive, PTL DEF Spec

----------------------------------------------------------------------------
(* What follows from it *)

(* A set with two elements counts as several.                              *)
LEMMA TwoAreSeveral ==
  ASSUME NEW videos \in SUBSET Video, \E i, j \in videos : i # j
  PROVE  Cardinality(videos) > 1
<1>1. IsFiniteSet(videos)
  BY FS_Subset, ManagerAssumption
<1>2. PICK i, j \in videos : i # j
  OBVIOUS
<1>3. Cardinality({i}) = 1 /\ IsFiniteSet({i}) /\ {i} \subseteq videos /\ {i} # videos
  BY <1>2, FS_Singleton
<1>4. Cardinality({i}) < Cardinality(videos)
  <2>1. Cardinality({i}) <= Cardinality(videos)
    BY <1>1, <1>3, FS_Subset
  <2>2. Cardinality({i}) # Cardinality(videos)
    BY <1>1, <1>3, FS_Subset
  <2> QED
    BY <1>1, <1>3, <2>1, <2>2, FS_CardinalityType
<1> QED
  BY <1>1, <1>3, <1>4, FS_CardinalityType

(* What the API shows is consistent at every moment: Status.               *)
THEOREM StatusIsTrue == Spec => []StatusIsConsistent
<1>1. IInv /\ SInv => StatusIsConsistent
  <2> SUFFICES ASSUME IInv, SInv PROVE StatusIsConsistent
    OBVIOUS
  <2>1. Status.err <=> state = "error"
    BY DEF SInv, StateInv, Status
  <2>2. ASSUME cur # 0
        PROVE  /\ cur \in Gens /\ sess[cur] \in SessionRec /\ loc[cur] \in LocalRec
               /\ Status.torrent = sess[cur].torrent
               /\ Status.fileName = sess[cur].fileName
               /\ Status.streamURL = sess[cur].streamURL
               /\ Status.files = sess[cur].files
    <3>1. cur \in Gens /\ sess[cur] \in SessionRec /\ loc[cur] \in LocalRec
      BY <2>2 DEF IInv, TypeOK, Gens
    <3> QED
      BY <2>2, <3>1 DEF Status
  <2>3. ASSUME state = "streaming"
        PROVE  /\ Status.torrent /\ Status.fileName # None /\ Status.streamURL
               /\ Status.files = {}
    <3>1. cur # 0 /\ grp[cur] # IdleGroup
      BY <2>3 DEF SInv, StateInv
    <3>2. /\ sess[cur].fileName = loc[cur].index
          /\ loc[cur].index \in loc[cur].videos
          /\ sess[cur].files = {}
          /\ sess[cur].torrent /\ sess[cur].streamURL
      BY <2>2, <3>1 DEF SInv, ChoiceInv, ShownInv
    <3>3. sess[cur].fileName # None
      BY <2>2, <3>1, <3>2, ManagerAssumption DEF LocalRec
    <3> QED
      BY <2>2, <3>1, <3>2, <3>3
  <2>4. ASSUME cur # 0, pc[cur] = "waiting" PROVE Cardinality(Status.files) > 1
    <3>1. sess[cur].files = loc[cur].videos /\ Several(cur)
      BY <2>2, <2>4 DEF SInv, ChoiceInv, Deciding
    <3>2. loc[cur].videos \in SUBSET Video
      BY <2>2, <2>4 DEF LocalRec
    <3> QED
      BY <2>2, <2>4, <3>1, <3>2, TwoAreSeveral DEF Several
  <2> QED
    BY <2>1, <2>3, <2>4 DEF StatusIsConsistent
<1> QED
  BY <1>1, StatusInductive, PTL

(* A stream that is shown, and that nothing has ended, is served: the      *)
(* listener and the torrent client behind its URL are open.                *)
THEOREM ShownMeansServed == Spec => []AdvertisedURLIsServed
<1>1. IInv /\ SInv => AdvertisedURLIsServed
  <2> SUFFICES ASSUME IInv, SInv, state = "streaming", ~GroupCtxDone(cur)
               PROVE  eng[cur] = "open" /\ lis[cur] = "open"
    BY DEF AdvertisedURLIsServed
  <2>1. cur \in Gens /\ grp[cur] # IdleGroup
    BY DEF IInv, TypeOK, SInv, StateInv, Gens
  <2>2. grp[cur].serve # "returned" /\ grp[cur].closer # "returned"
    BY <2>1 DEF SInv, ServeInv
  <2>3. pc[cur] = "group" /\ grp[cur].serve # "idle"
    BY <2>1, <2>2 DEF IInv, GroupInv, GroupReturned
  <2>4. grp[cur].serve = "running" /\ grp[cur].closer = "running"
    <3>1. grp[cur] \in GroupRec
      BY <2>1 DEF IInv, TypeOK
    <3>2. grp[cur].closer # "idle"
      BY <2>1, <2>3 DEF SInv, ServeInv
    <3> QED
      BY <2>2, <2>3, <3>1, <3>2 DEF GroupRec
  <2> QED
    BY <2>1, <2>3, <2>4 DEF SInv, ServeInv, IInv, SessionInv, EnginePCs
<1> QED
  BY <1>1, StatusInductive, PTL

(* What is streamed is one of the session's own videos, and if there are   *)
(* several, one that was asked for: Select, resolveFile.                   *)
THEOREM StreamedMeansChosen == Spec => []StreamedFileWasChosen
<1>1. IInv /\ SInv => StreamedFileWasChosen
  <2> SUFFICES ASSUME IInv, SInv, NEW g \in Gens, grp[g] # IdleGroup
               PROVE  /\ loc[g].index \in loc[g].videos
                      /\ sess[g].fileName = loc[g].index
                      /\ Cardinality(loc[g].videos) > 1 => acked[g] # None
    BY DEF StreamedFileWasChosen
  <2>1. /\ loc[g].index \in loc[g].videos /\ sess[g].fileName = loc[g].index
        /\ Only(g) \/ acked[g] # None
    BY DEF SInv, ChoiceInv
  <2>2. ASSUME Only(g) PROVE ~(Cardinality(loc[g].videos) > 1)
    BY <2>2, FS_Singleton DEF Only
  <2> QED
    BY <2>1, <2>2
<1> QED
  BY <1>1, StatusInductive, PTL

(* An upload does not outlive the torrent client it was opened with:       *)
(* prepareAndStream, removeSource.                                         *)
THEOREM ConsumedMeansRemoved == Spec => []OpenedUploadIsRemoved
<1>1. IInv /\ SInv => OpenedUploadIsRemoved
  <2> SUFFICES ASSUME IInv, SInv, NEW g \in Gens, eng[g] = "closed"
               PROVE  source[g] # "uploaded"
    BY DEF OpenedUploadIsRemoved
  <2>1. pc[g] # "open"
    BY DEF IInv, SessionInv, EnginePCs
  <2> QED
    BY <2>1 DEF SInv, UploadInv
<1> QED
  BY <1>1, StatusInductive, PTL
=============================================================================
