---------------------------- MODULE WebPageProofs ----------------------------
(***************************************************************************)
(* Theorems about WebPage: the page calls the streaming manager as any     *)
(* caller of its API would, whatever stale state it shows.                 *)
(***************************************************************************)
EXTENDS WebPage, StreamManagerProofs

(* The page's own variables.                                               *)
PageVarsOK ==
  /\ lastState \in States \cup {"loading"}
  /\ choices \in SUBSET Video
  /\ session \in 0 .. MaxGen /\ choicesOf \in 0 .. MaxGen

(* A click on a button that a stale page still shows is a call the manager *)
(* may get at that moment, or one it refuses.                              *)
LEMMA PageStep ==
  ASSUME [PageNext]_allVars
  PROVE  [Next]_vars
<1>1. CASE Poll
  BY <1>1 DEF Poll
<1>2. ASSUME NEW upload \in BOOLEAN, Submit(upload) PROVE Next
  BY <1>2 DEF Submit, Next
<1>3. ASSUME NEW i \in Video, ClickChoice(i) PROVE Next
  BY <1>3, ManagerAssumption DEF ClickChoice, Next
<1>4. ASSUME NEW c \in Callers, ClickStop(c) PROVE Next
  BY <1>4 DEF ClickStop, Next, Caller
<1>5. CASE UNCHANGED allVars
  BY <1>5 DEF allVars
<1> QED
  BY <1>1, <1>2, <1>3, <1>4, <1>5 DEF PageNext, Buttons

(* Every theorem about the manager holds of it under the page: index.html  *)
(* relies on the manager's own checks, and they suffice.                   *)
THEOREM PageDrivesManager == PageSpec => Spec
<1>1. PageInit => Init
  BY DEF PageInit
<1>2. [PageNext]_allVars => [Next]_vars
  BY PageStep
<1> QED
  BY <1>1, <1>2, PTL DEF PageSpec, Spec

(* The page's variables keep their types: it never offers anything but the *)
(* videos of a torrent.                                                    *)
THEOREM PageTypeCorrect == PageSpec => []PageTypeOK
<1>1. PageInit => PageVarsOK
  BY ManagerAssumption DEF PageInit, PageVarsOK
<1>2. TypeOK /\ PageVarsOK /\ [PageNext]_allVars => PageVarsOK'
  <2> SUFFICES ASSUME TypeOK, PageVarsOK, [PageNext]_allVars PROVE PageVarsOK'
    OBVIOUS
  <2>1. CASE Poll
    <3>1. Status.files \in SUBSET Video
      <4>1. CASE cur = 0
        BY <4>1 DEF Status, NewSession
      <4>2. CASE cur # 0
        <5>1. sess[cur] \in SessionRec
          BY <4>2 DEF TypeOK, Gens
        <5> QED
          BY <4>2, <5>1 DEF Status, SessionRec
      <4> QED
        BY <4>1, <4>2
    <3>2. Status.state \in States /\ cur \in 0 .. MaxGen
      BY DEF Status, TypeOK
    <3> QED
      BY <2>1, <3>1, <3>2 DEF Poll, PageVarsOK
  <2>2. CASE UNCHANGED pageVars
    BY <2>2 DEF pageVars, PageVarsOK
  <2> QED
    BY <2>1, <2>2 DEF PageNext, Buttons, Submit, ClickChoice, ClickStop, allVars
<1>3. PageSpec => []TypeOK
  BY PageDrivesManager, TypeCorrect, PTL
<1>4. TypeOK /\ PageVarsOK => PageTypeOK
  BY DEF PageVarsOK, PageTypeOK
<1> QED
  BY <1>1, <1>2, <1>3, <1>4, PTL DEF PageSpec
=============================================================================
