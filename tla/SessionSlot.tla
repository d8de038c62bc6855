---------------------------- MODULE SessionSlot ----------------------------
(***************************************************************************)
(* What the streaming manager promises its users: one slot.  A session     *)
(* takes the free slot under a number never used before, only the session  *)
(* in the slot uses the machine (a torrent client, a media listener), and  *)
(* it gives the slot up only when it uses nothing any more.                *)
(* StreamManager implements this specification.                            *)
(***************************************************************************)
EXTENDS Naturals

CONSTANT MaxGen  \* bound: how many sessions are ever started

VARIABLES
  owner,   \* the session in the slot, 0 when it is free
  issued,  \* how many sessions were started
  using    \* the sessions that hold a torrent client or a listener

slotVars == <<owner, issued, using>>

SlotInit == owner = 0 /\ issued = 0 /\ using = {}

Acquire ==
  /\ owner = 0 /\ issued < MaxGen
  /\ issued' = issued + 1 /\ owner' = issued + 1
  /\ UNCHANGED using

Use ==
  /\ owner # 0
  /\ using = {} /\ using' = {owner}
  /\ UNCHANGED <<owner, issued>>

StopUsing ==
  /\ owner # 0
  /\ using = {owner} /\ using' = {}
  /\ UNCHANGED <<owner, issued>>

Release ==
  /\ owner # 0
  /\ using = {} /\ owner' = 0
  /\ UNCHANGED <<issued, using>>

SlotNext == Acquire \/ Use \/ StopUsing \/ Release

SlotSpec == SlotInit /\ [][SlotNext]_slotVars
=============================================================================
