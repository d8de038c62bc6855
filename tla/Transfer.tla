------------------------------ MODULE Transfer ------------------------------
(***************************************************************************)
(* The transfer pane and the piece strip of the dashboard: the refresh of  *)
(* src/internal/tui/model.go, the snapshots of                             *)
(* src/internal/engine/snapshot.go it asks for, and the strip of           *)
(* src/internal/tui/view.go.                                               *)
(*                                                                         *)
(* Every tick starts a command that takes a snapshot in a goroutine of its *)
(* own, so that several may be on their way and arrive in any order.  One  *)
(* counter stands for the bytes read and the bytes sent, which are treated *)
(* alike.  The pieces are the torrent client's: any map may be found.      *)
(***************************************************************************)
EXTENDS Integers, Sequences, FiniteSetsExt

CONSTANTS
  Commands,   \* bound: slots for snapshots on their way
  MaxBytes,   \* bound: what is ever transferred
  MaxClock,   \* bound: the times told apart
  Maps,       \* piece maps: sequences of runs
  Widths      \* widths of the strip, in columns

\* PiecePending to PieceComplete, in the order of snapshot.go.
PieceState == 0 .. 3
Run == [state : PieceState, length : Nat \ {0}]

ASSUME TransferAssumption ==
  /\ MaxBytes \in Nat /\ MaxClock \in Nat \ {0} /\ Commands # {}
  /\ \A map \in Maps : map \in Seq(Run)
  /\ Widths \subseteq Nat

VARIABLES
  bytes, clock,  \* the torrent client's counter, the time
  ticking,       \* a tick is due
  command,       \* by slot: the snapshot being taken
  prev, snap, rate, pieces  \* the model

vars == <<bytes, clock, ticking, command, prev, snap, rate, pieces>>

\* What may have been found by now: of a snapshot, its counter and when it
\* was Taken, 0 for the zero Time.
Snapshot == [read : 0 .. bytes, taken : 0 .. clock]
NoSnapshot == [read |-> 0, taken |-> 0]

Free == [at |-> "free", snap |-> NoSnapshot]

\* A rate, exactly: so many bytes in so much time.  How much a second is
\* plays no part, and how high a rate can be is not bounded by the bytes.
NoRate == [bytes |-> 0, in |-> 1]

\* Snapshots arrive late and out of order, and still the rate shown is that
\* of a transfer: of no fewer than no bytes and no more than the snapshot
\* shown has counted, in some time that has passed.
TypeOK ==
  /\ bytes \in 0 .. MaxBytes /\ clock \in 1 .. MaxClock
  /\ ticking \in BOOLEAN
  /\ command \in [Commands -> [at : {"free", "begun", "counted", "taken"},
                               snap : Snapshot]]
  /\ prev \in Snapshot /\ snap \in Snapshot
  /\ rate \in [bytes : 0 .. snap.read, in : 1 .. clock]
  /\ pieces \in Maps \cup {<<>>}

\* Init asks for a first snapshot and arms the tick.
Init ==
  /\ bytes = 0 /\ clock = 1 /\ ticking = TRUE
  /\ \E c \in Commands :
       command = [d \in Commands |-> IF d = c THEN [Free EXCEPT !.at = "begun"] ELSE Free]
  /\ prev = NoSnapshot /\ snap = NoSnapshot /\ rate = NoRate
  /\ pieces = <<>>

----------------------------------------------------------------------------
(* The refresh *)

Transfers ==
  /\ bytes < MaxBytes /\ bytes' = bytes + 1
  /\ UNCHANGED <<clock, ticking, command, prev, snap, rate, pieces>>

TimePasses ==
  /\ clock < MaxClock /\ clock' = clock + 1
  /\ UNCHANGED <<bytes, ticking, command, prev, snap, rate, pieces>>

\* Variant with a defect: the tick is not armed again.
NotRearmed == FALSE

Rearmed == TRUE

\* tickMsg: another snapshot is asked for, and the next tick armed.
Tick(c) ==
  /\ ticking /\ command[c] = Free
  /\ command' = [command EXCEPT ![c].at = "begun"]
  /\ ticking' = Rearmed
  /\ UNCHANGED <<bytes, clock, prev, snap, rate, pieces>>

\* Snapshot reads the counters first ...
Count(c) ==
  /\ command[c].at = "begun"
  /\ command' = [command EXCEPT ![c] =
                   [at |-> "counted", snap |-> [read |-> bytes, taken |-> 0]]]
  /\ UNCHANGED <<bytes, clock, ticking, prev, snap, rate, pieces>>

\* ... and the time afterwards.
Take(c) ==
  /\ command[c].at = "counted"
  /\ command' = [command EXCEPT ![c].at = "taken", ![c].snap.taken = clock]
  /\ UNCHANGED <<bytes, clock, ticking, prev, snap, rate, pieces>>

\* Variant with a defect: a difference may be negative.
Unclamped(r) == r

Clamped(r) == IF r < 0 THEN 0 ELSE r

\* rates: the time is positive, so that the sign is that of the bytes.
Rate(from, to) ==
  IF from.taken = 0 \/ to.taken <= from.taken THEN NoRate
  ELSE [bytes |-> Clamped(to.read - from.read), in |-> to.taken - from.taken]

\* snapshotMsg, of whichever command comes first.
Deliver(c) ==
  /\ command[c].at = "taken"
  /\ command' = [command EXCEPT ![c] = Free]
  /\ prev' = snap /\ snap' = command[c].snap
  /\ rate' = Rate(prev', snap')
  /\ pieces' \in Maps
  /\ UNCHANGED <<bytes, clock, ticking>>

----------------------------------------------------------------------------
(* pieceStrip *)

\* The first piece after the first n runs.
Offset(runs, n) ==
  LET pos[i \in 0 .. Len(runs)] == IF i = 0 THEN 0 ELSE pos[i - 1] + runs[i].length
  IN  pos[n]
Total(runs) == Offset(runs, Len(runs))

\* Variant with a defect: a run that ends where the range starts counts.
EndsBefore(runs, i, start) == Offset(runs, i) < start

\* Run i is skipped: it has no piece from start on.
Skipped(runs, i, start) == Offset(runs, i) <= start

\* Run i ends the loop: it begins with no piece before end.
Breaks(runs, i, end) == Offset(runs, i - 1) >= end

\* The body of dominantState's loop, for run i: the state found so far, and
\* whether the loop was left.
LookAt(runs, i, start, end, was) ==
  CASE was.broken \/ Skipped(runs, i, start) -> was
    [] ~was.broken /\ ~Skipped(runs, i, start) /\ Breaks(runs, i, end) ->
         [was EXCEPT !.broken = TRUE]
    [] OTHER -> [was EXCEPT !.state = IF runs[i].state > @ THEN runs[i].state ELSE @]

\* dominantState
DominantState(runs, start, end) ==
  LET after[i \in 0 .. Len(runs)] ==
        IF i = 0 THEN [state |-> 0, broken |-> FALSE]
        ELSE LookAt(runs, i, start, end, after[i - 1])
  IN  after[Len(runs)].state

\* A column stands for the pieces in [ColumnStart, ColumnEnd), one at least.
ColumnStart(col, total, width) == (col * total) \div width
ColumnEnd(col, total, width) ==
  Max({ColumnStart(col, total, width) + 1, ColumnStart(col + 1, total, width)})

\* The state each column shows; nothing but dots when there are no pieces, or
\* no room for four columns.
PieceStrip(runs, width) ==
  LET total == Total(runs)
  IN  [col \in 0 .. Max({width, 1}) - 1 |->
         IF total = 0 \/ width < 4 THEN 0
         ELSE DominantState(runs, ColumnStart(col, total, width),
                            ColumnEnd(col, total, width))]

----------------------------------------------------------------------------
Next ==
  \/ Transfers \/ TimePasses
  \/ \E c \in Commands : Tick(c) \/ Count(c) \/ Take(c) \/ Deliver(c)

Spec == Init /\ [][Next]_vars

\* Ticks come, and commands run to their end.
FairSpec ==
  /\ Spec
  /\ WF_vars(\E c \in Commands : Tick(c))
  /\ \A c \in Commands : WF_vars(Count(c) \/ Take(c) \/ Deliver(c))

----------------------------------------------------------------------------
(* Properties *)

(* Once nothing is transferred any more the pane shows the final count and *)
(* a rate of zero, and goes on doing so: late snapshots are superseded.    *)
TransferCatchesUp ==
  \A n \in 0 .. MaxBytes : <>[](bytes = n) => <>[](snap.read = n /\ rate.bytes = 0)

\* The states of the pieces, one by one.
Laid(runs) ==
  LET laid[i \in 0 .. Len(runs)] ==
        IF i = 0 THEN <<>>
        ELSE laid[i - 1] \o [p \in 1 .. runs[i].length |-> runs[i].state]
  IN  laid[Len(runs)]

(* The strip is true to scale, with more pieces than columns or fewer: a   *)
(* column shows the state of a piece that lies, at least in part, under    *)
(* it, and every piece lies under a column that shows its state or a more  *)
(* advanced one.                                                           *)
StripShowsEveryPiece ==
  \A width \in {w \in Widths : w >= 4} :
    LET strip == PieceStrip(pieces, width)
        states == Laid(pieces)
        total == Len(states)
        Under(p, col) == (p - 1) * width < (col + 1) * total
                         /\ p * width > col * total
    IN  total > 0 =>
          /\ \A col \in 0 .. width - 1 :
               \E p \in 1 .. total : Under(p, col) /\ strip[col] = states[p]
          /\ \A p \in 1 .. total :
               \E col \in 0 .. width - 1 : Under(p, col) /\ strip[col] >= states[p]
=============================================================================
