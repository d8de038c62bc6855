--------------------------- MODULE TransferProofs ---------------------------
(***************************************************************************)
(* Theorems about the refresh of Transfer, for any number of snapshots on  *)
(* their way, any transfer and any clock, and about the piece strip, for   *)
(* any pieces and any width.                                               *)
(***************************************************************************)
EXTENDS Transfer, WellFoundedInduction, TLAPS

(* Whatever two snapshots are compared, taken in whatever order, the rate  *)
(* is one of a transfer, in some time that has passed.                     *)
LEMMA RateType ==
  ASSUME NEW n \in Nat, NEW t \in Nat \ {0},
         NEW from \in [read : 0 .. n, taken : 0 .. t],
         NEW to \in [read : 0 .. n, taken : 0 .. t]
  PROVE  Rate(from, to) \in [bytes : 0 .. to.read, in : 1 .. t]
<1>1. /\ from.read \in Nat /\ to.read \in Nat
      /\ from.taken \in 0 .. t /\ to.taken \in 0 .. t
  OBVIOUS
<1>2. CASE from.taken = 0 \/ to.taken <= from.taken
  BY <1>1, <1>2 DEF Rate, NoRate
<1>3. CASE ~(from.taken = 0 \/ to.taken <= from.taken)
  <2>1. Clamped(to.read - from.read) \in 0 .. to.read
    BY <1>1 DEF Clamped
  <2>2. to.taken - from.taken \in 1 .. t
    BY <1>1, <1>3
  <2> QED
    BY <1>3, <2>1, <2>2 DEF Rate
<1> QED
  BY <1>2, <1>3

----------------------------------------------------------------------------
(* The refresh *)

Command == [at : {"free", "begun", "counted", "taken"}, snap : Snapshot]

(* TypeOK in parts.                                                        *)
ClockOK == bytes \in 0 .. MaxBytes /\ clock \in 1 .. MaxClock /\ ticking \in BOOLEAN
CommandsOK == command \in [Commands -> Command]
ModelOK ==
  /\ prev \in Snapshot /\ snap \in Snapshot
  /\ rate \in [bytes : 0 .. snap.read, in : 1 .. clock]
  /\ pieces \in Maps \cup {<<>>}

(* A command that has not begun holds the empty snapshot.                  *)
LEMMA FreeIsCommand ==
  ASSUME ClockOK
  PROVE  Free \in Command /\ NoSnapshot \in Snapshot
  BY TransferAssumption DEF ClockOK, Free, NoSnapshot, Snapshot, Command

(* What may have been found stays so while bytes and clock go on.          *)
LEMMA SnapshotsStay ==
  ASSUME ClockOK, ClockOK', bytes <= bytes', clock <= clock'
  PROVE  /\ Snapshot \subseteq Snapshot' /\ Command \subseteq Command'
         /\ \A n \in Nat : [bytes : 0 .. n, in : 1 .. clock]
                              \subseteq [bytes : 0 .. n, in : 1 .. clock']
<1>1. /\ bytes \in Nat /\ bytes' \in Nat /\ clock \in Nat /\ clock' \in Nat
  BY TransferAssumption DEF ClockOK
<1>2. 0 .. bytes \subseteq 0 .. bytes' /\ 0 .. clock \subseteq 0 .. clock'
      /\ 1 .. clock \subseteq 1 .. clock'
  BY <1>1
<1>3. Snapshot \subseteq Snapshot'
  BY <1>2 DEF Snapshot
<1> QED
  BY <1>2, <1>3 DEF Command

(* Every step keeps the types.                                             *)
LEMMA TypeStep ==
  ASSUME TypeOK, [Next]_vars
  PROVE  TypeOK'
<1> DEFINE Goal == ClockOK' /\ CommandsOK' /\ ModelOK'
<1>a. ClockOK /\ CommandsOK /\ ModelOK
  BY DEF TypeOK, ClockOK, CommandsOK, ModelOK, Command
<1>b. SUFFICES Goal
  BY DEF TypeOK, ClockOK, CommandsOK, ModelOK, Command
<1>c. /\ bytes \in Nat /\ clock \in Nat \ {0}
      /\ bytes \in 0 .. bytes /\ clock \in 0 .. clock
  BY <1>a, TransferAssumption DEF ClockOK
<1>1. CASE Transfers \/ TimePasses
  <2>1. ClockOK' /\ bytes <= bytes' /\ clock <= clock'
    BY <1>1, <1>a, TransferAssumption DEF ClockOK, Transfers, TimePasses
  <2>2. UNCHANGED <<command, prev, snap, rate, pieces>>
    BY <1>1 DEF Transfers, TimePasses
  <2>3. /\ Snapshot \subseteq Snapshot' /\ Command \subseteq Command'
        /\ \A n \in Nat : [bytes : 0 .. n, in : 1 .. clock]
                             \subseteq [bytes : 0 .. n, in : 1 .. clock']
    BY <1>a, <2>1, SnapshotsStay
  <2>4. CommandsOK'
    BY <1>a, <2>2, <2>3 DEF CommandsOK
  <2>5. snap.read \in Nat
    BY <1>a, <1>c DEF ModelOK, Snapshot
  <2>6. ModelOK'
    BY <1>a, <2>2, <2>3, <2>5 DEF ModelOK
  <2> QED
    BY <2>1, <2>4, <2>6
<1>2. ASSUME NEW c \in Commands, Tick(c)
      PROVE  Goal
  <2>1. command' = [command EXCEPT ![c].at = "begun"]
    BY <1>2 DEF Tick
  <2>2. UNCHANGED <<bytes, clock, prev, snap, rate, pieces>> /\ ticking' \in BOOLEAN
    BY <1>2 DEF Tick, Rearmed
  <2>3. [command[c] EXCEPT !.at = "begun"] \in Command
    BY <1>a DEF Command, CommandsOK
  <2>4. CommandsOK'
    BY <1>a, <2>1, <2>2, <2>3 DEF CommandsOK, Command, Snapshot
  <2> QED
    BY <1>a, <2>2, <2>4 DEF ClockOK, ModelOK, Snapshot
<1>3. ASSUME NEW c \in Commands, Count(c)
      PROVE  Goal
  <2>1. command' = [command EXCEPT ![c] =
                      [at |-> "counted", snap |-> [read |-> bytes, taken |-> 0]]]
    BY <1>3 DEF Count
  <2>2. UNCHANGED <<bytes, clock, ticking, prev, snap, rate, pieces>>
    BY <1>3 DEF Count
  <2>3. [at |-> "counted", snap |-> [read |-> bytes, taken |-> 0]] \in Command
    BY <1>c DEF Command, Snapshot
  <2>4. CommandsOK'
    BY <1>a, <2>1, <2>2, <2>3 DEF CommandsOK, Command, Snapshot
  <2> QED
    BY <1>a, <2>2, <2>4 DEF ClockOK, ModelOK, Snapshot
<1>4. ASSUME NEW c \in Commands, Take(c)
      PROVE  Goal
  <2> DEFINE was == command[c].snap
             new == [[command[c] EXCEPT !.at = "taken"] EXCEPT !.snap = [was EXCEPT !.taken = clock]]
  <2>1. was \in Snapshot /\ command[c] \in Command
    BY <1>a DEF Command, CommandsOK
  <2>2. [was EXCEPT !.taken = clock] \in Snapshot
    BY <1>c, <2>1 DEF Snapshot
  <2>3. new \in Command
    BY <2>1, <2>2 DEF Command
  <2>4. command' = [command EXCEPT ![c] = new]
    BY <1>4, <1>a DEF Take, Command, CommandsOK
  <2>5. UNCHANGED <<bytes, clock, ticking, prev, snap, rate, pieces>>
    BY <1>4 DEF Take
  <2> HIDE DEF new
  <2>6. CommandsOK'
    BY <1>a, <2>3, <2>4, <2>5 DEF CommandsOK, Command, Snapshot
  <2> QED
    BY <1>a, <2>5, <2>6 DEF ClockOK, ModelOK, Snapshot
<1>5. ASSUME NEW c \in Commands, Deliver(c)
      PROVE  Goal
  <2>1. command[c].snap \in Snapshot
    BY <1>a DEF Command, CommandsOK
  <2>2. /\ command' = [command EXCEPT ![c] = Free]
        /\ prev' = snap /\ snap' = command[c].snap /\ rate' = Rate(prev', snap')
        /\ pieces' \in Maps /\ UNCHANGED <<bytes, clock, ticking>>
    BY <1>5 DEF Deliver
  <2>3. rate' \in [bytes : 0 .. snap'.read, in : 1 .. clock]
    BY <1>a, <1>c, <2>1, <2>2, RateType DEF ModelOK, Snapshot
  <2>4. CommandsOK'
    BY <1>a, <2>2, FreeIsCommand DEF CommandsOK, Command, Snapshot
  <2>5. ModelOK'
    BY <1>a, <2>1, <2>2, <2>3 DEF ModelOK, Snapshot
  <2> QED
    BY <1>a, <2>2, <2>4, <2>5 DEF ClockOK
<1>6. CASE UNCHANGED vars
  BY <1>a, <1>6 DEF vars, ClockOK, CommandsOK, ModelOK, Command, Snapshot
<1> QED
  BY <1>1, <1>2, <1>3, <1>4, <1>5, <1>6 DEF Next

(* TypeOK of Transfer: in whatever order snapshots arrive, the rate shown  *)
(* is never negative and never over no time at all, and the bytes it       *)
(* speaks of were transferred.                                             *)
THEOREM RatesAreOfTransfers == Spec => []TypeOK
<1>1. Init => TypeOK
  <2> SUFFICES ASSUME Init PROVE TypeOK
    OBVIOUS
  <2>1. PICK c \in Commands :
          command = [d \in Commands |-> IF d = c THEN [Free EXCEPT !.at = "begun"] ELSE Free]
    BY DEF Init
  <2>2. ClockOK
    BY TransferAssumption DEF Init, ClockOK
  <2>3. [Free EXCEPT !.at = "begun"] \in Command
    BY <2>2, FreeIsCommand DEF Command
  <2>4. CommandsOK
    BY <2>1, <2>2, <2>3, FreeIsCommand DEF CommandsOK
  <2>5. ModelOK
    <3>1. prev = NoSnapshot /\ snap = NoSnapshot /\ rate = NoRate /\ pieces = <<>> /\ clock = 1
      BY DEF Init
    <3>2. NoRate \in [bytes : 0 .. NoSnapshot.read, in : 1 .. 1]
      BY DEF NoRate, NoSnapshot
    <3> QED
      BY <2>2, <3>1, <3>2, FreeIsCommand DEF ModelOK
  <2> QED
    BY <2>2, <2>4, <2>5 DEF TypeOK, ClockOK, CommandsOK, ModelOK, Command
<1> QED
  BY <1>1, TypeStep, PTL DEF Spec

----------------------------------------------------------------------------
(* Runs and pieces *)

(* Induction over the runs is done by way of the least exception to what   *)
(* is claimed of them.                                                     *)
LEMMA LeastNumber ==
  ASSUME NEW S \in SUBSET Nat, S # {}
  PROVE  \E n \in S : \A m \in S : n <= m
<1> DEFINE R == OpToRel(<, Nat)
<1>1. IsWellFoundedOn(R, Nat)
  BY NatLessThanWellFounded, Zenon
<1>2. \A m, n \in Nat : m < n => <<m, n>> \in R
  <2> TAKE m, n \in Nat
  <2> HAVE m < n
  <2> QED
    BY DEF OpToRel
<1> HIDE DEF R
<1>3. \E n \in S : \A m \in S : ~(<<m, n>> \in R)
  BY <1>1, WFMin, Zenon
<1>4. \A m, n \in S : m < n => <<m, n>> \in R
  BY <1>2
<1>5. PICK n \in S : \A m \in S : ~(<<m, n>> \in R)
  BY <1>3
<1>6. \A m \in S : ~(m < n)
  BY <1>4, <1>5, Zenon
<1>7. \A m \in S : n <= m
  <2> TAKE m \in S
  <2>1. m \in Nat /\ n \in Nat
    OBVIOUS
  <2> QED
    BY <1>6, <2>1
<1> QED
  BY <1>7

(* The steps of a recursion from base over the numbers up to len, and a    *)
(* function that such a recursion defines.                                 *)
Steps(S, base, len, step) ==
  base \in S /\ len \in Nat /\ step \in [1 .. len -> [S -> S]]

Iterated(S, base, len, step, f) ==
  /\ f \in [0 .. len -> S]
  /\ f[0] = base
  /\ \A i \in 1 .. len : f[i] = step[i][f[i - 1]]

(* A recursion over the numbers up to len, one step from each to the next, *)
(* defines a function.                                                     *)
LEMMA Recursion ==
  ASSUME NEW S, NEW base, NEW len, NEW step, Steps(S, base, len, step)
  PROVE  \E f : Iterated(S, base, len, step, f)
<1> USE DEF Steps
<1> DEFINE Iterates(f, n) == /\ f \in [0 .. n -> S]
                             /\ f[0] = base
                             /\ \A i \in 1 .. n : f[i] = step[i][f[i - 1]]
           Bad == {n \in 0 .. len : ~\E f : Iterates(f, n)}
<1>1. ASSUME Bad # {} PROVE FALSE
  <2>1. Bad \in SUBSET Nat
    OBVIOUS
  <2>2. PICK n \in Bad : \A m \in Bad : n <= m
    BY <1>1, <2>1, LeastNumber
  <2>3. n \in 0 .. len /\ n \in Nat /\ ~\E f : Iterates(f, n)
    BY <2>2
  <2>4. CASE n = 0
    <3>1. Iterates([k \in 0 .. 0 |-> base], 0)
      OBVIOUS
    <3> QED
      BY <2>3, <2>4, <3>1
  <2>5. CASE n # 0
    <3>1. n - 1 \in 0 .. len /\ ~(n <= n - 1) /\ n \in 1 .. len
      BY <2>3, <2>5
    <3>2. PICK f : Iterates(f, n - 1)
      BY <2>2, <3>1
    <3> DEFINE g == [k \in 0 .. n |-> IF k = n THEN step[n][f[n - 1]] ELSE f[k]]
    <3>3. step[n][f[n - 1]] \in S
      <4>1. n - 1 \in 0 .. n - 1
        BY <3>1
      <4>2. f[n - 1] \in S
        BY <3>2, <4>1
      <4> QED
        BY <3>1, <4>2
    <3>4. g \in [0 .. n -> S]
      <4>1. \A k \in 0 .. n : k # n => f[k] \in S
        BY <3>1, <3>2
      <4> QED
        BY <3>3, <4>1
    <3>5. g[0] = base
      BY <2>3, <2>5, <3>2
    <3>6. ASSUME NEW k \in 1 .. n
          PROVE  g[k] = step[k][g[k - 1]]
      <4>1. k - 1 \in 0 .. n /\ k \in 0 .. n /\ k - 1 # n
        BY <3>1
      <4>2. g[k - 1] = f[k - 1]
        BY <4>1
      <4>3. CASE k = n
        BY <4>1, <4>2, <4>3
      <4>4. CASE k # n
        <5>1. k \in 1 .. n - 1
          BY <3>1, <4>4
        <5>2. f[k] = step[k][f[k - 1]]
          BY <3>2, <5>1
        <5> QED
          BY <4>1, <4>2, <4>4, <5>2
      <4> QED
        BY <4>3, <4>4
    <3> HIDE DEF g
    <3> QED
      BY <2>3, <3>4, <3>5, <3>6
  <2> QED
    BY <2>4, <2>5
<1>2. len \in 0 .. len
  OBVIOUS
<1>3. PICK f : Iterates(f, len)
  BY <1>1, <1>2
<1> QED
  BY <1>3 DEF Iterated

(* What Offset is computed by.                                             *)
IsOffsets(runs, f) ==
  f = [i \in 0 .. Len(runs) |-> IF i = 0 THEN 0 ELSE f[i - 1] + runs[i].length]

(* The offsets of any runs are well defined.                               *)
LEMMA OffsetsExist ==
  ASSUME NEW runs \in Seq(Run)
  PROVE  \E f : IsOffsets(runs, f)
<1> DEFINE len == Len(runs)
           S == Nat
           first == 0
           step == [i \in 1 .. len |-> [x \in S |-> x + runs[i].length]]
<1>1. len \in Nat
  OBVIOUS
<1>2. \A i \in 1 .. len : runs[i].length \in Nat
  <2>1. \A i \in 1 .. len : runs[i] \in Run
    OBVIOUS
  <2> QED
    BY <2>1 DEF Run
<1> HIDE DEF len
<1>3. step \in [1 .. len -> [S -> S]]
  BY <1>2
<1>4. first \in S
  OBVIOUS
<1> HIDE DEF step, S, first
<1>a. Steps(S, first, len, step)
  BY <1>1, <1>3, <1>4 DEF Steps
<1>b. PICK f : Iterated(S, first, len, step, f)
  BY <1>a, Recursion
<1>5. /\ f \in [0 .. len -> S]
      /\ f[0] = first /\ \A i \in 1 .. len : f[i] = step[i][f[i - 1]]
  BY <1>b DEF Iterated
<1>6. \A i \in 1 .. len : f[i] = f[i - 1] + runs[i].length
  <2> TAKE i \in 1 .. len
  <2>1. f[i - 1] \in S
    BY <1>1, <1>5
  <2> QED
    BY <1>5, <2>1 DEF step
<1>7. \A i \in 0 .. len : i # 0 => i \in 1 .. len
  BY <1>1
<1>8. IsOffsets(runs, f)
  BY <1>5, <1>6, <1>7 DEF IsOffsets, len, first
<1> QED
  BY <1>8

(* The recursion of Offset (pos, in dominantState) says what it means.     *)
LEMMA Offsets ==
  ASSUME NEW runs \in Seq(Run)
  PROVE  /\ Offset(runs, 0) = 0
         /\ \A i \in 1 .. Len(runs) : Offset(runs, i) = Offset(runs, i - 1) + runs[i].length
<1> DEFINE pos == CHOOSE f : IsOffsets(runs, f)
<1>1. \A n : Offset(runs, n) = pos[n]
  BY DEF Offset, IsOffsets
<1>2. Len(runs) \in Nat
  OBVIOUS
<1>3. IsOffsets(runs, pos)
  BY OffsetsExist
<1> HIDE DEF pos
<1>4. \A i \in 0 .. Len(runs) : pos[i] = IF i = 0 THEN 0 ELSE pos[i - 1] + runs[i].length
  BY <1>3 DEF IsOffsets
<1>5. pos[0] = 0
  BY <1>2, <1>4
<1>6. \A i \in 1 .. Len(runs) : pos[i] = pos[i - 1] + runs[i].length
  BY <1>2, <1>4
<1> QED
  BY <1>1, <1>5, <1>6

(* Runs have one piece at least, so that offsets are ever greater numbers. *)
LEMMA OffsetsGrow ==
  ASSUME NEW runs \in Seq(Run)
  PROVE  /\ \A i \in 0 .. Len(runs) : Offset(runs, i) \in Nat
         /\ \A i \in 1 .. Len(runs) : Offset(runs, i - 1) < Offset(runs, i)
         /\ \A i \in 0 .. Len(runs), j \in 0 .. Len(runs) :
              i <= j => Offset(runs, i) <= Offset(runs, j)
<1> DEFINE len == Len(runs)
           o(i) == Offset(runs, i)
<1>1. len \in Nat
  OBVIOUS
<1>2. \A i \in 1 .. len : o(i) = o(i - 1) + runs[i].length /\ runs[i].length \in Nat \ {0}
  <2>1. \A i \in 1 .. len : runs[i] \in Run
    OBVIOUS
  <2>2. \A run \in Run : run.length \in Nat \ {0}
    BY DEF Run
  <2> QED
    BY <2>1, <2>2, Offsets
<1>3. o(0) = 0
  BY Offsets
<1> HIDE DEF o, len
<1>4. \A i \in 0 .. len : o(i) \in Nat
  <2> DEFINE Bad == {i \in 0 .. len : o(i) \notin Nat}
  <2> SUFFICES ASSUME Bad # {} PROVE FALSE
    OBVIOUS
  <2>1. Bad \in SUBSET Nat
    BY <1>1
  <2>2. PICK i \in Bad : \A j \in Bad : i <= j
    BY <2>1, LeastNumber
  <2>3. i \in 1 .. len /\ i - 1 \in 0 .. len
    BY <1>1, <1>3, <2>2
  <2>4. o(i - 1) \in Nat
    BY <2>2, <2>3
  <2>5. o(i) = o(i - 1) + runs[i].length /\ runs[i].length \in Nat
    BY <1>2, <2>3
  <2>6. o(i) \in Nat
    BY <2>4, <2>5
  <2> QED
    BY <2>2, <2>6
<1>5. \A i \in 1 .. len : o(i - 1) < o(i)
  <2> TAKE i \in 1 .. len
  <2>1. o(i - 1) \in Nat
    BY <1>1, <1>4
  <2> QED
    BY <1>2, <2>1
<1>6. \A i \in 0 .. len, j \in 0 .. len : i <= j => o(i) <= o(j)
  <2> TAKE i \in 0 .. len
  <2> DEFINE Bad == {j \in 0 .. len : i <= j /\ ~(o(i) <= o(j))}
  <2> SUFFICES ASSUME Bad # {} PROVE FALSE
    OBVIOUS
  <2>1. Bad \in SUBSET Nat
    BY <1>1
  <2>2. PICK j \in Bad : \A k \in Bad : j <= k
    BY <2>1, LeastNumber
  <2>3. j \in 0 .. len /\ i <= j /\ ~(o(i) <= o(j)) /\ o(i) \in Nat /\ o(j) \in Nat
    BY <1>4, <2>2
  <2>4. j # i
    BY <2>3
  <2>5. j \in 1 .. len /\ j - 1 \in 0 .. len /\ i <= j - 1
    BY <1>1, <2>3, <2>4
  <2>6. o(i) <= o(j - 1)
    <3>1. ~(j <= j - 1)
      BY <2>3
    <3> QED
      BY <2>2, <2>5, <3>1
  <2>7. o(j - 1) < o(j) /\ o(j - 1) \in Nat
    BY <1>4, <1>5, <2>5
  <2> QED
    BY <2>3, <2>6, <2>7
<1> QED
  BY <1>4, <1>5, <1>6 DEF o, len

(* Every piece is in a run.                                                *)
LEMMA RunOfPiece ==
  ASSUME NEW runs \in Seq(Run), NEW p \in 0 .. Total(runs) - 1
  PROVE  \E i \in 1 .. Len(runs) : Offset(runs, i - 1) <= p /\ p < Offset(runs, i)
<1> DEFINE len == Len(runs)
           Ends == {i \in 0 .. len : p < Offset(runs, i)}
<1>1. len \in Nat /\ Offset(runs, 0) = 0
  BY Offsets
<1>2. \A i \in 0 .. len : Offset(runs, i) \in Nat
  BY OffsetsGrow
<1>3. p \in Nat /\ p < Offset(runs, len)
  BY <1>1, <1>2 DEF Total
<1>4. len \in Ends
  BY <1>1, <1>3
<1>5. Ends \in SUBSET Nat
  BY <1>1
<1> HIDE DEF Ends
<1>6. PICK i \in Ends : \A j \in Ends : i <= j
  BY <1>4, <1>5, LeastNumber
<1>7. i \in 1 .. len /\ p < Offset(runs, i)
  BY <1>1, <1>3, <1>6 DEF Ends
<1>8. i - 1 \in 0 .. len /\ ~(i <= i - 1)
  BY <1>1, <1>7
<1>9. Offset(runs, i - 1) <= p
  BY <1>2, <1>3, <1>6, <1>8 DEF Ends
<1> QED
  BY <1>7, <1>9

(* What Laid is computed by.                                               *)
IsLayout(runs, f) ==
  f = [i \in 0 .. Len(runs) |->
         IF i = 0 THEN <<>>
         ELSE f[i - 1] \o [p \in 1 .. runs[i].length |-> runs[i].state]]

(* So is the layout.                                                       *)
LEMMA LayoutsExist ==
  ASSUME NEW runs \in Seq(Run)
  PROVE  \E f : IsLayout(runs, f)
<1> DEFINE len == Len(runs)
           row(i) == [p \in 1 .. runs[i].length |-> runs[i].state]
           S == Seq(PieceState)
           step == [i \in 1 .. len |-> [x \in S |-> x \o row(i)]]
<1>1. len \in Nat
  OBVIOUS
<1>2. \A i \in 1 .. len : row(i) \in Seq(PieceState)
  <2> TAKE i \in 1 .. len
  <2>1. runs[i] \in Run
    OBVIOUS
  <2>2. runs[i].length \in Nat /\ runs[i].state \in PieceState
    BY <2>1 DEF Run
  <2> QED
    BY <2>2
<1> HIDE DEF len, row
<1>3. step \in [1 .. len -> [S -> S]]
  <2>1. \A i \in 1 .. len, x \in Seq(PieceState) : x \o row(i) \in Seq(PieceState)
    BY <1>2
  <2> QED
    BY <2>1
<1>4. <<>> \in S
  OBVIOUS
<1> HIDE DEF step, S
<1>a. Steps(S, <<>>, len, step)
  BY <1>1, <1>3, <1>4 DEF Steps
<1>b. PICK f : Iterated(S, <<>>, len, step, f)
  BY <1>a, Recursion
<1>5. /\ f \in [0 .. len -> S]
      /\ f[0] = <<>> /\ \A i \in 1 .. len : f[i] = step[i][f[i - 1]]
  BY <1>b DEF Iterated
<1>6. \A i \in 1 .. len : f[i] = f[i - 1] \o row(i)
  <2> TAKE i \in 1 .. len
  <2>1. f[i - 1] \in S
    BY <1>1, <1>5
  <2> QED
    BY <1>5, <2>1 DEF step
<1>7. \A i \in 0 .. len : i # 0 => i \in 1 .. len
  BY <1>1
<1>8. f = [i \in 0 .. len |-> IF i = 0 THEN <<>> ELSE f[i - 1] \o row(i)]
  BY <1>5, <1>6, <1>7
<1>9. IsLayout(runs, f)
  BY <1>8 DEF IsLayout, len, row
<1> QED
  BY <1>9

(* Laying out one more run.                                                *)
LEMMA Row ==
  ASSUME NEW seq \in Seq(PieceState), NEW n \in Nat, NEW st \in PieceState,
         NEW row, row = [p \in 1 .. n |-> st]
  PROVE  /\ seq \o row \in Seq(PieceState) /\ Len(seq \o row) = Len(seq) + n
         /\ \A q \in 1 .. Len(seq) : (seq \o row)[q] = seq[q]
         /\ \A q \in Len(seq) + 1 .. Len(seq) + n : (seq \o row)[q] = st
<1>1. row \in Seq(PieceState) /\ Len(row) = n /\ \A p \in 1 .. n : row[p] = st
  OBVIOUS
<1>2. /\ seq \o row \in Seq(PieceState) /\ Len(seq \o row) = Len(seq) + n
      /\ \A q \in 1 .. Len(seq) : (seq \o row)[q] = seq[q]
  BY <1>1
<1>3. ASSUME NEW q \in Len(seq) + 1 .. Len(seq) + n
      PROVE  (seq \o row)[q] = st
  <2>1. q - Len(seq) \in 1 .. n
    OBVIOUS
  <2>2. (seq \o row)[q] = row[q - Len(seq)]
    BY <1>1
  <2> QED
    BY <1>1, <2>1, <2>2
<1> QED
  BY <1>2, <1>3

(* Laid out one by one, the pieces of a run come after its offset.         *)
LEMMA LaidOut ==
  ASSUME NEW runs \in Seq(Run)
  PROVE  /\ Laid(runs) \in Seq(PieceState) /\ Len(Laid(runs)) = Total(runs)
         /\ \A i \in 1 .. Len(runs), q \in Nat :
              Offset(runs, i - 1) < q /\ q <= Offset(runs, i) => Laid(runs)[q] = runs[i].state
<1> DEFINE len == Len(runs)
           o(i) == Offset(runs, i)
           laid == CHOOSE f : IsLayout(runs, f)
           Part(n) ==
             /\ laid[n] \in Seq(PieceState) /\ Len(laid[n]) = o(n)
             /\ \A i \in 1 .. len, q \in Nat :
                  i <= n /\ o(i - 1) < q /\ q <= o(i) => laid[n][q] = runs[i].state
<1>1. len \in Nat
  OBVIOUS
<1>2. Laid(runs) = laid[len]
  BY DEF Laid, IsLayout
<1>3. IsLayout(runs, laid)
  BY LayoutsExist
<1> HIDE DEF laid
<1>4. \A i \in 1 .. len : runs[i].length \in Nat \ {0} /\ runs[i].state \in PieceState
  <2>1. \A i \in 1 .. len : runs[i] \in Run
    OBVIOUS
  <2>2. \A run \in Run : run.length \in Nat \ {0} /\ run.state \in PieceState
    BY DEF Run
  <2> QED
    BY <2>1, <2>2
<1>5. /\ o(0) = 0
      /\ \A i \in 1 .. len : o(i) = o(i - 1) + runs[i].length
      /\ \A i \in 0 .. len : o(i) \in Nat
      /\ \A i \in 0 .. len, j \in 0 .. len : i <= j => o(i) <= o(j)
  BY Offsets, OffsetsGrow
<1> HIDE DEF len, o
<1> DEFINE Step(i) == IF i = 0 THEN <<>>
                      ELSE laid[i - 1] \o [p \in 1 .. runs[i].length |-> runs[i].state]
<1>a. laid = [i \in 0 .. len |-> Step(i)]
  BY <1>3 DEF IsLayout, len
<1> HIDE DEF Step
<1>b. \A i \in 0 .. len : laid[i] = Step(i)
  BY <1>a, Zenon
<1>6. laid[0] = <<>>
  <2>1. 0 \in 0 .. len
    BY <1>1
  <2>2. laid[0] = Step(0)
    BY <1>b, <2>1
  <2> QED
    BY <2>2, Zenon DEF Step
<1>7. ASSUME NEW i \in 1 .. len
      PROVE  laid[i] = laid[i - 1] \o [p \in 1 .. runs[i].length |-> runs[i].state]
  <2>1. i \in 0 .. len /\ i # 0
    BY <1>1
  <2>2. laid[i] = Step(i)
    BY <1>b, <2>1
  <2> QED
    BY <2>1, <2>2, Zenon DEF Step
<1>8. Part(0)
  <2>1. \A i \in 1 .. len : ~(i <= 0)
    BY <1>1
  <2> QED
    BY <1>5, <1>6, <2>1
<1>9. ASSUME NEW n \in 1 .. len, Part(n - 1)
      PROVE  Part(n)
  <2> DEFINE before == laid[n - 1]
             row == [p \in 1 .. runs[n].length |-> runs[n].state]
  <2>1. /\ laid[n] = before \o row /\ before \in Seq(PieceState) /\ Len(before) = o(n - 1)
        /\ runs[n].length \in Nat /\ runs[n].state \in PieceState
        /\ o(n) = o(n - 1) + runs[n].length
    BY <1>4, <1>5, <1>7, <1>9
  <2>a. /\ before \o row \in Seq(PieceState)
        /\ Len(before \o row) = Len(before) + runs[n].length
        /\ \A q \in 1 .. Len(before) : (before \o row)[q] = before[q]
        /\ \A q \in Len(before) + 1 .. Len(before) + runs[n].length :
             (before \o row)[q] = runs[n].state
    <3>1. row = [p \in 1 .. runs[n].length |-> runs[n].state]
      OBVIOUS
    <3> HIDE DEF before, row
    <3>2. /\ before \in Seq(PieceState)
          /\ runs[n].length \in Nat /\ runs[n].state \in PieceState
      BY <2>1
    <3> QED
      BY <3>1, <3>2, Row, SMTT(30)
  <2> HIDE DEF before, row
  <2>2. /\ laid[n] \in Seq(PieceState) /\ Len(laid[n]) = o(n)
        /\ \A q \in 1 .. o(n - 1) : laid[n][q] = before[q]
        /\ \A q \in o(n - 1) + 1 .. o(n) : laid[n][q] = runs[n].state
    BY <2>1, <2>a
  <2>3. ASSUME NEW i \in 1 .. len, NEW q \in Nat, i <= n, o(i - 1) < q, q <= o(i)
        PROVE  laid[n][q] = runs[i].state
    <3>1. /\ i - 1 \in 0 .. len /\ n - 1 \in 0 .. len /\ i \in 0 .. len
          /\ o(i - 1) \in Nat /\ o(i) \in Nat /\ o(n - 1) \in Nat /\ o(n) \in Nat
      BY <1>1, <1>5
    <3>2. CASE i = n
      <4>1. q \in o(n - 1) + 1 .. o(n)
        BY <2>3, <3>1, <3>2
      <4> QED
        BY <2>2, <3>2, <4>1
    <3>3. CASE i # n
      <4>1. i <= n - 1
        BY <2>3, <3>1, <3>3
      <4>2. o(i) <= o(n - 1)
        BY <1>5, <3>1, <4>1
      <4>3. q \in 1 .. o(n - 1)
        BY <2>3, <3>1, <4>2
      <4>4. before[q] = runs[i].state
        BY <1>9, <2>3, <4>1 DEF before
      <4> QED
        BY <2>2, <4>3, <4>4
    <3> QED
      BY <3>2, <3>3
  <2> QED
    BY <2>2, <2>3
<1>10. Part(len)
  <2> HIDE DEF Part
  <2> DEFINE Bad == {n \in 0 .. len : ~Part(n)}
  <2>1. Bad = {}
    <3> SUFFICES ASSUME Bad # {} PROVE FALSE
      OBVIOUS
    <3>1. Bad \in SUBSET Nat
      BY <1>1
    <3>2. PICK n \in Bad : \A m \in Bad : n <= m
      BY <3>1, LeastNumber
    <3>3. n \in 1 .. len /\ ~Part(n)
      BY <1>1, <1>8, <3>2
    <3>4. n - 1 \in 0 .. len /\ ~(n <= n - 1)
      BY <1>1, <3>3
    <3>5. Part(n - 1)
      BY <3>2, <3>4
    <3> QED
      BY <1>9, <3>3, <3>5
  <2> QED
    BY <1>1, <2>1
<1>11. \A i \in 1 .. len : i <= len
  BY <1>1
<1> QED
  BY <1>2, <1>10, <1>11 DEF o, len, Total

----------------------------------------------------------------------------
(* The piece strip *)

(* The greater of two numbers.                                             *)
LEMMA MaxOfPair ==
  ASSUME NEW a \in Int, NEW b \in Int
  PROVE  Max({a, b}) = IF a >= b THEN a ELSE b
<1>1. PICK m \in {a, b} : \A y \in {a, b} : m >= y
  OBVIOUS
<1>2. Max({a, b}) \in {a, b} /\ \A y \in {a, b} : Max({a, b}) >= y
  BY <1>1 DEF Max
<1> QED
  BY <1>2

(* Division rounds down by less than the divisor.                          *)
LEMMA DivisionBounds ==
  ASSUME NEW n \in Nat, NEW d \in Nat \ {0}
  PROVE  /\ n \div d \in Nat
         /\ (n \div d) * d <= n /\ n < (n \div d) * d + d
OBVIOUS

(* Less of the width, less of the height: what the steps below need of     *)
(* products.                                                               *)
LEMMA ProductOrder ==
  ASSUME NEW a \in Int, NEW b \in Int, NEW w \in Nat \ {0}
  PROVE  /\ a * w \in Int
         /\ a * w < b * w <=> a < b
         /\ a * w <= b * w <=> a <= b
         /\ (a + 1) * w = a * w + w
OBVIOUS

(* A column begins with the piece at its left edge, rounded down.          *)
LEMMA ColumnStarts ==
  ASSUME NEW total \in Nat \ {0}, NEW width \in Nat \ {0}, NEW col \in Nat
  PROVE  /\ ColumnStart(col, total, width) \in Nat
         /\ ColumnStart(col, total, width) * width <= col * total
         /\ col * total < ColumnStart(col, total, width) * width + width
<1>1. col * total \in Nat
  OBVIOUS
<1> QED
  BY <1>1, DivisionBounds DEF ColumnStart

(* A column ends where the next begins, but has one piece at least.        *)
LEMMA ColumnEnds ==
  ASSUME NEW total \in Nat \ {0}, NEW width \in Nat \ {0}, NEW col \in Nat
  PROVE  ColumnEnd(col, total, width)
           = IF ColumnStart(col, total, width) + 1 >= ColumnStart(col + 1, total, width)
             THEN ColumnStart(col, total, width) + 1
             ELSE ColumnStart(col + 1, total, width)
<1>1. col + 1 \in Nat
  OBVIOUS
<1>2. ColumnStart(col, total, width) \in Nat /\ ColumnStart(col + 1, total, width) \in Nat
  BY <1>1, ColumnStarts
<1> QED
  BY <1>2, MaxOfPair DEF ColumnEnd

(* pieceStrip is true to scale: what a column stands for lies, at least in *)
(* part, under it.  Piece p, counted from 0, takes the part of the width   *)
(* from p * width to (p + 1) * width, in units of a piece's share.         *)
THEOREM ColumnsAreToScale ==
  ASSUME NEW total \in Nat \ {0}, NEW width \in Nat \ {0}, NEW col \in Nat,
         NEW p \in Nat,
         ColumnStart(col, total, width) <= p, p < ColumnEnd(col, total, width)
  PROVE  p * width < (col + 1) * total /\ col * total < (p + 1) * width
<1> DEFINE a == ColumnStart(col, total, width)
           b == ColumnStart(col + 1, total, width)
<1>0. col + 1 \in Nat
  OBVIOUS
<1>1. /\ a \in Nat /\ b \in Nat
      /\ a * width <= col * total /\ col * total < a * width + width
      /\ b * width <= (col + 1) * total
      /\ a <= p
      /\ p < a + 1 \/ p < b
  BY <1>0, ColumnStarts, ColumnEnds
<1>2. col * total \in Nat /\ (col + 1) * total = col * total + total
  BY ProductOrder
<1> HIDE DEF a, b
<1>3. /\ a * width <= p * width /\ (p + 1) * width = p * width + width
      /\ a * width \in Int /\ b * width \in Int /\ p * width \in Int
  BY <1>1, ProductOrder
<1>4. col * total < (p + 1) * width
  BY <1>1, <1>2, <1>3
<1>5. CASE p < b
  <2>1. p * width < b * width
    BY <1>1, <1>5, ProductOrder
  <2> QED
    BY <1>1, <1>2, <1>3, <1>4, <2>1
<1>6. CASE p < a + 1
  <2>1. p = a
    BY <1>1, <1>6
  <2> QED
    BY <1>1, <1>2, <1>3, <1>4, <2>1
<1> QED
  BY <1>1, <1>4, <1>5, <1>6

(* No piece is left out of the strip, however many pieces there are to a   *)
(* column or columns to a piece.                                           *)
THEOREM EveryPieceHasAColumn ==
  ASSUME NEW total \in Nat \ {0}, NEW width \in Nat \ {0}, NEW p \in 0 .. total - 1
  PROVE  \E col \in 0 .. width - 1 :
           ColumnStart(col, total, width) <= p /\ p < ColumnEnd(col, total, width)
<1> DEFINE c == (p * width) \div total
<1>1. p * width \in Nat /\ (p + 1) * width = p * width + width /\ (p + 1) * width <= total * width
  BY ProductOrder
<1>2. c \in Nat /\ c * total <= p * width /\ p * width < c * total + total
  BY <1>1, DivisionBounds
<1> HIDE DEF c
<1>3. c * total < width * total
  <2>1. total * width = width * total
    OBVIOUS
  <2>2. c * total \in Int /\ width * total \in Int
    BY <1>2
  <2> QED
    BY <1>1, <1>2, <2>1, <2>2
<1>4. c \in 0 .. width - 1
  BY <1>2, <1>3, ProductOrder
<1> DEFINE a == ColumnStart(c, total, width)
           b == ColumnStart(c + 1, total, width)
<1>a. c + 1 \in Nat /\ (c + 1) + 1 \in Nat
  BY <1>2
<1>5. /\ a \in Nat /\ b \in Nat
      /\ a * width <= c * total
      /\ (c + 1) * total < b * width + width
  BY <1>2, <1>a, ColumnStarts
<1>6. ColumnEnd(c, total, width) = IF a + 1 >= b THEN a + 1 ELSE b
  BY <1>2, ColumnEnds
<1>7. ColumnEnd(c + 1, total, width) \in Int /\ ColumnEnd(c + 1, total, width) >= b + 1
  <2> DEFINE z == ColumnStart((c + 1) + 1, total, width)
  <2>1. z \in Nat
    BY <1>a, ColumnStarts
  <2>2. ColumnEnd(c + 1, total, width) = IF b + 1 >= z THEN b + 1 ELSE z
    BY <1>a, ColumnEnds
  <2> HIDE DEF a, b, z
  <2> QED
    BY <1>5, <2>1, <2>2
<1> HIDE DEF a, b
<1>8. c * total \in Int /\ (c + 1) * total = c * total + total
      /\ a * width \in Int /\ b * width \in Int /\ (b + 1) * width = b * width + width
  BY <1>2, <1>5, ProductOrder
<1>9. a <= p
  <2>1. a * width <= p * width
    BY <1>1, <1>2, <1>5, <1>8
  <2> QED
    BY <1>5, <2>1, ProductOrder
<1>10. p <= b
  <2>1. p * width < (b + 1) * width
    BY <1>1, <1>2, <1>5, <1>8
  <2>2. p < b + 1
    BY <1>5, <2>1, ProductOrder
  <2> QED
    BY <1>5, <2>2
<1>11. CASE p < b
  <2>1. p < ColumnEnd(c, total, width)
    BY <1>5, <1>6, <1>11
  <2> QED
    BY <1>4, <1>9, <2>1 DEF a
<1>12. CASE p = b /\ c + 1 <= width - 1
  <2>1. c + 1 \in 0 .. width - 1
    BY <1>2, <1>12
  <2>2. ColumnStart(c + 1, total, width) <= p /\ p < ColumnEnd(c + 1, total, width)
    <3>1. ColumnStart(c + 1, total, width) = p
      BY <1>12 DEF b
    <3> QED
      BY <1>7, <1>12, <3>1
  <2> QED
    BY <2>1, <2>2
<1>13. CASE p = b /\ ~(c + 1 <= width - 1)
  <2>1. c + 1 = width
    BY <1>4, <1>13
  <2>2. width * total < b * width + width
    BY <1>5, <2>1
  <2>3. total * width = width * total /\ (p + 1) * width = b * width + width
    BY <1>1, <1>13, <1>8
  <2>4. total * width < (p + 1) * width
    BY <2>2, <2>3
  <2> QED
    BY <2>4, ProductOrder
<1> QED
  BY <1>5, <1>10, <1>11, <1>12, <1>13

(* What dominantState has found after each run, and whether it has left    *)
(* its loop.                                                               *)
Found == [state : PieceState, broken : BOOLEAN]

IsScan(runs, start, end, f) ==
  f = [i \in 0 .. Len(runs) |->
         IF i = 0 THEN [state |-> 0, broken |-> FALSE]
         ELSE LookAt(runs, i, start, end, f[i - 1])]

(* The body of the loop finds a piece state.                               *)
LEMMA LookAtType ==
  ASSUME NEW runs \in Seq(Run), NEW i \in 1 .. Len(runs), NEW start, NEW end,
         NEW was \in Found
  PROVE  LookAt(runs, i, start, end, was) \in Found
<1>1. runs[i].state \in PieceState
  <2>1. runs[i] \in Run
    OBVIOUS
  <2> QED
    BY <2>1 DEF Run
<1>2. was.state \in PieceState /\ was.broken \in BOOLEAN
  BY DEF Found
<1>3. /\ [was EXCEPT !.broken = TRUE] \in Found
      /\ [was EXCEPT !.state = runs[i].state] \in Found
      /\ [was EXCEPT !.state = was.state] \in Found
  BY <1>1, <1>2 DEF Found
<1> QED
  BY <1>3 DEF LookAt

(* The loop is well defined.                                               *)
LEMMA ScanExists ==
  ASSUME NEW runs \in Seq(Run), NEW start, NEW end
  PROVE  \E f \in [0 .. Len(runs) -> Found] : IsScan(runs, start, end, f)
<1> DEFINE len == Len(runs)
           look(i, was) == LookAt(runs, i, start, end, was)
           step == [i \in 1 .. len |-> [was \in Found |-> look(i, was)]]
           first == [state |-> 0, broken |-> FALSE]
<1>1. len \in Nat
  OBVIOUS
<1>2. \A i \in 1 .. len, was \in Found : look(i, was) \in Found
  BY LookAtType
<1>3. first \in Found
  BY DEF Found, PieceState
<1> HIDE DEF len, look, first
<1>4. step \in [1 .. len -> [Found -> Found]]
  BY <1>2
<1> HIDE DEF step
<1>a. Steps(Found, first, len, step)
  BY <1>1, <1>3, <1>4 DEF Steps
<1>b. PICK f : Iterated(Found, first, len, step, f)
  BY <1>a, Recursion
<1>5. /\ f \in [0 .. len -> Found]
      /\ f[0] = first /\ \A i \in 1 .. len : f[i] = step[i][f[i - 1]]
  BY <1>b DEF Iterated
<1>6. \A i \in 1 .. len : f[i] = look(i, f[i - 1])
  <2> TAKE i \in 1 .. len
  <2>1. f[i - 1] \in Found
    BY <1>1, <1>5
  <2> QED
    BY <1>5, <2>1 DEF step
<1>7. \A i \in 0 .. len : i # 0 => i \in 1 .. len
  BY <1>1
<1>8. f = [i \in 0 .. len |-> IF i = 0 THEN first ELSE look(i, f[i - 1])]
  BY <1>5, <1>6, <1>7
<1>9. IsScan(runs, start, end, f)
  BY <1>8 DEF IsScan, len, look, first
<1> QED
  BY <1>5, <1>9 DEF len

(* Run i has pieces in [start, end).                                       *)
Overlaps(runs, i, start, end) ==
  Offset(runs, i) > start /\ Offset(runs, i - 1) < end

(* What the loop has found when it has looked at the first n runs: no run  *)
(* that overlaps the range is more advanced, one is as advanced unless     *)
(* nothing is, and if the loop was left, it was at a run behind the range. *)
FoundIn(runs, start, end, n, found) ==
  /\ found \in Found
  /\ \A i \in 1 .. n : Overlaps(runs, i, start, end) => runs[i].state <= found.state
  /\ \/ found.state = 0
     \/ \E i \in 1 .. n : Overlaps(runs, i, start, end) /\ runs[i].state = found.state
  /\ found.broken => \E i \in 1 .. n : Offset(runs, i - 1) >= end

(* Looking at one more run keeps that: a run that is skipped does not      *)
(* overlap the range, nor does any behind the one that ended the loop,     *)
(* since offsets grow.                                                     *)
LEMMA LookAtStep ==
  ASSUME NEW runs \in Seq(Run), NEW n \in 1 .. Len(runs), NEW start \in Int,
         NEW end \in Int, NEW was, FoundIn(runs, start, end, n - 1, was)
  PROVE  FoundIn(runs, start, end, n, LookAt(runs, n, start, end, was))
<1> DEFINE found == LookAt(runs, n, start, end, was)
           over(i) == Overlaps(runs, i, start, end)
           st(i) == runs[i].state
<1>1. was \in Found /\ found \in Found
  BY LookAtType DEF FoundIn
<1>2. was.state \in Nat /\ was.broken \in BOOLEAN
  BY <1>1 DEF Found, PieceState
<1>3. /\ Offset(runs, n - 1) \in Nat /\ Offset(runs, n) \in Nat
      /\ \A i \in 1 .. n - 1 : /\ Offset(runs, i - 1) \in Nat
                              /\ Offset(runs, i - 1) <= Offset(runs, n - 1)
  <2>1. n - 1 \in 0 .. Len(runs) /\ n \in 0 .. Len(runs)
    OBVIOUS
  <2>2. \A i \in 1 .. n - 1 : i - 1 \in 0 .. Len(runs) /\ i - 1 <= n - 1
    OBVIOUS
  <2> QED
    BY <2>1, <2>2, OffsetsGrow
<1>4. \A i \in 1 .. n : st(i) \in Nat
  <2>1. \A i \in 1 .. Len(runs) : runs[i] \in Run
    OBVIOUS
  <2>2. \A i \in 1 .. n : i \in 1 .. Len(runs)
    OBVIOUS
  <2>3. \A run \in Run : run.state \in Nat
    BY DEF Run, PieceState
  <2> QED
    BY <2>1, <2>2, <2>3
<1>5. \A i \in 1 .. n : i \in 1 .. n - 1 \/ i = n
  OBVIOUS
<1>6. \A i \in 1 .. n - 1 : i \in 1 .. n
  OBVIOUS
<1>7. /\ \A i \in 1 .. n - 1 : over(i) => st(i) <= was.state
      /\ was.state = 0 \/ \E i \in 1 .. n - 1 : over(i) /\ st(i) = was.state
      /\ was.broken => \E i \in 1 .. n - 1 : Offset(runs, i - 1) >= end
  BY DEF FoundIn
<1>8. n \in 1 .. n
  OBVIOUS
<1>9. SUFFICES /\ \A i \in 1 .. n : over(i) => st(i) <= found.state
               /\ found.state = 0 \/ \E i \in 1 .. n : over(i) /\ st(i) = found.state
               /\ found.broken => \E i \in 1 .. n : Offset(runs, i - 1) >= end
  BY <1>1 DEF FoundIn
<1>10. CASE was.broken \/ Skipped(runs, n, start)
  <2>1. found = was
    BY <1>10 DEF LookAt
  <2>2. ~over(n)
    <3>1. was.broken => Offset(runs, n - 1) >= end
      BY <1>3, <1>7
    <3> QED
      BY <1>3, <1>10, <3>1 DEF Overlaps, Skipped
  <2> HIDE DEF found, over, st
  <2> QED
    BY <1>5, <1>6, <1>7, <2>1, <2>2
<1>11. CASE ~was.broken /\ ~Skipped(runs, n, start) /\ Breaks(runs, n, end)
  <2>1. found = [was EXCEPT !.broken = TRUE]
    BY <1>11 DEF LookAt
  <2>2. found.state = was.state
    BY <1>1, <2>1 DEF Found
  <2>3. ~over(n) /\ Offset(runs, n - 1) >= end
    BY <1>3, <1>11 DEF Overlaps, Breaks
  <2> HIDE DEF found, over, st
  <2> QED
    BY <1>5, <1>6, <1>7, <1>8, <2>2, <2>3
<1>12. CASE ~was.broken /\ ~Skipped(runs, n, start) /\ ~Breaks(runs, n, end)
  <2>1. found = [was EXCEPT !.state = IF st(n) > was.state THEN st(n) ELSE was.state]
    BY <1>12 DEF LookAt
  <2>2. /\ found.state = IF st(n) > was.state THEN st(n) ELSE was.state
        /\ ~found.broken
    BY <1>1, <1>12, <2>1 DEF Found
  <2>3. over(n)
    BY <1>3, <1>12 DEF Overlaps, Skipped, Breaks
  <2>4. st(n) \in Nat
    BY <1>4, <1>8
  <2> HIDE DEF found, over, st
  <2>5. CASE st(n) > was.state
    <3>1. found.state = st(n)
      BY <2>2, <2>5
    <3>2. \A i \in 1 .. n : over(i) => st(i) <= st(n)
      <4> TAKE i \in 1 .. n
      <4>1. i \in 1 .. n - 1 /\ over(i) => st(i) <= was.state
        BY <1>7
      <4> QED
        BY <1>2, <1>4, <1>5, <2>4, <2>5, <4>1
    <3> QED
      BY <1>8, <2>2, <2>3, <3>1, <3>2
  <2>6. CASE ~(st(n) > was.state)
    <3>1. found.state = was.state /\ st(n) <= was.state
      BY <1>2, <2>2, <2>4, <2>6
    <3> QED
      BY <1>5, <1>6, <1>7, <2>2, <3>1
  <2> QED
    BY <2>5, <2>6
<1> QED
  BY <1>10, <1>11, <1>12

(* The loop of dominantState, which skips the runs before a range of       *)
(* pieces and stops at the first one behind it, finds the most advanced    *)
(* state of all runs that overlap the range, and pending where none does.  *)
THEOREM DominantStateIsTheMostAdvanced ==
  ASSUME NEW runs \in Seq(Run), NEW start \in Int, NEW end \in Int
  PROVE  LET under == {i \in 1 .. Len(runs) : Overlaps(runs, i, start, end)}
             shown == DominantState(runs, start, end)
         IN  /\ \A i \in under : runs[i].state <= shown
             /\ shown = 0 \/ \E i \in under : runs[i].state = shown
<1> DEFINE len == Len(runs)
           after == CHOOSE f : IsScan(runs, start, end, f)
           Part(n) == FoundIn(runs, start, end, n, after[n])
<1>1. len \in Nat
  OBVIOUS
<1>2. DominantState(runs, start, end) = after[len].state
  BY DEF DominantState, IsScan
<1>3. IsScan(runs, start, end, after)
  BY ScanExists
<1> HIDE DEF after
<1>4. /\ after[0] = [state |-> 0, broken |-> FALSE]
      /\ \A i \in 1 .. len : after[i] = LookAt(runs, i, start, end, after[i - 1])
  <2> DEFINE Step(i) == IF i = 0 THEN [state |-> 0, broken |-> FALSE]
                        ELSE LookAt(runs, i, start, end, after[i - 1])
  <2>1. after = [i \in 0 .. len |-> Step(i)]
    BY <1>3 DEF IsScan
  <2> HIDE DEF Step, len
  <2>2. \A i \in 0 .. len : after[i] = Step(i)
    BY <2>1, Zenon
  <2>3. 0 \in 0 .. len /\ \A i \in 1 .. len : i \in 0 .. len /\ i # 0
    BY <1>1
  <2>4. after[0] = Step(0) /\ \A i \in 1 .. len : after[i] = Step(i) /\ i # 0
    BY <2>2, <2>3, Zenon
  <2> QED
    BY <2>4, Zenon DEF Step
<1>5. Part(0)
  BY <1>4 DEF FoundIn, Found, PieceState
<1>6. \A n \in 1 .. len : Part(n - 1) => Part(n)
  BY <1>4, LookAtStep
<1> HIDE DEF Part, len
<1>7. Part(len)
  <2> DEFINE Bad == {n \in 0 .. len : ~Part(n)}
  <2>1. ASSUME Bad # {} PROVE FALSE
    <3>1. Bad \in SUBSET Nat
      BY <1>1
    <3>2. PICK n \in Bad : \A m \in Bad : n <= m
      BY <2>1, <3>1, LeastNumber
    <3>3. n \in 1 .. len /\ ~Part(n)
      BY <1>1, <1>5, <3>2
    <3>4. n - 1 \in 0 .. len /\ ~(n <= n - 1)
      BY <1>1, <3>3
    <3> QED
      BY <1>6, <3>2, <3>3, <3>4
  <2> QED
    BY <1>1, <2>1
<1> QED
  BY <1>2, <1>7 DEF Part, FoundIn, len

(* A column shows the dominant state of the pieces it stands for, of which *)
(* there is one at least.                                                  *)
LEMMA StripColumn ==
  ASSUME NEW runs \in Seq(Run), NEW width \in Nat, width >= 4,
         Total(runs) \in Nat \ {0}, NEW col \in 0 .. width - 1
  PROVE  LET start == ColumnStart(col, Total(runs), width)
             end == ColumnEnd(col, Total(runs), width)
         IN  /\ start \in Nat /\ end \in Nat /\ start < end /\ start < Total(runs)
             /\ PieceStrip(runs, width)[col] = DominantState(runs, start, end)
<1> DEFINE total == Total(runs)
           start == ColumnStart(col, total, width)
           end == ColumnEnd(col, total, width)
<1>1. total \in Nat \ {0} /\ width \in Nat \ {0} /\ col \in Nat /\ col + 1 \in Nat
  OBVIOUS
<1> HIDE DEF total
<1>2. /\ start \in Nat /\ ColumnStart(col + 1, total, width) \in Nat
      /\ start * width <= col * total
  BY <1>1, ColumnStarts
<1>3. end = IF start + 1 >= ColumnStart(col + 1, total, width) THEN start + 1
            ELSE ColumnStart(col + 1, total, width)
  BY <1>1, ColumnEnds
<1>4. PieceStrip(runs, width)[col] = DominantState(runs, start, end)
  <2>1. Max({width, 1}) = width
    BY <1>1, MaxOfPair
  <2>2. total # 0 /\ ~(width < 4)
    BY <1>1
  <2> QED
    BY <2>1, <2>2 DEF PieceStrip, total
<1>5. start < total
  <2>1. col * total < width * total /\ col * total \in Int /\ width * total \in Int
    BY <1>1, ProductOrder
  <2>2. width * total = total * width
    BY <1>1
  <2>3. start * width < total * width
    <3>1. start * width \in Int
      BY <1>1, <1>2, ProductOrder
    <3> HIDE DEF start
    <3> QED
      BY <1>2, <2>1, <2>2, <3>1
  <2> QED
    BY <1>1, <1>2, <2>3, ProductOrder
<1> HIDE DEF start, end
<1>6. end \in Nat /\ start < end
  BY <1>2, <1>3
<1> QED
  BY <1>2, <1>4, <1>5, <1>6 DEF start, end, total

(* The offsets before and after a run are numbers no greater than Total.   *)
LEMMA RunOffsets ==
  ASSUME NEW runs \in Seq(Run), NEW i \in 1 .. Len(runs)
  PROVE  /\ Offset(runs, i - 1) \in Nat /\ Offset(runs, i) \in Nat
         /\ Total(runs) \in Nat
         /\ Offset(runs, i - 1) < Offset(runs, i) /\ Offset(runs, i) <= Total(runs)
<1>1. i - 1 \in 0 .. Len(runs) /\ i \in 0 .. Len(runs) /\ Len(runs) \in 0 .. Len(runs)
  OBVIOUS
<1>2. i <= Len(runs)
  OBVIOUS
<1> QED
  BY <1>1, <1>2, OffsetsGrow DEF Total

(* Each piece of run i lies under a column that shows the run's state or a *)
(* more advanced one.                                                      *)
THEOREM EveryPieceIsShown ==
  ASSUME NEW runs \in Seq(Run), NEW width \in Nat, width >= 4,
         NEW i \in 1 .. Len(runs), NEW p \in Nat,
         Offset(runs, i - 1) <= p, p < Offset(runs, i)
  PROVE  \E col \in 0 .. width - 1 :
           /\ p * width < (col + 1) * Total(runs) /\ col * Total(runs) < (p + 1) * width
           /\ PieceStrip(runs, width)[col] >= runs[i].state
<1> DEFINE total == Total(runs)
<1>1. total \in Nat \ {0} /\ width \in Nat \ {0} /\ p \in 0 .. total - 1
  BY RunOffsets
<1>2. Offset(runs, i - 1) \in Nat /\ Offset(runs, i) \in Nat
  BY RunOffsets
<1> HIDE DEF total
<1>3. PICK col \in 0 .. width - 1 :
        ColumnStart(col, total, width) <= p /\ p < ColumnEnd(col, total, width)
  BY <1>1, EveryPieceHasAColumn
<1>4. col \in Nat
  BY <1>3
<1> DEFINE start == ColumnStart(col, total, width)
           end == ColumnEnd(col, total, width)
<1>5. p * width < (col + 1) * total /\ col * total < (p + 1) * width
  BY <1>1, <1>3, <1>4, ColumnsAreToScale
<1>6. /\ start \in Nat /\ end \in Nat
      /\ PieceStrip(runs, width)[col] = DominantState(runs, start, end)
  BY <1>1, StripColumn DEF total
<1>7. start <= p /\ p < end
  BY <1>3
<1> HIDE DEF start, end
<1>8. Overlaps(runs, i, start, end) /\ start \in Int /\ end \in Int
  BY <1>1, <1>2, <1>6, <1>7 DEF Overlaps
<1>9. runs[i].state <= DominantState(runs, start, end)
  BY <1>8, DominantStateIsTheMostAdvanced
<1>10. DominantState(runs, start, end) \in Nat /\ runs[i].state \in Nat
  <2>1. \A j \in 1 .. Len(runs) : runs[j].state \in Nat
    <3>1. \A j \in 1 .. Len(runs) : runs[j] \in Run
      OBVIOUS
    <3>2. \A run \in Run : run.state \in Nat
      BY DEF Run, PieceState
    <3> QED
      BY <3>1, <3>2
  <2>2. \/ DominantState(runs, start, end) = 0
        \/ \E j \in 1 .. Len(runs) : runs[j].state = DominantState(runs, start, end)
    BY <1>8, DominantStateIsTheMostAdvanced
  <2> QED
    BY <2>1, <2>2
<1> QED
  BY <1>3, <1>5, <1>6, <1>9, <1>10 DEF total

(* Each column shows the state of a piece that lies under it: pending only *)
(* if such a piece is pending.                                             *)
THEOREM EveryColumnShowsAPiece ==
  ASSUME NEW runs \in Seq(Run), NEW width \in Nat, width >= 4,
         Total(runs) \in Nat \ {0}, NEW col \in 0 .. width - 1
  PROVE  \E i \in 1 .. Len(runs), p \in Nat :
           /\ Offset(runs, i - 1) <= p /\ p < Offset(runs, i)
           /\ p * width < (col + 1) * Total(runs) /\ col * Total(runs) < (p + 1) * width
           /\ PieceStrip(runs, width)[col] = runs[i].state
<1> DEFINE total == Total(runs)
           start == ColumnStart(col, total, width)
           end == ColumnEnd(col, total, width)
           shown == DominantState(runs, start, end)
<1>1. /\ start \in Nat /\ end \in Nat /\ start < end /\ start < total
      /\ PieceStrip(runs, width)[col] = shown
  BY StripColumn
<1>2. total \in Nat \ {0} /\ width \in Nat \ {0} /\ col \in Nat
  OBVIOUS
<1>3. PICK first \in 1 .. Len(runs) :
        Offset(runs, first - 1) <= start /\ start < Offset(runs, first)
  <2>1. start \in 0 .. total - 1
    <3> HIDE DEF start, total
    <3> QED
      BY <1>1, <1>2
  <2> HIDE DEF start
  <2> QED
    BY <2>1, RunOfPiece
<1>4. Overlaps(runs, first, start, end) /\ start \in Int /\ end \in Int
  <2>1. Offset(runs, first - 1) \in Nat
    BY RunOffsets
  <2> HIDE DEF start, end
  <2> QED
    BY <1>1, <1>3, <2>1 DEF Overlaps
<1>5. PICK i \in 1 .. Len(runs) : Overlaps(runs, i, start, end) /\ runs[i].state = shown
  <2> HIDE DEF start, end
  <2>1. /\ runs[first].state <= shown
        /\ shown = 0 \/ \E i \in 1 .. Len(runs) :
                          Overlaps(runs, i, start, end) /\ runs[i].state = shown
    BY <1>4, DominantStateIsTheMostAdvanced
  <2>2. runs[first].state \in Nat
    <3>1. runs[first] \in Run
      OBVIOUS
    <3> QED
      BY <3>1 DEF Run, PieceState
  <2>3. shown = 0 => runs[first].state = shown
    BY <2>1, <2>2
  <2> QED
    BY <1>4, <2>1, <2>3
<1>6. /\ Offset(runs, i) > start /\ Offset(runs, i - 1) < end
      /\ Offset(runs, i - 1) \in Nat /\ Offset(runs, i) \in Nat
      /\ Offset(runs, i - 1) < Offset(runs, i)
  BY <1>5, RunOffsets DEF Overlaps
<1> HIDE DEF start, end, shown, total
<1>7. PICK p \in Nat : /\ Offset(runs, i - 1) <= p /\ p < Offset(runs, i)
                       /\ start <= p /\ p < end
  <2>1. CASE Offset(runs, i - 1) <= start
    BY <1>1, <1>6, <2>1
  <2>2. CASE start < Offset(runs, i - 1)
    BY <1>1, <1>6, <2>2
  <2> QED
    BY <1>1, <1>6, <2>1, <2>2
<1>8. p * width < (col + 1) * total /\ col * total < (p + 1) * width
  BY <1>2, <1>7, ColumnsAreToScale DEF start, end
<1> QED
  BY <1>1, <1>5, <1>7, <1>8 DEF total

(* StripShowsEveryPiece: for any pieces and any width, the strip matches   *)
(* the pieces laid out one by one.                                         *)
THEOREM StripIsTrue == Spec => []StripShowsEveryPiece
<1>1. TypeOK => StripShowsEveryPiece
  <2> SUFFICES ASSUME TypeOK, NEW width \in Widths, width >= 4
               PROVE  LET strip == PieceStrip(pieces, width)
                          states == Laid(pieces)
                          total == Len(states)
                          Under(p, col) == (p - 1) * width < (col + 1) * total
                                           /\ p * width > col * total
                      IN  total > 0 =>
                            /\ \A col \in 0 .. width - 1 :
                                 \E p \in 1 .. total : Under(p, col) /\ strip[col] = states[p]
                            /\ \A p \in 1 .. total :
                                 \E col \in 0 .. width - 1 :
                                   Under(p, col) /\ strip[col] >= states[p]
    BY DEF StripShowsEveryPiece
  <2> DEFINE runs == pieces
             total == Total(runs)
             states == Laid(runs)
             strip == PieceStrip(runs, width)
  <2>1. runs \in Seq(Run) /\ width \in Nat
    <3>1. pieces \in Maps \/ pieces = <<>>
      BY DEF TypeOK
    <3>2. <<>> \in Seq(Run)
      OBVIOUS
    <3> QED
      BY <3>1, <3>2, TransferAssumption
  <2> HIDE DEF runs
  <2>2. /\ Len(states) = total /\ total \in Nat
        /\ \A i \in 1 .. Len(runs), q \in Nat :
             Offset(runs, i - 1) < q /\ q <= Offset(runs, i) => states[q] = runs[i].state
    BY <2>1, LaidOut
  <2> SUFFICES ASSUME total > 0
               PROVE  /\ \A col \in 0 .. width - 1 :
                           \E q \in 1 .. total :
                             /\ (q - 1) * width < (col + 1) * total /\ q * width > col * total
                             /\ strip[col] = states[q]
                      /\ \A q \in 1 .. total :
                           \E col \in 0 .. width - 1 :
                             /\ (q - 1) * width < (col + 1) * total /\ q * width > col * total
                             /\ strip[col] >= states[q]
    BY <2>2 DEF runs
  <2>3. total \in Nat \ {0}
    BY <2>2
  <2>4. ASSUME NEW i \in 1 .. Len(runs), NEW p \in Nat,
               Offset(runs, i - 1) <= p, p < Offset(runs, i)
        PROVE  /\ p + 1 \in 1 .. total /\ (p + 1) - 1 = p
               /\ states[p + 1] = runs[i].state
    <3>1. /\ Offset(runs, i - 1) \in Nat /\ Offset(runs, i) \in Nat
          /\ Offset(runs, i) <= total
      BY <2>1, RunOffsets
    <3> HIDE DEF total, states
    <3>2. Offset(runs, i - 1) < p + 1 /\ p + 1 <= Offset(runs, i) /\ p + 1 \in Nat
      BY <2>4, <3>1
    <3>3. states[p + 1] = runs[i].state
      BY <2>2, <3>2
    <3>4. p + 1 \in 1 .. total /\ (p + 1) - 1 = p
      BY <2>3, <2>4, <3>1, <3>2
    <3> QED
      BY <3>3, <3>4
  <2>5. ASSUME NEW col \in 0 .. width - 1
        PROVE  \E q \in 1 .. total :
                 /\ (q - 1) * width < (col + 1) * total /\ q * width > col * total
                 /\ strip[col] = states[q]
    <3>1. PICK i \in 1 .. Len(runs), p \in Nat :
            /\ Offset(runs, i - 1) <= p /\ p < Offset(runs, i)
            /\ p * width < (col + 1) * total /\ col * total < (p + 1) * width
            /\ strip[col] = runs[i].state
      BY <2>1, <2>3, EveryColumnShowsAPiece
    <3>2. /\ p + 1 \in 1 .. total /\ (p + 1) - 1 = p
          /\ states[p + 1] = runs[i].state
      BY <2>4, <3>1
    <3> HIDE DEF total, states, strip
    <3>3. (p + 1) * width > col * total
      <4>1. (p + 1) * width \in Int /\ col * total \in Int
        BY <2>1, <2>3
      <4> QED
        BY <3>1, <4>1
    <3> QED
      BY <3>1, <3>2, <3>3
  <2>6. ASSUME NEW q \in 1 .. total
        PROVE  \E col \in 0 .. width - 1 :
                 /\ (q - 1) * width < (col + 1) * total /\ q * width > col * total
                 /\ strip[col] >= states[q]
    <3> DEFINE p == q - 1
    <3>1. p \in 0 .. total - 1 /\ p \in Nat /\ p + 1 = q
      BY <2>3
    <3> HIDE DEF p
    <3>2. PICK i \in 1 .. Len(runs) : Offset(runs, i - 1) <= p /\ p < Offset(runs, i)
      BY <2>1, <3>1, RunOfPiece
    <3>3. PICK col \in 0 .. width - 1 :
            /\ p * width < (col + 1) * total /\ col * total < (p + 1) * width
            /\ strip[col] >= runs[i].state
      BY <2>1, <3>1, <3>2, EveryPieceIsShown
    <3>4. states[q] = runs[i].state
      BY <2>4, <3>1, <3>2
    <3> HIDE DEF total, states, strip
    <3>5. q * width > col * total
      BY <2>1, <2>3, <3>1, <3>3
    <3> WITNESS col \in 0 .. width - 1
    <3> QED
      BY <3>1, <3>3, <3>4, <3>5 DEF p
  <2> QED
    BY <2>5, <2>6
<1> QED
  BY <1>1, RatesAreOfTransfers, PTL
=============================================================================
