--------------------------- MODULE DashboardProofs ---------------------------
(***************************************************************************)
(* Theorems about Dashboard for any number of messages, keys pressed and   *)
(* log lines kept.                                                         *)
(***************************************************************************)
EXTENDS Dashboard, FiniteSetTheorems, TLAPS

(* TypeOK in parts.                                                        *)
ProgramOK ==
  /\ program \in {"off", "running", "over"}
  /\ castStatus \in State /\ lastState \in State
  /\ device \in Playing \cup {"IDLE"}

QueuesOK ==
  /\ pending \in Seq(Message) /\ flushing \in Seq(Message)
  /\ sending \in [Senders -> Message \cup {Nothing}]

NumbersOK ==
  /\ sent \in 0 .. MaxSent /\ buffered \in 0 .. sent /\ latest \in 0 .. sent
  /\ delivered \in SUBSET (1 .. sent)

LogsOK == logs \in Seq(Line) /\ Len(logs) <= MaxLogLines

CommandsOK == commands \in Seq({"pause", "unpause", "stop"})

Types ==
  started \in BOOLEAN /\ ProgramOK /\ QueuesOK /\ NumbersOK /\ LogsOK /\ CommandsOK

(* Messages are buffered before Run and sent directly afterwards, and the  *)
(* loop turns only then.                                                   *)
StartInv ==
  /\ ~started =>
       /\ flushing = <<>> /\ \A s \in Senders : sending[s] = Nothing
       /\ program = "off" /\ buffered = sent
  /\ started => pending = <<>>
  /\ program = "off" => delivered = {} /\ latest = 0

(* What was buffered is flushed in the order it was sent in, and is older  *)
(* than whatever is sent directly.                                         *)
Sorted(seq) == \A i, j \in 1 .. Len(seq) : i < j => seq[i].number < seq[j].number

OrderInv ==
  /\ Sorted(pending) /\ Sorted(flushing)
  /\ \A i \in 1 .. Len(pending) : pending[i].number <= buffered
  /\ \A i \in 1 .. Len(flushing) : flushing[i].number <= buffered
  /\ \A s \in Senders : sending[s] # Nothing =>
       buffered < sending[s].number /\ sending[s].number <= sent

(* The caster sends the statuses, one at a time.                           *)
StatusInv ==
  /\ sending["session"] # Nothing => sending["session"].kind = "log"
  /\ sending["caster"] # Nothing => latest < sending["caster"].number
  /\ latest <= buffered =>
       \A i \in 1 .. Len(flushing) : latest < flushing[i].number

(* No message is in two places.                                            *)
OnceInv ==
  /\ \A s, t \in Senders :
       sending[s] # Nothing /\ sending[t] # Nothing /\ s # t =>
         sending[s].number # sending[t].number
  /\ \A s \in Senders : sending[s] # Nothing => sending[s].number \notin delivered
  /\ \A i \in 1 .. Len(flushing) : flushing[i].number \notin delivered

IInv ==
  /\ Types
  /\ StartInv /\ OrderInv /\ StatusInv /\ OnceInv
  /\ MessagesAreConserved

----------------------------------------------------------------------------
(* Messages and queues *)

(* A message is not the placeholder of a sender that has none.             *)
LEMMA MessageFields ==
  ASSUME NEW msg \in Message
  PROVE  /\ msg # Nothing
         /\ msg.kind \in {"cast", "log"} /\ msg.state \in State
         /\ msg.number \in 1 .. MaxSent
<1>1. msg = [kind |-> msg.kind, state |-> msg.state, number |-> msg.number]
  BY DEF Message
<1>2. DOMAIN msg = {"kind", "state", "number"}
  BY <1>1
<1>3. DOMAIN Nothing = {}
  BY DEF Nothing
<1> QED
  BY <1>2, <1>3 DEF Message

(* Appending to a queue adds the number of its new message.                *)
LEMMA NumbersOfAppend ==
  ASSUME NEW seq \in Seq(Message), NEW msg \in Message
  PROVE  Numbers(Append(seq, msg)) = Numbers(seq) \cup {msg.number}
<1> DEFINE longer == Append(seq, msg)
<1>1. /\ Len(longer) = Len(seq) + 1 /\ Len(seq) \in Nat
      /\ longer[Len(seq) + 1] = msg
      /\ \A i \in 1 .. Len(seq) : longer[i] = seq[i]
  OBVIOUS
<1> HIDE DEF longer
<1>2. 1 .. Len(longer) = (1 .. Len(seq)) \cup {Len(seq) + 1}
  BY <1>1
<1>3. Numbers(longer) = Numbers(seq) \cup {msg.number}
  BY <1>1, <1>2 DEF Numbers
<1> QED
  BY <1>3 DEF longer

(* Taking the head of a queue removes the number of that message.          *)
LEMMA NumbersOfTail ==
  ASSUME NEW seq \in Seq(Message), seq # <<>>
  PROVE  Numbers(seq) = Numbers(Tail(seq)) \cup {Head(seq).number}
<1>1. /\ Len(Tail(seq)) = Len(seq) - 1 /\ Len(seq) \in Nat \ {0}
      /\ Head(seq) = seq[1]
      /\ \A i \in 1 .. Len(Tail(seq)) : Tail(seq)[i] = seq[i + 1]
  OBVIOUS
<1>2. Numbers(Tail(seq)) \subseteq Numbers(seq)
  BY <1>1 DEF Numbers
<1>3. ASSUME NEW i \in 1 .. Len(seq), i # 1
      PROVE  seq[i].number \in Numbers(Tail(seq))
  <2>1. i - 1 \in 1 .. Len(Tail(seq)) /\ Tail(seq)[i - 1] = seq[i]
    BY <1>1, <1>3
  <2> QED
    BY <2>1 DEF Numbers
<1>4. Head(seq).number \in Numbers(seq)
  BY <1>1 DEF Numbers
<1>5. Numbers(seq) \subseteq Numbers(Tail(seq)) \cup {Head(seq).number}
  BY <1>1, <1>3 DEF Numbers
<1> QED
  BY <1>2, <1>4, <1>5

(* An empty queue has no numbers.                                          *)
LEMMA NumbersOfNone == Numbers(<<>>) = {}
  BY DEF Numbers

(* Appending the newest keeps a queue sorted, and so does taking its head. *)
LEMMA SortedAppend ==
  ASSUME NEW seq \in Seq(Message), NEW msg \in Message, Sorted(seq),
         \A i \in 1 .. Len(seq) : seq[i].number < msg.number
  PROVE  Sorted(Append(seq, msg))
<1> DEFINE longer == Append(seq, msg)
<1>1. /\ Len(longer) = Len(seq) + 1 /\ Len(seq) \in Nat
      /\ longer[Len(seq) + 1] = msg
      /\ \A i \in 1 .. Len(seq) : longer[i] = seq[i]
  OBVIOUS
<1> HIDE DEF longer
<1>2. Sorted(longer)
  BY <1>1 DEF Sorted
<1> QED
  BY <1>2 DEF longer

(* What is left of a sorted queue is newer than its head.                  *)
LEMMA SortedTail ==
  ASSUME NEW seq \in Seq(Message), seq # <<>>, Sorted(seq)
  PROVE  /\ Sorted(Tail(seq))
         /\ \A i \in 1 .. Len(Tail(seq)) : Head(seq).number < Tail(seq)[i].number
<1>1. /\ Len(Tail(seq)) = Len(seq) - 1 /\ Len(seq) \in Nat \ {0}
      /\ Head(seq) = seq[1]
      /\ \A i \in 1 .. Len(Tail(seq)) : Tail(seq)[i] = seq[i + 1]
  OBVIOUS
<1> QED
  BY <1>1 DEF Sorted

(* A sender that begins to wait in Send puts its message on its way.       *)
LEMMA InFlightStarts ==
  ASSUME QueuesOK, NEW s \in Senders, sending[s] = Nothing, NEW msg \in Message,
         sending' = [sending EXCEPT ![s] = msg]
  PROVE  InFlight' = InFlight \cup {msg.number}
<1>1. sending'[s] = msg /\ msg # Nothing
  BY MessageFields DEF QueuesOK
<1>2. \A t \in Senders \ {s} : sending'[t] = sending[t]
  BY DEF QueuesOK
<1>3. {t \in Senders : sending'[t] # Nothing}
        = {t \in Senders : sending[t] # Nothing} \cup {s}
  BY <1>1, <1>2
<1> QED
  BY <1>1, <1>2, <1>3 DEF InFlight

(* A sender whose message is received has none on its way.                 *)
LEMMA InFlightEnds ==
  ASSUME QueuesOK, OnceInv, NEW s \in Senders, sending[s] # Nothing,
         sending' = [sending EXCEPT ![s] = Nothing]
  PROVE  /\ InFlight' = InFlight \ {sending[s].number}
         /\ sending[s].number \in InFlight
<1>1. sending'[s] = Nothing
  BY DEF QueuesOK
<1>2. \A t \in Senders \ {s} : sending'[t] = sending[t]
  BY DEF QueuesOK
<1>3. {t \in Senders : sending'[t] # Nothing}
        = {t \in Senders : sending[t] # Nothing} \ {s}
  BY <1>1, <1>2
<1> QED
  BY <1>1, <1>2, <1>3 DEF InFlight, OnceInv

(* As many messages are on their way as can be counted.                    *)
LEMMA InFlightFinite ==
  ASSUME QueuesOK
  PROVE  IsFiniteSet(InFlight) /\ Cardinality(InFlight) \in Nat
<1>1. InFlight \subseteq 1 .. MaxSent
  BY MessageFields DEF QueuesOK, InFlight
<1>2. IsFiniteSet(1 .. MaxSent)
  BY DashboardAssumption, FS_Interval
<1> QED
  BY <1>1, <1>2, FS_Subset, FS_CardinalityType

(* As many have been delivered as can be counted.                          *)
LEMMA DeliveredFinite ==
  ASSUME NumbersOK
  PROVE  IsFiniteSet(delivered) /\ Cardinality(delivered) \in Nat
<1>1. IsFiniteSet(1 .. sent)
  BY DashboardAssumption, FS_Interval DEF NumbersOK
<1> QED
  BY <1>1, FS_Subset, FS_CardinalityType DEF NumbersOK

----------------------------------------------------------------------------
(* What the steps do with messages *)

(* The message of a Send is the newest; its sender keeps it, or the buffer.*)
Direct(s, msg) ==
  /\ started
  /\ sending' = [sending EXCEPT ![s] = msg]
  /\ UNCHANGED <<pending, buffered>>

Buffered(msg) ==
  /\ ~started
  /\ pending' = Append(pending, msg) /\ buffered' = sent + 1
  /\ UNCHANGED sending

SentBy(s, msg) ==
  /\ msg.number = sent + 1 /\ sent' = sent + 1 /\ sent < MaxSent
  /\ sending[s] = Nothing
  /\ s = "session" => msg.kind = "log"
  /\ Direct(s, msg) \/ Buffered(msg)
  /\ UNCHANGED <<started, flushing, program, modelVars, commands, device,
                 delivered, latest>>

(* CastStatus and Logf each send one message.                              *)
LEMMA SendStep ==
  ASSUME Types, CastStatus \/ Logf
  PROVE  \E s \in Senders, msg \in Message : SentBy(s, msg)
<1>1. ASSUME NEW s \in Senders, NEW kind \in {"cast", "log"}, NEW st \in State,
             s = "session" => kind = "log", Send(s, kind, st)
      PROVE  \E msg \in Message : SentBy(s, msg)
  <2> DEFINE msg == [kind |-> kind, state |-> st, number |-> sent + 1]
  <2>1. sent < MaxSent /\ sent + 1 \in 1 .. MaxSent
    BY <1>1, DashboardAssumption DEF Send, Types, NumbersOK
  <2>2. msg \in Message /\ msg.number = sent + 1 /\ msg.kind = kind
    BY <2>1 DEF Message
  <2>3. Direct(s, msg) \/ Buffered(msg)
    BY <1>1 DEF Send, Direct, Buffered
  <2>4. SentBy(s, msg)
    <3> HIDE DEF msg
    <3> QED
      BY <1>1, <2>1, <2>2, <2>3 DEF Send, SentBy
  <2> QED
    BY <2>2, <2>4
<1>2. CASE CastStatus
  <2>1. PICK st \in {device, ""} : device \in Playing /\ Send("caster", "cast", st)
    BY <1>2 DEF CastStatus
  <2>2. st \in State /\ "caster" \in Senders /\ "caster" # "session"
    BY <2>1 DEF State, Senders
  <2> QED
    BY <1>1, <2>1, <2>2
<1>3. CASE Logf
  <2>1. "" \in State /\ "session" \in Senders
    BY DEF State, Senders
  <2> QED
    BY <1>1, <1>3, <2>1 DEF Logf
<1> QED
  BY <1>2, <1>3

(* The log pane drops its oldest lines, and keeps no more than its limit.  *)
LEMMA CappedLines ==
  ASSUME NEW lines \in Seq(Line)
  PROVE  Capped(lines) \in Seq(Line) /\ Len(Capped(lines)) <= MaxLogLines
<1>1. CASE Len(lines) > MaxLogLines
  <2> DEFINE from == Len(lines) - MaxLogLines + 1
  <2>1. from \in 1 .. Len(lines) /\ Len(lines) \in Nat
    BY <1>1, DashboardAssumption
  <2>2. SubSeq(lines, from, Len(lines)) \in Seq(Line)
    BY <2>1
  <2>3. Len(SubSeq(lines, from, Len(lines))) = Len(lines) - from + 1
    BY <2>1
  <2> QED
    BY <1>1, <2>2, <2>3, DashboardAssumption DEF Capped
<1>2. CASE ~(Len(lines) > MaxLogLines)
  BY <1>2, DashboardAssumption DEF Capped
<1> QED
  BY <1>1, <1>2

(* Appending a line keeps the log pane within its limit.                   *)
LEMMA AppendLogStep ==
  ASSUME LogsOK, NEW line \in Line, AppendLog(line)
  PROVE  LogsOK'
<1>1. Append(logs, line) \in Seq(Line)
  BY DEF LogsOK
<1> QED
  BY <1>1, CappedLines DEF AppendLog, LogsOK

(* A message the loop takes is delivered, and shown if it is a status.     *)
LEMMA UpdateStep ==
  ASSUME Types, NEW msg \in Message, Update(msg)
  PROVE  /\ LogsOK' /\ castStatus' \in State /\ lastState' \in State
         /\ delivered' = delivered \cup {msg.number}
         /\ latest' = IF msg.kind = "cast" THEN msg.number ELSE latest
<1> USE MessageFields
<1>1. CASE msg.kind = "cast"
  <2>1. UpdateCast(msg.state) /\ msg.state \in State
    BY <1>1 DEF Update
  <2>2. LogsOK'
    <3>1. CASE NewState(msg.state)
      BY <2>1, <3>1, AppendLogStep DEF UpdateCast, Types, Line
    <3>2. CASE ~NewState(msg.state)
      BY <2>1, <3>2 DEF UpdateCast, Types, LogsOK
    <3> QED
      BY <3>1, <3>2
  <2> QED
    BY <1>1, <2>1, <2>2 DEF Update, UpdateCast, Types, ProgramOK
<1>2. CASE msg.kind # "cast"
  <2>1. LogsOK'
    BY <1>2, AppendLogStep DEF Update, Types, Line
  <2> QED
    BY <1>2, <2>1 DEF Update, Types, ProgramOK
<1> QED
  BY <1>1, <1>2

(* What the loop receives, from a sender or from the buffer.               *)
LEMMA ReceiveStep ==
  ASSUME Types, NEW s \in Senders, Receive(s)
  PROVE  /\ sending[s] \in Message /\ sending[s] # Nothing
         /\ sending' = [sending EXCEPT ![s] = Nothing]
         /\ LogsOK' /\ castStatus' \in State /\ lastState' \in State
         /\ delivered' = delivered \cup {sending[s].number}
         /\ latest' = IF sending[s].kind = "cast" THEN sending[s].number ELSE latest
<1>1. sending[s] \in Message /\ sending[s] # Nothing
  BY DEF Types, QueuesOK, Receive
<1>2. Update(sending[s]) /\ sending' = [sending EXCEPT ![s] = Nothing]
  BY DEF Receive
<1> QED
  BY <1>1, <1>2, UpdateStep

(* The loop receives the oldest of the buffered messages (Run).            *)
LEMMA FlushedStep ==
  ASSUME Types, ReceiveFlushed
  PROVE  /\ flushing # <<>> /\ flushing' = Tail(flushing) /\ Head(flushing) \in Message
         /\ LogsOK' /\ castStatus' \in State /\ lastState' \in State
         /\ delivered' = delivered \cup {Head(flushing).number}
         /\ latest' = IF Head(flushing).kind = "cast" THEN Head(flushing).number
                      ELSE latest
<1>1. /\ flushing # <<>> /\ flushing' = Tail(flushing)
      /\ Update(Head(flushing))
  BY DEF ReceiveFlushed, FlushInOrder
<1>2. Head(flushing) \in Message
  BY <1>1 DEF Types, QueuesOK
<1> QED
  BY <1>1, <1>2, UpdateStep

----------------------------------------------------------------------------
(* Every step preserves the invariant, part by part. *)

(* The steps that neither send nor deliver.                                *)
Elsewhere ==
  \/ \E command \in {Toggle, "stop"} : Press(command)
  \/ \E i \in 1 .. Len(commands) : Command(i)

(* Keys and the device concern neither the queues nor what was delivered.  *)
LEMMA CommandsStep ==
  ASSUME Types, Elsewhere
  PROVE  /\ CommandsOK' /\ device' \in Playing \cup {"IDLE"} /\ LogsOK'
         /\ UNCHANGED <<uiVars, castStatus, lastState, histVars>>
<1>1. ASSUME NEW command \in {Toggle, "stop"}, Press(command)
      PROVE  /\ CommandsOK' /\ LogsOK'
             /\ UNCHANGED <<device, uiVars, castStatus, lastState, histVars>>
  <2>1. command \in {"pause", "unpause", "stop"}
    BY DEF Toggle
  <2>2. commands' = Append(commands, command) /\ UNCHANGED logs
    BY <1>1 DEF Press, modelVars
  <2>3. CommandsOK'
    BY <2>1, <2>2 DEF Types, CommandsOK
  <2> QED
    BY <1>1, <2>2, <2>3 DEF Press, Types, LogsOK, modelVars
<1>2. ASSUME NEW i \in 1 .. Len(commands), Command(i)
      PROVE  /\ CommandsOK' /\ LogsOK' /\ device' \in Playing \cup {"IDLE"}
             /\ UNCHANGED <<uiVars, castStatus, lastState, histVars>>
  <2>1. /\ SubSeq(commands, 1, i - 1) \in Seq({"pause", "unpause", "stop"})
        /\ SubSeq(commands, i + 1, Len(commands)) \in Seq({"pause", "unpause", "stop"})
        /\ commands[i] \in {"pause", "unpause", "stop"}
    BY <1>2 DEF Types, CommandsOK
  <2>2. CommandsOK'
    BY <1>2, <2>1 DEF Command, Without, CommandsOK
  <2>3. Obeys(commands[i]) \in Playing \cup {"IDLE"}
    BY <2>1 DEF Obeys, Playing
  <2>4. device' \in Playing \cup {"IDLE"}
    BY <1>2, <2>3 DEF Command, Types, ProgramOK
  <2>5. LogsOK'
    <3>1. CASE UNCHANGED logs
      BY <3>1 DEF Types, LogsOK
    <3>2. CASE AppendLog("event")
      BY <3>2, AppendLogStep DEF Types, Line
    <3> QED
      BY <1>2, <3>1, <3>2 DEF Command
  <2> QED
    BY <1>2, <2>2, <2>4, <2>5 DEF Command
<1> QED
  BY <1>1, <1>2 DEF Elsewhere, Types, ProgramOK

(* Every step keeps the types.                                             *)
LEMMA TypesStep ==
  ASSUME Types, OrderInv, Next
  PROVE  Types'
<1> USE DashboardAssumption
<1>1. CASE CastStatus \/ Logf
  <2>1. PICK s \in Senders, msg \in Message : SentBy(s, msg)
    BY <1>1, SendStep
  <2>2. QueuesOK'
    <3>1. UNCHANGED flushing
      BY <2>1 DEF SentBy
    <3>2. CASE Direct(s, msg)
      BY <3>1, <3>2 DEF Direct, Types, QueuesOK
    <3>3. CASE Buffered(msg)
      BY <3>1, <3>3 DEF Buffered, Types, QueuesOK
    <3> QED
      BY <2>1, <3>2, <3>3 DEF SentBy
  <2>3. NumbersOK'
    <3>1. buffered' \in {buffered, sent + 1} /\ sent' = sent + 1 /\ sent < MaxSent
          /\ UNCHANGED <<delivered, latest>>
      BY <2>1 DEF SentBy, Direct, Buffered
    <3> QED
      BY <3>1 DEF Types, NumbersOK
  <2> QED
    BY <2>1, <2>2, <2>3
      DEF SentBy, Types, ProgramOK, LogsOK, CommandsOK, modelVars
<1>2. CASE Run
  <2>1. QueuesOK'
    BY <1>2 DEF Run, TakenByFlusher, Types, QueuesOK
  <2> QED
    BY <1>2, <2>1
      DEF Run, Types, ProgramOK, LogsOK, CommandsOK, NumbersOK, modelVars, histVars
<1>3. CASE ProgramRuns \/ ProgramEnds
  BY <1>3 DEF ProgramRuns, ProgramEnds, Types, ProgramOK, QueuesOK, LogsOK, CommandsOK,
    NumbersOK, modelVars, histVars
<1>4. ASSUME NEW s \in Senders, Receive(s)
      PROVE  Types'
  <2>1. QueuesOK'
    BY <1>4, ReceiveStep DEF Receive, Types, QueuesOK
  <2>2. sending[s].number \in 1 .. sent
    BY <1>4, ReceiveStep, MessageFields DEF OrderInv, Types, NumbersOK
  <2>3. NumbersOK'
    <3>1. /\ delivered' = delivered \cup {sending[s].number}
          /\ latest' \in {latest, sending[s].number}
          /\ UNCHANGED <<sent, buffered>>
      BY <1>4, ReceiveStep DEF Receive
    <3>2. delivered' \subseteq 1 .. sent'
      BY <2>2, <3>1 DEF Types, NumbersOK
    <3>3. latest' \in 0 .. sent' /\ sent' \in 0 .. MaxSent /\ buffered' \in 0 .. sent'
      BY <2>2, <3>1 DEF Types, NumbersOK
    <3> QED
      BY <3>2, <3>3 DEF NumbersOK
  <2> QED
    BY <1>4, <2>1, <2>3, ReceiveStep DEF Receive, Types, ProgramOK, CommandsOK
<1>5. CASE ReceiveFlushed
  <2>1. QueuesOK'
    <3>1. Tail(flushing) \in Seq(Message)
      BY <1>5, FlushedStep DEF Types, QueuesOK
    <3> QED
      BY <1>5, <3>1, FlushedStep DEF ReceiveFlushed, Types, QueuesOK
  <2>2. Head(flushing).number \in 1 .. sent
    <3>1. Len(flushing) \in Nat \ {0} /\ Head(flushing) = flushing[1]
      BY <1>5, FlushedStep DEF Types, QueuesOK
    <3>2. Head(flushing).number <= buffered /\ Head(flushing).number \in 1 .. MaxSent
      BY <1>5, <3>1, FlushedStep, MessageFields DEF OrderInv
    <3> QED
      BY <3>2 DEF Types, NumbersOK
  <2>3. NumbersOK'
    <3>1. /\ delivered' = delivered \cup {Head(flushing).number}
          /\ latest' \in {latest, Head(flushing).number}
          /\ UNCHANGED <<sent, buffered>>
      BY <1>5, FlushedStep DEF ReceiveFlushed
    <3>2. delivered' \subseteq 1 .. sent'
      BY <2>2, <3>1 DEF Types, NumbersOK
    <3>3. latest' \in 0 .. sent' /\ sent' \in 0 .. MaxSent /\ buffered' \in 0 .. sent'
      BY <2>2, <3>1 DEF Types, NumbersOK
    <3> QED
      BY <3>2, <3>3 DEF NumbersOK
  <2> QED
    BY <1>5, <2>1, <2>3, FlushedStep DEF ReceiveFlushed, Types, ProgramOK, CommandsOK
<1>6. CASE SendDropped
  <2>1. QueuesOK'
    BY <1>6 DEF SendDropped, Types, QueuesOK
  <2> QED
    BY <1>6, <2>1 DEF SendDropped, Types, ProgramOK, LogsOK, CommandsOK,
      NumbersOK, modelVars, histVars
<1>7. CASE Elsewhere
  BY <1>7, CommandsStep DEF Types, ProgramOK, QueuesOK, NumbersOK, uiVars, histVars
<1> HIDE DashboardAssumption
<1> QED
  BY <1>1, <1>2, <1>3, <1>4, <1>5, <1>6, <1>7 DEF Next, Delivery, Elsewhere

(* Only Run ends the buffering of messages, and empties the buffer.        *)
LEMMA StartStep ==
  ASSUME Types, StartInv, Next
  PROVE  StartInv'
<1> USE DEF StartInv
<1>1. CASE CastStatus \/ Logf
  <2>1. PICK s \in Senders, msg \in Message : SentBy(s, msg)
    BY <1>1, SendStep
  <2> QED
    BY <2>1 DEF SentBy, Direct, Buffered
<1>2. CASE Run
  BY <1>2 DEF Run, histVars
<1>3. CASE ProgramRuns \/ ProgramEnds
  BY <1>3 DEF ProgramRuns, ProgramEnds, histVars
<1>4. ASSUME NEW s \in Senders, Receive(s)
      PROVE  StartInv'
  BY <1>4 DEF Receive
<1>5. CASE ReceiveFlushed
  BY <1>5 DEF ReceiveFlushed
<1>6. CASE SendDropped
  BY <1>6 DEF SendDropped, histVars
<1>7. CASE Elsewhere
  BY <1>7, CommandsStep DEF uiVars, histVars
<1> HIDE DEF StartInv
<1> QED
  BY <1>1, <1>2, <1>3, <1>4, <1>5, <1>6, <1>7 DEF Next, Delivery, Elsewhere

(* A step with the queues as they are, but for messages dropped.           *)
Same ==
  UNCHANGED <<pending, flushing, sending, sent, buffered, delivered, latest>>

(* The steps that neither send nor receive leave the queues as they are.   *)
LEMMA SameStep ==
  ASSUME Types, ProgramRuns \/ ProgramEnds \/ Elsewhere
  PROVE  Same
BY CommandsStep DEF Same, ProgramRuns, ProgramEnds, uiVars, histVars

(* Every step keeps the queues in the order of sending.                    *)
LEMMA OrderStep ==
  ASSUME Types, StartInv, OrderInv, Next
  PROVE  OrderInv'
<1>1. CASE CastStatus \/ Logf
  <2>1. PICK s \in Senders, msg \in Message : SentBy(s, msg)
    BY <1>1, SendStep
  <2>2. /\ UNCHANGED flushing /\ sent' = sent + 1 /\ msg.number = sent + 1
        /\ sent \in Nat /\ buffered \in Nat /\ buffered <= sent
    BY <2>1, DashboardAssumption DEF SentBy, Types, NumbersOK
  <2>3. CASE Direct(s, msg)
    <3>1. /\ UNCHANGED <<pending, buffered>>
          /\ sending'[s] = msg /\ \A t \in Senders \ {s} : sending'[t] = sending[t]
      BY <2>3 DEF Direct, Types, QueuesOK
    <3>2. \A t \in Senders : sending[t] # Nothing => sending[t].number \in Nat
      BY MessageFields DEF Types, QueuesOK
    <3>3. \A t \in Senders : sending'[t] # Nothing =>
            buffered' < sending'[t].number /\ sending'[t].number <= sent'
      BY <2>2, <3>1, <3>2 DEF OrderInv
    <3> QED
      BY <2>2, <3>1, <3>3 DEF OrderInv, Sorted
  <2>4. CASE Buffered(msg)
    <3>1. /\ pending' = Append(pending, msg) /\ buffered' = sent + 1 /\ ~started
          /\ UNCHANGED sending
      BY <2>4 DEF Buffered
    <3>2. \A i \in 1 .. Len(pending) :
            pending[i].number \in Nat /\ pending[i].number < msg.number
      <4>1. \A i \in 1 .. Len(pending) : pending[i] \in Message
        BY DEF Types, QueuesOK
      <4>2. \A i \in 1 .. Len(pending) : pending[i].number \in Nat
        BY <4>1, MessageFields
      <4> QED
        BY <2>2, <4>2 DEF OrderInv
    <3>3. Sorted(pending')
      BY <3>1, <3>2, SortedAppend DEF Types, QueuesOK, OrderInv
    <3>4. \A i \in 1 .. Len(pending') : pending'[i].number <= buffered'
      <4>1. /\ Len(pending') = Len(pending) + 1 /\ Len(pending) \in Nat
            /\ pending'[Len(pending) + 1] = msg
            /\ \A i \in 1 .. Len(pending) : pending'[i] = pending[i]
        BY <3>1 DEF Types, QueuesOK
      <4> QED
        BY <2>2, <3>1, <3>2, <4>1
    <3>5. \A t \in Senders : sending'[t] = Nothing
      BY <3>1 DEF StartInv
    <3>6. flushing' = <<>>
      BY <2>2, <3>1 DEF StartInv
    <3> QED
      BY <3>3, <3>4, <3>5, <3>6 DEF OrderInv, Sorted
  <2> QED
    BY <2>1, <2>3, <2>4 DEF SentBy
<1>2. CASE Run
  BY <1>2 DEF Run, TakenByFlusher, histVars, OrderInv, Sorted
<1>3. CASE Same
  BY <1>3 DEF Same, OrderInv, Sorted
<1>4. ASSUME NEW s \in Senders, Receive(s)
      PROVE  OrderInv'
  <2>1. /\ UNCHANGED <<pending, flushing, sent, buffered>>
        /\ sending' = [sending EXCEPT ![s] = Nothing]
    BY <1>4, ReceiveStep DEF Receive
  <2>2. \A t \in Senders : sending'[t] \in {sending[t], Nothing}
    BY <2>1 DEF Types, QueuesOK
  <2> QED
    BY <2>1, <2>2 DEF OrderInv, Sorted
<1>5. CASE ReceiveFlushed
  <2>1. /\ flushing # <<>> /\ flushing' = Tail(flushing)
        /\ UNCHANGED <<pending, sending, sent, buffered>>
    BY <1>5, FlushedStep DEF ReceiveFlushed
  <2>2. Sorted(flushing')
    BY <2>1, SortedTail DEF Types, QueuesOK, OrderInv
  <2>3. /\ Len(flushing') = Len(flushing) - 1 /\ Len(flushing) \in Nat
        /\ \A i \in 1 .. Len(flushing') : flushing'[i] = flushing[i + 1]
    BY <2>1 DEF Types, QueuesOK
  <2> QED
    BY <2>1, <2>2, <2>3 DEF OrderInv, Sorted
<1>6. CASE SendDropped
  <2>1. /\ flushing' = <<>> /\ \A s \in Senders : sending'[s] = Nothing
        /\ UNCHANGED <<pending, sent, buffered>>
    BY <1>6 DEF SendDropped, histVars
  <2> QED
    BY <2>1 DEF OrderInv, Sorted
<1> QED
  BY <1>1, <1>2, <1>3, <1>4, <1>5, <1>6, SameStep DEF Next, Delivery, Elsewhere

(* Every step keeps the statuses in the order of the caster.               *)
LEMMA StatusStep ==
  ASSUME Types, StartInv, OrderInv, StatusInv, Next
  PROVE  StatusInv'
<1>1. CASE CastStatus \/ Logf
  <2>1. PICK s \in Senders, msg \in Message : SentBy(s, msg)
    BY <1>1, SendStep
  <2>2. /\ UNCHANGED <<flushing, latest>> /\ msg.number = sent + 1
        /\ s = "session" => msg.kind = "log"
        /\ sent \in Nat /\ latest \in Nat /\ latest <= sent
    BY <2>1, DashboardAssumption DEF SentBy, Types, NumbersOK
  <2>3. CASE Direct(s, msg)
    <3>1. /\ UNCHANGED <<pending, buffered>>
          /\ sending'[s] = msg /\ \A t \in Senders \ {s} : sending'[t] = sending[t]
      BY <2>3 DEF Direct, Types, QueuesOK
    <3> QED
      BY <2>2, <3>1 DEF StatusInv, Senders
  <2>4. CASE Buffered(msg)
    <3>1. flushing' = <<>> /\ \A t \in Senders : sending'[t] = Nothing
      BY <2>2, <2>4 DEF Buffered, StartInv
    <3> QED
      BY <3>1 DEF StatusInv, Senders
  <2> QED
    BY <2>1, <2>3, <2>4 DEF SentBy
<1>2. CASE Run
  <2>1. /\ flushing' = pending /\ UNCHANGED <<sending, latest, buffered>>
        /\ latest = 0
    BY <1>2 DEF Run, TakenByFlusher, histVars, StartInv
  <2>2. \A i \in 1 .. Len(pending) : pending[i] \in Message
    BY DEF Types, QueuesOK
  <2>3. \A i \in 1 .. Len(pending) : 0 < pending[i].number
    BY <2>2, MessageFields, DashboardAssumption
  <2> QED
    BY <2>1, <2>3 DEF StatusInv
<1>3. CASE Same
  BY <1>3 DEF Same, StatusInv
<1>4. ASSUME NEW s \in Senders, Receive(s)
      PROVE  StatusInv'
  <2>1. /\ sending[s] # Nothing
        /\ UNCHANGED <<flushing, buffered>>
        /\ sending' = [sending EXCEPT ![s] = Nothing]
        /\ latest' = IF sending[s].kind = "cast" THEN sending[s].number ELSE latest
    BY <1>4, ReceiveStep DEF Receive
  <2>2. sending'[s] = Nothing /\ \A t \in Senders \ {s} : sending'[t] = sending[t]
    BY <2>1 DEF Types, QueuesOK
  <2>3. s = "session" => latest' = latest
    BY <2>1 DEF StatusInv
  <2>4. s = "caster" => latest' = latest \/ buffered < latest'
    BY <2>1 DEF OrderInv
  <2>5. latest' \in Nat /\ buffered \in Nat
    BY <1>4, <2>1, ReceiveStep, MessageFields, DashboardAssumption DEF Types, NumbersOK
  <2> QED
    BY <2>1, <2>2, <2>3, <2>4, <2>5 DEF StatusInv, Senders
<1>5. CASE ReceiveFlushed
  <2>1. /\ flushing # <<>> /\ flushing' = Tail(flushing)
        /\ UNCHANGED <<sending, buffered>>
        /\ latest' = IF Head(flushing).kind = "cast" THEN Head(flushing).number
                     ELSE latest
    BY <1>5, FlushedStep DEF ReceiveFlushed
  <2>2. Head(flushing).number <= buffered /\ Head(flushing) \in Message
    <3>1. Len(flushing) \in Nat \ {0} /\ Head(flushing) = flushing[1]
      BY <2>1 DEF Types, QueuesOK
    <3> QED
      BY <1>5, <3>1, FlushedStep DEF OrderInv
  <2>3. \A i \in 1 .. Len(flushing') : Head(flushing).number < flushing'[i].number
    BY <2>1, SortedTail DEF Types, QueuesOK, OrderInv
  <2>4. /\ Len(flushing') = Len(flushing) - 1 /\ Len(flushing) \in Nat
        /\ \A i \in 1 .. Len(flushing') : flushing'[i] = flushing[i + 1]
    BY <2>1 DEF Types, QueuesOK
  <2>5. latest' <= buffered => \A i \in 1 .. Len(flushing') : latest' < flushing'[i].number
    BY <2>1, <2>3, <2>4 DEF StatusInv
  <2>6. ASSUME sending["caster"] # Nothing
        PROVE  latest' < sending["caster"].number
    <3>1. "caster" \in Senders /\ sending["caster"] \in Message
      BY <2>6 DEF Types, QueuesOK, Senders
    <3>2. sending["caster"].number \in Nat /\ Head(flushing).number \in Nat
          /\ buffered \in Nat
      BY <2>2, <3>1, MessageFields, DashboardAssumption DEF Types, NumbersOK
    <3> QED
      BY <2>1, <2>2, <2>6, <3>1, <3>2 DEF OrderInv, StatusInv
  <2> QED
    BY <2>1, <2>5, <2>6 DEF StatusInv
<1>6. CASE SendDropped
  <2>1. flushing' = <<>> /\ \A s \in Senders : sending'[s] = Nothing
    BY <1>6 DEF SendDropped
  <2> QED
    BY <2>1 DEF StatusInv, Senders
<1> QED
  BY <1>1, <1>2, <1>3, <1>4, <1>5, <1>6, SameStep DEF Next, Delivery, Elsewhere

(* Every step leaves a message in one place.                               *)
LEMMA OnceStep ==
  ASSUME Types, StartInv, OrderInv, OnceInv, Next
  PROVE  OnceInv'
<1>1. CASE CastStatus \/ Logf
  <2>1. PICK s \in Senders, msg \in Message : SentBy(s, msg)
    BY <1>1, SendStep
  <2>2. /\ UNCHANGED <<flushing, delivered>> /\ msg.number = sent + 1
        /\ sent \in Nat /\ delivered \subseteq 1 .. sent
    BY <2>1, DashboardAssumption DEF SentBy, Types, NumbersOK
  <2>3. CASE Direct(s, msg)
    <3>1. sending'[s] = msg /\ \A t \in Senders \ {s} : sending'[t] = sending[t]
      BY <2>3 DEF Direct, Types, QueuesOK
    <3>2. \A t \in Senders : sending[t] # Nothing =>
            sending[t].number \in Nat /\ sending[t].number # msg.number
      <4>1. \A t \in Senders : sending[t] # Nothing => sending[t].number \in Nat
        BY MessageFields DEF Types, QueuesOK
      <4> QED
        BY <2>2, <4>1 DEF OrderInv
    <3>3. msg.number \notin delivered
      BY <2>2
    <3> QED
      BY <2>2, <3>1, <3>2, <3>3 DEF OnceInv
  <2>4. CASE Buffered(msg)
    BY <2>2, <2>4 DEF Buffered, OnceInv
  <2> QED
    BY <2>1, <2>3, <2>4 DEF SentBy
<1>2. CASE Run
  BY <1>2 DEF Run, TakenByFlusher, histVars, OnceInv, StartInv
<1>3. CASE Same
  BY <1>3 DEF Same, OnceInv
<1>4. ASSUME NEW s \in Senders, Receive(s)
      PROVE  OnceInv'
  <2>1. /\ sending[s] # Nothing /\ UNCHANGED flushing
        /\ sending' = [sending EXCEPT ![s] = Nothing]
        /\ delivered' = delivered \cup {sending[s].number}
    BY <1>4, ReceiveStep DEF Receive
  <2>2. sending'[s] = Nothing /\ \A t \in Senders \ {s} : sending'[t] = sending[t]
    BY <2>1 DEF Types, QueuesOK
  <2>3. \A i \in 1 .. Len(flushing) : flushing[i].number # sending[s].number
    <3>1. \A i \in 1 .. Len(flushing) : flushing[i] \in Message
      BY DEF Types, QueuesOK
    <3>2. \A i \in 1 .. Len(flushing) : flushing[i].number \in Nat
      BY <3>1, MessageFields
    <3>3. sending[s].number \in Nat /\ buffered \in Nat
      BY <1>4, ReceiveStep, MessageFields, DashboardAssumption DEF Types, NumbersOK
    <3> QED
      BY <2>1, <3>2, <3>3 DEF OrderInv
  <2> QED
    BY <2>1, <2>2, <2>3 DEF OnceInv
<1>5. CASE ReceiveFlushed
  <2>1. /\ flushing # <<>> /\ flushing' = Tail(flushing) /\ UNCHANGED sending
        /\ delivered' = delivered \cup {Head(flushing).number}
    BY <1>5, FlushedStep DEF ReceiveFlushed
  <2>2. /\ Len(flushing') = Len(flushing) - 1 /\ Len(flushing) \in Nat \ {0}
        /\ Head(flushing) = flushing[1]
        /\ \A i \in 1 .. Len(flushing') : flushing'[i] = flushing[i + 1]
    BY <2>1 DEF Types, QueuesOK
  <2>3. \A i \in 1 .. Len(flushing') : flushing'[i].number # Head(flushing).number
    <3>1. \A i \in 1 .. Len(flushing') : Head(flushing).number < flushing'[i].number
      BY <2>1, SortedTail DEF Types, QueuesOK, OrderInv
    <3>2. Head(flushing).number \in Nat
      BY <1>5, FlushedStep, MessageFields
    <3> QED
      BY <3>1, <3>2
  <2>4. \A t \in Senders : sending[t] # Nothing =>
          sending[t].number # Head(flushing).number
    <3>1. Head(flushing).number \in Nat /\ Head(flushing).number <= buffered
      BY <1>5, <2>2, FlushedStep, MessageFields DEF OrderInv
    <3>2. buffered \in Nat
      BY DashboardAssumption DEF Types, NumbersOK
    <3> QED
      BY <3>1, <3>2 DEF OrderInv
  <2> QED
    BY <2>1, <2>2, <2>3, <2>4 DEF OnceInv
<1>6. CASE SendDropped
  <2>1. flushing' = <<>> /\ \A s \in Senders : sending'[s] = Nothing
    BY <1>6 DEF SendDropped
  <2> QED
    BY <2>1 DEF OnceInv
<1> QED
  BY <1>1, <1>2, <1>3, <1>4, <1>5, <1>6, SameStep DEF Next, Delivery, Elsewhere

(* What MessagesAreConserved says, before the program ends.                *)
Everywhere == Numbers(pending) \cup Numbers(flushing) \cup InFlight \cup delivered
Everything ==
  Len(pending) + Len(flushing) + Cardinality(InFlight) + Cardinality(delivered)

(* Every step moves messages from place to place and loses none.           *)
LEMMA ConservedStep ==
  ASSUME Types, StartInv, OrderInv, OnceInv, MessagesAreConserved, Next
  PROVE  MessagesAreConserved'
<1> SUFFICES ASSUME program' # "over"
             PROVE  Everywhere' = 1 .. sent' /\ Everything' = sent'
  BY DEF MessagesAreConserved, Everywhere, Everything
<1>a. ASSUME program # "over"
      PROVE  Everywhere = 1 .. sent /\ Everything = sent
  BY <1>a DEF MessagesAreConserved, Everywhere, Everything
<1>b. /\ Len(pending) \in Nat /\ Len(flushing) \in Nat
      /\ IsFiniteSet(InFlight) /\ Cardinality(InFlight) \in Nat
      /\ IsFiniteSet(delivered) /\ Cardinality(delivered) \in Nat
      /\ sent \in Nat
  BY InFlightFinite, DeliveredFinite, DashboardAssumption
    DEF Types, QueuesOK, NumbersOK
<1>1. CASE CastStatus \/ Logf
  <2>1. PICK s \in Senders, msg \in Message : SentBy(s, msg)
    BY <1>1, SendStep
  <2>2. /\ msg.number = sent + 1 /\ sent' = sent + 1 /\ program # "over"
        /\ UNCHANGED <<flushing, delivered>> /\ sending[s] = Nothing
    BY <2>1 DEF SentBy
  <2>3. 1 .. sent' = (1 .. sent) \cup {msg.number}
    BY <1>b, <2>2
  <2>4. CASE Direct(s, msg)
    <3>1. UNCHANGED pending /\ InFlight' = InFlight \cup {msg.number}
      BY <2>2, <2>4, InFlightStarts DEF Direct, Types
    <3>2. msg.number \notin InFlight
      <4>1. \A t \in Senders : sending[t] # Nothing =>
              sending[t].number \in Nat /\ sending[t].number <= sent
        BY MessageFields DEF Types, QueuesOK, OrderInv
      <4> QED
        BY <1>b, <2>2, <4>1 DEF InFlight
    <3>3. Cardinality(InFlight') = Cardinality(InFlight) + 1
      BY <1>b, <3>1, <3>2, FS_AddElement
    <3>4. Everywhere' = Everywhere \cup {msg.number}
      BY <2>2, <3>1 DEF Everywhere, Numbers
    <3>5. Everything' = Everything + 1
      BY <1>b, <2>2, <3>1, <3>3 DEF Everything
    <3> QED
      BY <1>a, <2>2, <2>3, <3>4, <3>5
  <2>5. CASE Buffered(msg)
    <3>1. pending' = Append(pending, msg) /\ UNCHANGED sending
      BY <2>5 DEF Buffered
    <3>2. UNCHANGED InFlight
      BY <3>1 DEF InFlight
    <3>3. Numbers(pending)' = Numbers(pending) \cup {msg.number}
      <4>1. Numbers(Append(pending, msg)) = Numbers(pending) \cup {msg.number}
        BY NumbersOfAppend DEF Types, QueuesOK
      <4> QED
        BY <3>1, <4>1 DEF Numbers
    <3>4. Len(pending') = Len(pending) + 1
      BY <3>1 DEF Types, QueuesOK
    <3>5. Everywhere' = Everywhere \cup {msg.number}
      BY <2>2, <3>2, <3>3 DEF Everywhere, Numbers
    <3>6. Everything' = Everything + 1
      BY <1>b, <2>2, <3>2, <3>4 DEF Everything
    <3> QED
      BY <1>a, <2>2, <2>3, <3>5, <3>6
  <2> QED
    BY <2>1, <2>4, <2>5 DEF SentBy
<1>2. CASE Run
  <2>1. /\ flushing' = pending /\ pending' = <<>> /\ flushing = <<>>
        /\ UNCHANGED <<sending, delivered, sent>> /\ program # "over"
    BY <1>2 DEF Run, TakenByFlusher, histVars, StartInv
  <2>2. UNCHANGED InFlight
    BY <2>1 DEF InFlight
  <2>3. Everywhere' = Everywhere
    BY <2>1, <2>2, NumbersOfNone DEF Everywhere, Numbers
  <2>4. Everything' = Everything
    <3>1. Len(pending') = 0 /\ Len(flushing) = 0 /\ Len(flushing') = Len(pending)
      BY <2>1
    <3> QED
      BY <1>b, <2>1, <2>2, <3>1 DEF Everything
  <2> QED
    BY <1>a, <2>1, <2>3, <2>4
<1>3. CASE Same /\ program # "over"
  BY <1>a, <1>3 DEF Same, Everywhere, Everything, InFlight, Numbers
<1>4. ASSUME NEW s \in Senders, Receive(s)
      PROVE  Everywhere' = 1 .. sent' /\ Everything' = sent'
  <2>1. /\ sending[s] # Nothing
        /\ UNCHANGED <<pending, flushing, sent>> /\ program # "over"
        /\ sending' = [sending EXCEPT ![s] = Nothing]
        /\ delivered' = delivered \cup {sending[s].number}
    BY <1>4, ReceiveStep DEF Receive
  <2>2. /\ InFlight' = InFlight \ {sending[s].number}
        /\ sending[s].number \in InFlight
    BY <2>1, InFlightEnds DEF Types
  <2>3. sending[s].number \notin delivered
    BY <2>1 DEF OnceInv
  <2>4. /\ Cardinality(InFlight') = Cardinality(InFlight) - 1
        /\ Cardinality(delivered') = Cardinality(delivered) + 1
    BY <1>b, <2>1, <2>2, <2>3, FS_AddElement, FS_RemoveElement
  <2>5. Everywhere' = Everywhere
    BY <2>1, <2>2 DEF Everywhere, Numbers
  <2>6. Everything' = Everything
    BY <1>b, <2>1, <2>4 DEF Everything
  <2> QED
    BY <1>a, <2>1, <2>5, <2>6
<1>5. CASE ReceiveFlushed
  <2>1. /\ flushing # <<>> /\ flushing' = Tail(flushing)
        /\ UNCHANGED <<pending, sending, sent>> /\ program # "over"
        /\ delivered' = delivered \cup {Head(flushing).number}
    BY <1>5, FlushedStep DEF ReceiveFlushed
  <2>2. UNCHANGED InFlight
    BY <2>1 DEF InFlight
  <2>3. Numbers(flushing) = Numbers(flushing)' \cup {Head(flushing).number}
    <3>1. Numbers(flushing) = Numbers(Tail(flushing)) \cup {Head(flushing).number}
      BY <2>1, NumbersOfTail DEF Types, QueuesOK
    <3> QED
      BY <2>1, <3>1 DEF Numbers
  <2>4. Len(flushing') = Len(flushing) - 1
    BY <2>1 DEF Types, QueuesOK
  <2>5. Head(flushing).number \notin delivered
    <3>1. 1 \in 1 .. Len(flushing) /\ Head(flushing) = flushing[1]
      BY <2>1 DEF Types, QueuesOK
    <3> QED
      BY <3>1 DEF OnceInv
  <2>6. Cardinality(delivered') = Cardinality(delivered) + 1
    BY <1>b, <2>1, <2>5, FS_AddElement
  <2>7. Everywhere' = Everywhere
    BY <2>1, <2>2, <2>3 DEF Everywhere, Numbers
  <2>8. Everything' = Everything
    BY <1>b, <2>1, <2>2, <2>4, <2>6 DEF Everything
  <2> QED
    BY <1>a, <2>1, <2>7, <2>8
<1>6. CASE SendDropped
  BY <1>6 DEF SendDropped
<1>7. CASE ProgramRuns \/ ProgramEnds \/ Elsewhere
  <2>1. program # "over"
    BY <1>7, CommandsStep DEF ProgramRuns, ProgramEnds, uiVars
  <2> QED
    BY <1>3, <1>7, <2>1, SameStep
<1> QED
  BY <1>1, <1>2, <1>4, <1>5, <1>6, <1>7 DEF Next, Delivery, Elsewhere

----------------------------------------------------------------------------
(* The theorems *)

(* The invariant holds of the dashboard at every moment.                   *)
LEMMA DashboardInductive == Spec => []IInv
<1>1. Init => IInv
  <2> SUFFICES ASSUME Init PROVE IInv
    OBVIOUS
  <2>a. /\ pending = <<>> /\ flushing = <<>> /\ logs = <<>> /\ commands = <<>>
        /\ \A s \in Senders : sending[s] = Nothing
        /\ sending \in [Senders -> {Nothing}]
    BY DEF Init
  <2>b. sent = 0 /\ buffered = 0 /\ latest = 0 /\ delivered = {}
    BY DEF Init
  <2>d. /\ program = "off" /\ castStatus = "" /\ lastState = "" /\ device = "PLAYING"
    BY DEF Init
  <2>c. started \in BOOLEAN /\ ~started
    BY DEF Init
  <2>1. Types
    <3>1. QueuesOK
      BY <2>a DEF QueuesOK
    <3>2. logs \in Seq(Line) /\ commands \in Seq({"pause", "unpause", "stop"})
      BY <2>a
    <3>3. Len(logs) = 0
      BY <2>a
    <3>4. LogsOK /\ CommandsOK
      BY <3>2, <3>3, DashboardAssumption DEF LogsOK, CommandsOK
    <3>5. ProgramOK
      BY <2>d DEF ProgramOK, State, Playing
    <3>6. NumbersOK
      BY <2>b, DashboardAssumption DEF NumbersOK
    <3> QED
      BY <2>c, <3>1, <3>4, <3>5, <3>6 DEF Types
  <2>2. Len(pending) = 0 /\ Len(flushing) = 0
    BY <2>a
  <2>3. StartInv
    BY <2>a, <2>b, <2>c, <2>d DEF StartInv
  <2>4. OrderInv
    BY <2>a, <2>2 DEF OrderInv, Sorted
  <2>5. StatusInv /\ OnceInv
    BY <2>a, <2>2 DEF StatusInv, OnceInv, Senders
  <2>6. MessagesAreConserved
    <3>1. InFlight = {} /\ Numbers(pending) = {} /\ Numbers(flushing) = {}
      BY <2>a, NumbersOfNone DEF InFlight
    <3>2. Cardinality(InFlight) = 0 /\ Cardinality(delivered) = 0
      BY <2>b, <3>1, FS_EmptySet
    <3>3. 1 .. sent = {}
      BY <2>b
    <3> QED
      BY <2>2, <2>b, <3>1, <3>2, <3>3 DEF MessagesAreConserved
  <2> QED
    BY <2>1, <2>3, <2>4, <2>5, <2>6 DEF IInv
<1>2. IInv /\ [Next]_vars => IInv'
  <2> SUFFICES ASSUME IInv, [Next]_vars PROVE IInv'
    OBVIOUS
  <2>1. CASE Next
    BY <2>1, TypesStep, StartStep, OrderStep, StatusStep, OnceStep, ConservedStep DEF IInv
  <2>2. CASE UNCHANGED vars
    <3> USE <2>2 DEF IInv, vars, uiVars, modelVars, histVars
    <3>1. Types'
      BY DEF Types, ProgramOK, QueuesOK, NumbersOK, LogsOK, CommandsOK
    <3>2. StartInv' /\ StatusInv' /\ OnceInv'
      BY DEF StartInv, StatusInv, OnceInv
    <3>3. OrderInv'
      BY DEF OrderInv, Sorted
    <3>4. MessagesAreConserved'
      BY DEF MessagesAreConserved, InFlight, Numbers
    <3> QED
      BY <3>1, <3>2, <3>3, <3>4
  <2> QED
    BY <2>1, <2>2
<1> QED
  BY <1>1, <1>2, PTL DEF Spec

(* TypeOK of Dashboard: in particular the log pane stays within its limit. *)
THEOREM DashboardTypeCorrect == Spec => []TypeOK
<1>1. IInv => TypeOK
  BY DashboardAssumption
    DEF IInv, Types, ProgramOK, QueuesOK, NumbersOK, LogsOK, CommandsOK, TypeOK
<1> QED
  BY <1>1, DashboardInductive, PTL

(* MessagesAreConserved: send and Run hand over from the buffer to the     *)
(* program without losing or repeating a message, whenever Run comes.      *)
THEOREM NoMessageIsLost == Spec => []MessagesAreConserved
<1>1. IInv => MessagesAreConserved
  BY DEF IInv
<1> QED
  BY <1>1, DashboardInductive, PTL

(* OvertakenOnlyAtStart: only what Run's goroutine flushes is ever shown   *)
(* after a later status, and only after one that was sent directly.        *)
THEOREM StatusesKeepTheirOrder == Spec => OvertakenOnlyAtStart
<1> DEFINE Overtaken == latest' < latest => latest' <= buffered /\ buffered < latest
<1>1. IInv /\ [Next]_vars => [Overtaken]_vars
  <2> SUFFICES ASSUME IInv, Next, latest' < latest
               PROVE  latest' <= buffered /\ buffered < latest
    OBVIOUS
  <2> USE DEF IInv
  <2>a. latest \in Nat /\ buffered \in Nat /\ sent \in Nat
    BY DashboardAssumption DEF Types, NumbersOK
  <2>1. latest' # latest
    BY <2>a
  <2>2. PICK s \in Senders : Receive(s) \/ ReceiveFlushed
    <3>1. ~(CastStatus \/ Logf)
      BY <2>1, SendStep DEF SentBy
    <3>2. ~(Run \/ SendDropped)
      BY <2>1 DEF Run, SendDropped, histVars
    <3>3. ~(ProgramRuns \/ ProgramEnds \/ Elsewhere)
      BY <2>1, SameStep DEF Same
    <3> QED
      BY <3>1, <3>2, <3>3 DEF Next, Delivery, Elsewhere, Senders
  <2>3. ~Receive(s)
    <3> SUFFICES ASSUME Receive(s) PROVE FALSE
      OBVIOUS
    <3>1. /\ sending[s] # Nothing /\ sending[s] \in Message
          /\ latest' = IF sending[s].kind = "cast" THEN sending[s].number ELSE latest
      BY ReceiveStep
    <3>2. s = "caster" /\ latest' = sending["caster"].number
      BY <2>1, <3>1 DEF StatusInv, Senders
    <3>3. latest < latest'
      BY <3>1, <3>2 DEF StatusInv
    <3>4. latest' \in Nat
      BY <3>1, <3>2, MessageFields
    <3> QED
      BY <2>a, <3>3, <3>4
  <2>4. /\ flushing # <<>> /\ Head(flushing) \in Message
        /\ latest' = Head(flushing).number
    BY <2>1, <2>2, <2>3, FlushedStep
  <2>5. 1 \in 1 .. Len(flushing) /\ Head(flushing) = flushing[1]
    BY <2>4 DEF Types, QueuesOK
  <2>6. latest' <= buffered /\ latest' \in Nat
    BY <2>4, <2>5, MessageFields DEF OrderInv
  <2>7. ~(latest <= buffered)
    BY <2>a, <2>4, <2>5, <2>6 DEF StatusInv
  <2> QED
    BY <2>a, <2>6, <2>7
<1> QED
  BY <1>1, DashboardInductive, PTL DEF Spec, OvertakenOnlyAtStart
=============================================================================
