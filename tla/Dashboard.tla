----------------------------- MODULE Dashboard -----------------------------
(***************************************************************************)
(* The full-screen dashboard of a cast, src/internal/tui/tui.go and        *)
(* model.go: how playback statuses and log lines reach its event loop,     *)
(* from before the loop runs until the user quits, and what the loop does  *)
(* with them and with the playback keys.                                   *)
(*                                                                         *)
(* Bubble Tea is external: Program.Send hands a message over to a running  *)
(* event loop, blocks until there is one, and does nothing once the        *)
(* program has ended; commands run in goroutines of their own.             *)
(***************************************************************************)
EXTENDS Naturals, Sequences, FiniteSets

CONSTANTS
  MaxSent,     \* bound: how many messages are ever sent
  MaxPresses,  \* bound: how many playback commands are in flight
  MaxLogLines  \* maxLogLines: entries the log pane keeps

ASSUME DashboardAssumption ==
  MaxSent \in Nat /\ MaxPresses \in Nat /\ MaxLogLines \in Nat \ {0}

VARIABLES
  started, pending,  \* UI: Run has started, messages buffered before
  flushing,          \* what Run's goroutine still has to send
  sending,           \* by goroutine: the message it is sending, if any
  program,           \* the event loop: off, running, over
  castStatus, lastState, logs, \* the model
  commands,          \* playback commands in flight, by key pressed
  device,            \* the state of the player on the device
  \* history: messages sent, those buffered, those shown, and the last
  \* status shown
  sent, buffered, delivered, latest

uiVars == <<started, pending, flushing, sending, program>>
modelVars == <<castStatus, lastState, logs>>
histVars == <<sent, buffered, delivered, latest>>
vars == <<uiVars, modelVars, commands, device, histVars>>

Senders == {"caster", "session"}
Playing == {"PLAYING", "PAUSED"}
State == Playing \cup {""}

\* A castMsg or a logMsg, numbered in the order of the calls.
Message == [kind : {"cast", "log"}, state : State, number : 1 .. MaxSent]
Nothing == <<>>

\* A log line: of a transition, or of anything else.
Line == State \cup {"event"}

TypeOK ==
  /\ started \in BOOLEAN
  /\ pending \in Seq(Message) /\ flushing \in Seq(Message)
  /\ sending \in [Senders -> Message \cup {Nothing}]
  /\ program \in {"off", "running", "over"}
  /\ castStatus \in State /\ lastState \in State
  /\ logs \in Seq(Line) /\ Len(logs) <= MaxLogLines
  /\ commands \in Seq({"pause", "unpause", "stop"})
  /\ device \in Playing \cup {"IDLE"}
  /\ sent \in 0 .. MaxSent /\ buffered \in 0 .. MaxSent
  /\ delivered \in SUBSET (1 .. MaxSent) /\ latest \in 0 .. MaxSent

Init ==
  /\ started = FALSE /\ pending = <<>> /\ flushing = <<>>
  /\ sending = [s \in Senders |-> Nothing]
  /\ program = "off"
  /\ castStatus = "" /\ lastState = "" /\ logs = <<>>
  /\ commands = <<>> /\ device = "PLAYING"
  /\ sent = 0 /\ buffered = 0 /\ delivered = {} /\ latest = 0

----------------------------------------------------------------------------
(* send, Run *)

\* send buffers, under the lock, until Run has started, and hands the message
\* to the program outside the lock afterwards.
Send(s, kind, st) ==
  /\ sent < MaxSent /\ sending[s] = Nothing
  /\ sent' = sent + 1
  /\ LET msg == [kind |-> kind, state |-> st, number |-> sent + 1]
     IN  IF started
         THEN /\ sending' = [sending EXCEPT ![s] = msg]
              /\ UNCHANGED <<pending, buffered>>
         ELSE /\ pending' = Append(pending, msg)
              /\ buffered' = sent + 1
              /\ UNCHANGED sending
  /\ UNCHANGED <<started, flushing, program, modelVars, commands, device,
                 delivered, latest>>

\* The cast session reports what the device does; the session logs.
CastStatus == device \in Playing /\ \E st \in {device, ""} : Send("caster", "cast", st)
Logf == Send("session", "log", "")

\* Variant with a defect: Run drops what was buffered.
TakenByNobody == <<>>

TakenByFlusher == pending

\* Run publishes the program and takes the buffer, under the lock; another
\* goroutine sends what it took.
Run ==
  /\ ~started /\ started' = TRUE
  /\ flushing' = TakenByFlusher /\ pending' = <<>>
  /\ UNCHANGED <<sending, program, modelVars, commands, device, histVars>>

\* program.Run: the event loop starts, or the terminal fails.
ProgramRuns ==
  /\ started /\ program = "off"
  /\ program' \in {"running", "over"}
  /\ UNCHANGED <<started, pending, flushing, sending, modelVars, commands,
                 device, histVars>>

\* The user quits, or the context is done.
ProgramEnds ==
  /\ program = "running" /\ program' = "over"
  /\ UNCHANGED <<started, pending, flushing, sending, modelVars, commands,
                 device, histVars>>

----------------------------------------------------------------------------
(* Update *)

\* Variant with a defect: the log pane grows.
Uncapped(lines) == lines

\* The entries kept: the newest maxLogLines.
Capped(lines) ==
  IF Len(lines) > MaxLogLines
  THEN SubSeq(lines, Len(lines) - MaxLogLines + 1, Len(lines))
  ELSE lines

AppendLog(line) == logs' = Capped(Append(logs, line))

\* A state is logged when it differs from the last one logged.
NewState(st) == st # "" /\ st # lastState

UpdateCast(st) ==
  /\ castStatus' = st
  /\ IF NewState(st)
     THEN lastState' = st /\ AppendLog(st)
     ELSE UNCHANGED <<lastState, logs>>

Update(msg) ==
  /\ IF msg.kind = "cast"
     THEN UpdateCast(msg.state) /\ latest' = msg.number
     ELSE AppendLog("event") /\ UNCHANGED <<castStatus, lastState, latest>>
  /\ delivered' = delivered \cup {msg.number}

\* The loop receives the message of one of the goroutines blocked in Send ...
Receive(s) ==
  /\ program = "running"
  /\ sending[s] # Nothing
  /\ Update(sending[s])
  /\ sending' = [sending EXCEPT ![s] = Nothing]
  /\ UNCHANGED <<started, pending, flushing, program, commands, device, sent, buffered>>

\* Variant with a defect: a goroutine for each message instead of one for all.
FlushInAnyOrder ==
  \E i \in 1 .. Len(flushing) :
    /\ Update(flushing[i])
    /\ flushing' = [j \in 1 .. Len(flushing) - 1 |->
                      IF j < i THEN flushing[j] ELSE flushing[j + 1]]

FlushInOrder ==
  /\ flushing # <<>>
  /\ Update(Head(flushing)) /\ flushing' = Tail(flushing)

\* ... or of the goroutine that flushes.
ReceiveFlushed ==
  /\ program = "running"
  /\ FlushInOrder
  /\ UNCHANGED <<started, pending, sending, program, commands, device, sent, buffered>>

\* Send does nothing once the program has ended.
SendDropped ==
  /\ program = "over"
  /\ flushing # <<>> \/ \E s \in Senders : sending[s] # Nothing
  /\ flushing' = <<>>
  /\ sending' = [s \in Senders |-> Nothing]
  /\ UNCHANGED <<started, pending, program, modelVars, commands, device, histVars>>

----------------------------------------------------------------------------
(* updateKey *)

\* What the space key asks for depends on the state shown when it is pressed.
Toggle == IF castStatus = "PAUSED" THEN "unpause" ELSE "pause"

Press(command) ==
  /\ program = "running"
  /\ Len(commands) < MaxPresses
  /\ commands' = Append(commands, command)
  /\ UNCHANGED <<uiVars, modelVars, device, histVars>>

\* The controls, as the receiver on the device takes them.
Obeys(command) ==
  CASE device = "IDLE" -> "IDLE"
    [] command = "pause" -> "PAUSED"
    [] command = "unpause" -> "PLAYING"
    [] command = "stop" -> "IDLE"

Without(seq, i) == SubSeq(seq, 1, i - 1) \o SubSeq(seq, i + 1, Len(seq))

\* A command calls the controls, in any order; an error is sent back to the
\* event loop, which logs it.
Command(i) ==
  /\ commands' = Without(commands, i)
  /\ \/ device' = Obeys(commands[i]) /\ UNCHANGED logs
     \/ /\ UNCHANGED device
        /\ IF program = "running" THEN AppendLog("event") ELSE UNCHANGED logs
  /\ UNCHANGED <<uiVars, castStatus, lastState, histVars>>

----------------------------------------------------------------------------
Delivery ==
  \/ Run \/ ProgramRuns
  \/ \E s \in Senders : Receive(s)
  \/ ReceiveFlushed \/ SendDropped

Next ==
  \/ CastStatus \/ Logf
  \/ Delivery \/ ProgramEnds
  \/ \E command \in {Toggle, "stop"} : Press(command)
  \/ \E i \in 1 .. Len(commands) : Command(i)

Spec == Init /\ [][Next]_vars

\* Run is called, the event loop turns, and a receive from several blocked
\* goroutines starves none of them.
FairSpec ==
  /\ Spec
  /\ WF_vars(Run) /\ WF_vars(ProgramRuns) /\ WF_vars(SendDropped)
  /\ \A s \in Senders : SF_vars(Receive(s))
  /\ SF_vars(ReceiveFlushed)

----------------------------------------------------------------------------
(* Properties *)

Numbers(seq) == {seq[i].number : i \in 1 .. Len(seq)}
InFlight == {sending[s].number : s \in {t \in Senders : sending[t] # Nothing}}

(* Until the program ends every message sent is in exactly one place: the  *)
(* switch from buffering to direct delivery loses none and repeats none.   *)
MessagesAreConserved ==
  LET held == Len(pending) + Len(flushing) + Cardinality(InFlight)
  IN  program # "over" =>
        /\ Numbers(pending) \cup Numbers(flushing) \cup InFlight \cup delivered
             = 1 .. sent
        /\ held + Cardinality(delivered) = sent

(* A status is shown after a later one only if it was buffered and the     *)
(* later one was not: the buffer is flushed in order, and once it is empty *)
(* the playback pane never goes back.                                      *)
OvertakenOnlyAtStart ==
  [][latest' < latest => latest' <= buffered /\ buffered < latest]_vars

(* No goroutine is left blocked in Send: what is sent, early or late, is   *)
(* shown, unless the program ends; the goroutine that drives the cast is   *)
(* free to go on in either case.                                           *)
EverySendReturns ==
  /\ \A n \in 1 .. MaxSent : sent >= n ~> n \in delivered \/ program = "over"
  /\ \A s \in Senders : []<>(sending[s] = Nothing)
=============================================================================
