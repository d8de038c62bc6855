---------------------------- MODULE CommandLine ----------------------------
(***************************************************************************)
(* The command-line mode, src/internal/cli/run.go: one run of pairflix     *)
(* from the search for a player, with the prompts of picker.go, to the end *)
(* of the process, with the errgroup of serveLoop (media server, its       *)
(* closer, the user interface and a player if there is one), the deferred  *)
(* close of the torrent client, signals, and the watchdog that ends a      *)
(* shutdown that takes too long.                                           *)
(***************************************************************************)
EXTENDS Naturals, Sequences, Addresses

CONSTANTS
  Dashboard,  \* the full-screen UI, which the user can quit
  Terminal,   \* standard input is a terminal
  MaxLines    \* bound: how many lines are ever written to standard input

ASSUME CommandLineAssumption ==
  /\ Dashboard \in BOOLEAN /\ Terminal \in BOOLEAN
  /\ Dashboard => Terminal  \* useTUI
  /\ MaxLines \in Nat

VARIABLES
  opts,        \* the flags: which player, the value of --cast, --listen
  pc,          \* where run is
  outcome,     \* the error it is going to return
  ctxDone,     \* the signal context is done
  eng, lis,    \* the torrent client, the media server's listener
  advertised,  \* the host of the stream URL
  input, inputEnds,  \* lines waiting on standard input, nothing will follow
  buffer,      \* lines in the buffer of the prompt's scanner
  member,      \* the errgroup's goroutines
  result,      \* what each of them returns
  groupErr,    \* the errgroup's first error
  exit,        \* how the process ended
  \* history: who failed, other than by a cancellation; the lines that went
  \* away with a scanner; a prompt that ended for want of input
  failures, lost, noSelection

inVars == <<input, inputEnds, buffer, lost, noSelection>>
resVars == <<eng, lis, advertised>>
groupVars == <<member, result, groupErr>>
vars == <<opts, pc, outcome, ctxDone, resVars, inVars, groupVars, exit, failures>>

Members == {"serve", "closer", "ui", "player"}
Prompts == {"pick device", "pick file"}
BeforeEngine == {"find vlc", "find cast", "pick device", "data dir", "engine"}
Preparing == BeforeEngine \cup {"open", "choose", "pick file", "listen"}
Resource == {"none", "open", "closed"}
Result == {"ok", "failed", "canceled"}
Line == {"valid", "invalid"}  \* a number in range, or anything else

\* --vlc and --cast exclude each other; --cast names no device ("auto"), an
\* address ("IP": with a port or not), or a device by name.
Options ==
  [player : {"none", "vlc"}, target : {"none"}, listen : Listen]
    \cup [player : {"cast"}, target : {"auto", "IP", "name"}, listen : Listen]

TypeOK ==
  /\ opts \in Options
  /\ pc \in Preparing \cup {"serve", "unwind", "return", "over"}
  /\ outcome \in {"ok", "failed"} /\ ctxDone \in BOOLEAN
  /\ eng \in Resource /\ lis \in Resource /\ advertised \in Host \cup {NoHost}
  /\ input \in Seq(Line) /\ buffer \in Seq(Line) /\ lost \in Seq(Line)
  /\ Len(input) + Len(buffer) + Len(lost) <= MaxLines
  /\ inputEnds \in BOOLEAN /\ noSelection \in BOOLEAN
  /\ member \in [Members -> {"idle", "running", "ending", "returned"}]
  /\ result \in [Members -> Result] /\ groupErr \in Result
  /\ exit \in {"no", "ok", "failed", "forced"}
  /\ failures \in SUBSET (Members \cup {"preparation"})

Init ==
  /\ opts \in Options
  /\ pc = "find vlc" /\ outcome = "ok" /\ ctxDone = FALSE
  /\ eng = "none" /\ lis = "none" /\ advertised = NoHost
  /\ input = <<>> /\ inputEnds = FALSE /\ buffer = <<>>
  /\ member = [m \in Members |-> "idle"]
  /\ result = [m \in Members |-> "ok"] /\ groupErr = "ok"
  /\ exit = "no"
  /\ failures = {} /\ lost = <<>> /\ noSelection = FALSE

Casting == opts.player = "cast"
GroupCtxDone == ctxDone \/ groupErr # "ok"

Goto(from, to) == pc = from /\ pc' = to

----------------------------------------------------------------------------
(* Preparation: each step goes on to the next or returns an error, which   *)
(* closes the torrent client on the way out once there is one.             *)

Proceed(from, to) == Goto(from, to) /\ UNCHANGED <<outcome, failures>>

Fail(from) ==
  /\ Goto(from, IF eng = "none" THEN "return" ELSE "unwind")
  /\ outcome' = "failed" /\ failures' = failures \cup {"preparation"}

\* A step that may succeed or fail for reasons of its own.
Attempt(from, to) == Proceed(from, to) \/ Fail(from)

FindVLC ==
  /\ \/ Proceed("find vlc", "find cast")
     \/ opts.player = "vlc" /\ Fail("find vlc")
  /\ UNCHANGED <<opts, ctxDone, resVars, inVars, groupVars, exit>>

\* findCastDevice: an address is taken as it is, a name is searched for, and
\* without either the devices found are offered if there are several.
FindCastDevice ==
  /\ \/ ~Casting /\ Proceed("find cast", "data dir")
     \/ Casting /\ ~ValidateCastListen(opts.listen) /\ Fail("find cast")
     \/ /\ Casting /\ ValidateCastListen(opts.listen)
        /\ \/ Proceed("find cast", "data dir")
           \/ opts.target # "IP" /\ Fail("find cast")
           \/ opts.target = "auto" /\ Proceed("find cast", "pick device")
  /\ UNCHANGED <<opts, ctxDone, resVars, inVars, groupVars, exit>>

ResolveDataDir ==
  /\ Attempt("data dir", "engine")
  /\ UNCHANGED <<opts, ctxDone, resVars, inVars, groupVars, exit>>

NewEngine ==
  /\ \/ Proceed("engine", "open") /\ eng' = "open"
     \/ Fail("engine") /\ UNCHANGED eng
  /\ UNCHANGED <<opts, ctxDone, lis, advertised, inVars, groupVars, exit>>

\* eng.Open: metadata, or an error; a cancellation is one too.
Open ==
  /\ Attempt("open", "choose")
  /\ UNCHANGED <<opts, ctxDone, resVars, inVars, groupVars, exit>>

\* selectVideoFile: no video, the only one, or a choice.
SelectVideoFile ==
  /\ Attempt("choose", "listen") \/ Proceed("choose", "pick file")
  /\ UNCHANGED <<opts, ctxDone, resVars, inVars, groupVars, exit>>

\* resolveListen, srv.Start, then serveLoop starts its goroutines.  Finding
\* the address toward a device may fail, and so may listening.
Running ==
  [m \in Members |->
     IF m # "player" \/ opts.player # "none" THEN "running" ELSE "idle"]

Serving(at) ==
  /\ Binds(at.listen)
  /\ Proceed("listen", "serve")
  /\ lis' = "open" /\ advertised' = StreamHost(at) /\ member' = Running

StartServer ==
  /\ \/ ~Casting /\ Serving(At(opts.listen, NoHost))
     \/ Casting /\ Serving(ResolveCastListen(opts.listen, "lan"))
     \/ Fail("listen") /\ UNCHANGED <<lis, advertised, member>>
  /\ UNCHANGED <<opts, ctxDone, eng, inVars, result, groupErr, exit>>

----------------------------------------------------------------------------
(* pick: a scanner of its own for each prompt, with several labels; the    *)
(* context is not watched.                                                 *)

AfterPrompt(p) == IF p = "pick device" THEN "data dir" ELSE "listen"

\* A line, or the end of the input: from the user, or already there.
Type ==
  /\ pc \in Preparing /\ ~inputEnds
  /\ \/ /\ Len(input) + Len(buffer) + Len(lost) < MaxLines
        /\ \E line \in Line : input' = Append(input, line)
        /\ UNCHANGED inputEnds
     \/ inputEnds' = TRUE /\ UNCHANGED input
  /\ UNCHANGED <<opts, pc, outcome, ctxDone, resVars, buffer, lost, noSelection,
                 groupVars, exit, failures>>

\* The scanner reads: a terminal hands over a line at a time, a file or a
\* pipe whatever fits into the buffer.
ReadInput ==
  /\ pc \in Prompts /\ buffer = <<>> /\ input # <<>>
  /\ \E n \in 1 .. (IF Terminal THEN 1 ELSE Len(input)) :
       /\ buffer' = SubSeq(input, 1, n)
       /\ input' = SubSeq(input, n + 1, Len(input))
  /\ UNCHANGED <<opts, pc, outcome, ctxDone, resVars, inputEnds, lost, noSelection,
                 groupVars, exit, failures>>

\* An invalid choice is asked for again; a valid one ends the prompt, and
\* the scanner with what else it has read.
Scan ==
  /\ pc \in Prompts /\ buffer # <<>>
  /\ IF Head(buffer) = "valid"
     THEN /\ Proceed(pc, AfterPrompt(pc))
          /\ buffer' = <<>> /\ lost' = lost \o Tail(buffer)
     ELSE /\ buffer' = Tail(buffer)
          /\ UNCHANGED <<pc, outcome, failures, lost>>
  /\ UNCHANGED <<opts, ctxDone, resVars, input, inputEnds, noSelection, groupVars, exit>>

\* The input is at its end: errNoSelection; or it cannot be read.
ScanFails ==
  /\ pc \in Prompts /\ buffer = <<>>
  /\ Fail(pc)
  /\ noSelection' \in {noSelection, input = <<>> /\ inputEnds}
  /\ UNCHANGED <<opts, ctxDone, resVars, input, inputEnds, buffer, lost,
                 groupVars, exit>>

----------------------------------------------------------------------------
(* serveLoop.  A goroutine that ends the session cancels the context first *)
(* and returns its result to the group afterwards.                         *)

Ends(m) ==
  member[m] = "running" /\ member' = [member EXCEPT ![m] = "ending"]

\* errgroup: the first error is kept and cancels the group's context.
Returned(m, r) == groupErr' = IF groupErr = "ok" THEN r ELSE groupErr

\* What is no cancellation counts as a failure.
Failed(m, r) == failures' = IF r = "failed" THEN failures \cup {m} ELSE failures

Returns(m, from, r) ==
  /\ member[m] = from /\ member' = [member EXCEPT ![m] = "returned"]
  /\ Returned(m, r)

\* srv.Serve: ended by srv.Close, or by an accept error.
Serve ==
  /\ \E r \in {IF member["closer"] = "returned" THEN "ok" ELSE "failed"} :
       Returns("serve", "running", r) /\ Failed("serve", r)
  /\ lis' = "closed"
  /\ UNCHANGED <<opts, pc, outcome, ctxDone, eng, advertised, inVars, result, exit>>

CloseServer ==
  /\ GroupCtxDone
  /\ \E r \in {"ok", "failed"} :
       Returns("closer", "running", r) /\ Failed("closer", r)
  /\ UNCHANGED <<opts, pc, outcome, ctxDone, resVars, inVars, result, exit>>

\* s.ui.Run: the user quits the dashboard, or it fails; either UI returns nil
\* when the context is done.
UserInterfaceEnds ==
  /\ Ends("ui") /\ (Dashboard \/ GroupCtxDone)
  /\ ctxDone' = TRUE
  /\ \E r \in IF GroupCtxDone THEN {"ok"} ELSE {"ok", "failed"} :
       result' = [result EXCEPT !["ui"] = r] /\ Failed("ui", r)
  /\ UNCHANGED <<opts, pc, outcome, resVars, inVars, groupErr, exit>>

\* Variant with a defect: the player's end does not end the session.
PlayerEndsAlone == ctxDone' = ctxDone

\* cancel()
PlayerEnds == ctxDone' = TRUE

\* launcher.Run or caster.Run: a player that was started and went away is no
\* failure; a cancellation is returned as an error.
PlayerRuns ==
  /\ Ends("player")
  /\ PlayerEnds
  /\ \E r \in IF GroupCtxDone THEN Result ELSE {"ok", "failed"} :
       result' = [result EXCEPT !["player"] = r] /\ Failed("player", r)
  /\ UNCHANGED <<opts, pc, outcome, resVars, inVars, groupErr, exit>>

\* Variant with a defect: the cancellation is handed to the group.
UnfilteredResult(m) == result[m]

\* errors.Is(err, context.Canceled)
FilteredResult(m) == IF result[m] = "canceled" THEN "ok" ELSE result[m]

EndingReturns(m) ==
  /\ Returns(m, "ending", FilteredResult(m))
  /\ UNCHANGED <<opts, pc, outcome, ctxDone, resVars, inVars, result, exit, failures>>

GroupOutcome == IF groupErr = "failed" THEN "failed" ELSE "ok"

\* group.Wait
Wait ==
  /\ Goto("serve", "unwind")
  /\ \A m \in Members : member[m] \in {"idle", "returned"}
  /\ outcome' = GroupOutcome
  /\ UNCHANGED <<opts, ctxDone, resVars, inVars, groupVars, exit, failures>>

----------------------------------------------------------------------------
(* The end *)

\* Variant with a defect: the torrent client is closed after serving only.
EngineAfterServing == IF lis = "none" THEN eng ELSE "closed"

EngineAfterUnwinding == "closed"

\* The deferred eng.Close, which may take for ever.
Unwind ==
  /\ Goto("unwind", "return")
  /\ eng' = EngineAfterUnwinding
  /\ UNCHANGED <<opts, outcome, ctxDone, lis, advertised, inVars, groupVars, exit,
                 failures>>

\* run returns; the deferred stop cancels the signal context.
Return ==
  /\ Goto("return", "over")
  /\ ctxDone' = TRUE /\ exit' = outcome
  /\ UNCHANGED <<opts, outcome, resVars, inVars, groupVars, failures>>

\* SIGINT or SIGTERM.
Signal ==
  /\ ~ctxDone /\ ctxDone' = TRUE
  /\ UNCHANGED <<opts, pc, outcome, resVars, inVars, groupVars, exit, failures>>

\* Variant with a defect: the watchdog is armed when serving starts.
WatchdogArmedLate == pc \in {"serve", "unwind"} /\ lis # "none"

\* It is armed before anything else.
WatchdogArmed == TRUE

\* shutdownGrace after the context is done, or a second signal before.
ForceExit ==
  /\ WatchdogArmed
  /\ ctxDone /\ exit' = "forced"
  /\ UNCHANGED <<opts, pc, outcome, ctxDone, resVars, inVars, groupVars, failures>>

----------------------------------------------------------------------------
Prepare ==
  \/ FindVLC \/ FindCastDevice \/ ResolveDataDir \/ NewEngine \/ Open
  \/ SelectVideoFile \/ StartServer
  \/ ReadInput \/ Scan \/ ScanFails

Loop ==
  \/ Serve \/ CloseServer \/ UserInterfaceEnds \/ PlayerRuns
  \/ EndingReturns("ui") \/ EndingReturns("player")
  \/ Wait

Next ==
  /\ exit = "no"
  /\ \/ Type \/ Prepare
     \/ Loop
     \/ Unwind \/ Return
     \/ Signal \/ ForceExit

Spec == Init /\ [][Next]_vars

\* The watchdog's timer fires.
WatchdogFires == WF_vars(exit = "no" /\ ForceExit)

\* The goroutines of serveLoop run and heed their context, and the torrent
\* client closes.
Heeding == GroupCtxDone /\ exit = "no" /\ Loop

LoopUnwinds == WF_vars(Heeding) /\ WF_vars(exit = "no" /\ (Unwind \/ Return))

----------------------------------------------------------------------------
(* Properties *)

(* A process that returns by itself, from wherever it is, has closed its   *)
(* torrent client and its listener.                                        *)
ReturnReleases == exit \in {"ok", "failed"} => eng # "open" /\ lis # "open"

(* The command reports a failure exactly when something failed, whatever   *)
(* the order in which goroutines cancel each other and return: the first   *)
(* error the group keeps is never a cancellation that hides a failure, and *)
(* a session that was merely ended is none.                                *)
FailuresAreReported ==
  exit \in {"ok", "failed"} => (exit = "failed" <=> failures # {})

(* A Chromecast is given a URL off its network exactly when --listen names *)
(* a host that is not checked, whatever happens between the check of       *)
(* --listen and its use; no other way of listening on the loopback         *)
(* interface gets as far as a torrent client.                              *)
UnreachableOnlyIfUnchecked ==
  Casting =>
    /\ eng # "none" /\ Bound(opts.listen) = "loopback IP" => opts.listen \in Unchecked
    /\ lis # "none" => (advertised # "lan" <=> opts.listen \in Unchecked)

(* One goroutine of serveLoop returning, whichever and however, ends the   *)
(* others and the process, without the watchdog's help.                    *)
OneEndsAll ==
  LoopUnwinds => \A m \in Members : member[m] = "returned" ~> exit # "no"

(* A signal ends the process whatever it is doing: the terminal may stay   *)
(* silent, the player and the torrent client may hang.                     *)
SignalEndsProcess == WatchdogFires => (ctxDone ~> exit # "no")

----------------------------------------------------------------------------
(* Expectation of a comment that the code does not meet *)

(* "errNoSelection is returned when input ends before a valid choice is    *)
(* made": no valid choice went away unread.                                *)
NoSelectionMeansNoChoice ==
  noSelection => \A i \in 1 .. Len(lost) : lost[i] # "valid"
=============================================================================
