-------------------------- MODULE CommandLineProofs --------------------------
(***************************************************************************)
(* Theorems about Addresses and CommandLine, for every choice of flags,    *)
(* user interface and input.                                               *)
(***************************************************************************)
EXTENDS CommandLine, TLAPS

----------------------------------------------------------------------------
(* What comes of the decisions of Addresses, in either mode *)

(* In the command-line mode a Chromecast is given a host on its own        *)
(* network when --listen is not given, names all interfaces in a way       *)
(* resolveListen knows, or names this machine's address there.  Any other  *)
(* host that validateCastListen lets through and that can be bound is      *)
(* given to it as it was bound, and is not on its network.                 *)
THEOREM CastHost ==
  ASSUME NEW listen \in Listen,
         ValidateCastListen(listen), Binds(ResolveCastListen(listen, "lan").listen)
  PROVE  /\ StreamHost(ResolveCastListen(listen, "lan"))
              = IF listen \in Unchecked THEN Bound(listen) ELSE "lan"
         /\ listen \in Unchecked => Bound(listen) # "lan"
<1>1. CASE listen \in Wildcard \cup {"unset"}
  BY <1>1 DEF ResolveCastListen, StreamHost, At, NoHost, Wildcard, Unchecked
<1>2. CASE listen \in Unchecked \cup {"lan"}
  BY <1>2 DEF ResolveCastListen, StreamHost, At, NoHost, Bound, Wildcard, Loopback,
    Unchecked
<1>3. CASE listen = "foreign"
  BY <1>3 DEF ResolveCastListen, Binds, At, Wildcard
<1> QED
  BY <1>1, <1>2, <1>3 DEF Listen, Host, Unchecked, ValidateCastListen

(* The web mode never refuses: its Chromecast is given a reachable host    *)
(* exactly when the address of this machine on its network was found;      *)
(* bindAddr goes on with the unspecified address otherwise.                *)
THEOREM WebCastHost ==
  ASSUME NEW lan \in LanIP, NEW requested
  PROVE  StreamHost(BindAddr("cast", lan, requested))
           = IF lan = NoHost THEN "unspecified" ELSE "lan"
<1>1. CASE lan = "lan"
  BY <1>1 DEF BindAddr, StreamHost, At, NoHost
<1>2. CASE lan = NoHost
  BY <1>2 DEF BindAddr, StreamHost, At, NoHost, Bound, Wildcard, Loopback
<1> QED
  BY <1>1, <1>2 DEF LanIP

(* A browser that named the web server by anything but localhost is shown  *)
(* a stream on the very host it named, whatever interface that is; one     *)
(* that said localhost is shown the unspecified address.                   *)
THEOREM WebLinkHost ==
  ASSUME NEW host \in Host \ {"empty"}, NEW lan
  PROVE  StreamHost(BindAddr("http", lan, RequestHost(host)))
           = IF host = "localhost" THEN "unspecified" ELSE host
<1>1. CASE host = "localhost"
  BY <1>1 DEF BindAddr, RequestHost, StreamHost, At, NoHost, Bound, Wildcard, Loopback
<1>2. CASE host # "localhost"
  <2>1. RequestHost(host) = host
    BY <1>2 DEF RequestHost
  <2>2. host # NoHost
    BY DEF Host, NoHost, Wildcard, Loopback
  <2> QED
    BY <1>2, <2>1, <2>2 DEF BindAddr, StreamHost, At
<1> QED
  BY <1>1, <1>2

(* VLC is always given a stream of the loopback interface.                 *)
THEOREM WebVLCHost ==
  ASSUME NEW lan, NEW requested
  PROVE  StreamHost(BindAddr("vlc", lan, requested)) = "loopback IP"
  BY DEF BindAddr, StreamHost, At, NoHost, Bound, Wildcard, Loopback

----------------------------------------------------------------------------
(* The invariant *)

After == {"unwind", "return", "over"}
PCs == Preparing \cup {"serve"} \cup After

(* TypeOK in parts.                                                        *)
FlagsOK == ctxDone \in BOOLEAN /\ inputEnds \in BOOLEAN /\ noSelection \in BOOLEAN

InputOK ==
  /\ input \in Seq(Line) /\ buffer \in Seq(Line) /\ lost \in Seq(Line)
  /\ Len(input) + Len(buffer) + Len(lost) <= MaxLines

ControlOK ==
  /\ opts \in Options
  /\ pc \in PCs /\ outcome \in {"ok", "failed"}
  /\ eng \in Resource /\ lis \in Resource /\ advertised \in Host \cup {NoHost}
  /\ exit \in {"no", "ok", "failed", "forced"}

GroupOK ==
  /\ member \in [Members -> {"idle", "running", "ending", "returned"}]
  /\ result \in [Members -> Result] /\ groupErr \in Result
  /\ failures \in SUBSET (Members \cup {"preparation"})

(* What is held where run is: nothing before it is opened, nothing of the  *)
(* group before serveLoop and nothing running after it.                    *)
HeldInv ==
  /\ pc \in BeforeEngine => eng = "none"
  /\ pc \in (Preparing \ BeforeEngine) \cup {"serve", "unwind"} => eng = "open"
  /\ pc \in Preparing => \A m \in Members : member[m] = "idle"
  /\ member["serve"] = "running" <=> lis = "open"
  /\ pc \in After => \A m \in Members : member[m] \in {"idle", "returned"}
  /\ pc \in {"return", "over"} => eng # "open"
  /\ exit \in {"ok", "failed"} => pc = "over" /\ exit = outcome

(* A failure is in the group, or on its way to it, from the moment it      *)
(* happens, and in the outcome after the group.                            *)
FailedMember(m) == member[m] = "ending" /\ result[m] = "failed"

FailureInv ==
  /\ groupErr # "canceled"
  /\ pc \in Preparing => groupErr = "ok" /\ outcome = "ok" /\ failures = {}
  /\ groupErr = "failed" \/ (\E m \in Members : FailedMember(m)) => failures # {}
  /\ pc = "serve" /\ failures # {} =>
       groupErr = "failed" \/ \E m \in Members : FailedMember(m)
  /\ pc \in After => (outcome = "failed" <=> failures # {})

(* A cast goes on with what validateCastListen let through, and is served  *)
(* on the device's network unless --listen names an unchecked host.        *)
CastInv ==
  /\ pc \in Preparing => lis = "none"
  /\ Casting /\ (pc \in Preparing \ {"find vlc", "find cast"} \/ eng # "none") =>
       ValidateCastListen(opts.listen)
  /\ Casting /\ lis # "none" => (advertised # "lan" <=> opts.listen \in Unchecked)

IInv ==
  /\ FlagsOK /\ InputOK /\ ControlOK /\ GroupOK
  /\ HeldInv /\ FailureInv /\ CastInv

----------------------------------------------------------------------------
(* Standard input *)

(* Lines are moved, never made up: from the input to the scanner's buffer, *)
(* and away with the scanner (pick).                                       *)
LEMMA InputStep ==
  ASSUME InputOK, FlagsOK, Next
  PROVE  InputOK'
<1> USE CommandLineAssumption DEF InputOK, inVars
<1>1. CASE Type
  <2>1. UNCHANGED <<buffer, lost>>
    BY <1>1 DEF Type
  <2>2. CASE UNCHANGED input
    BY <2>1, <2>2
  <2>3. ASSUME NEW line \in Line, input' = Append(input, line),
               Len(input) + Len(buffer) + Len(lost) < MaxLines
        PROVE  InputOK'
    <3>1. input' \in Seq(Line) /\ Len(input') = Len(input) + 1
      BY <2>3
    <3> QED
      BY <2>1, <2>3, <3>1
  <2> QED
    BY <1>1, <2>2, <2>3 DEF Type
<1>2. CASE ReadInput
  <2>1. PICK n \in 1 .. Len(input) :
          /\ buffer' = SubSeq(input, 1, n)
          /\ input' = SubSeq(input, n + 1, Len(input))
    BY <1>2 DEF ReadInput
  <2>2. buffer = <<>> /\ UNCHANGED lost
    BY <1>2 DEF ReadInput
  <2>3. buffer' \in Seq(Line) /\ Len(buffer') = n
    BY <2>1
  <2>4. input' \in Seq(Line) /\ Len(input') = Len(input) - n
    BY <2>1
  <2> QED
    BY <2>1, <2>2, <2>3, <2>4
<1>3. CASE Scan
  <2>1. UNCHANGED input /\ buffer # <<>>
    BY <1>3 DEF Scan
  <2>2. Tail(buffer) \in Seq(Line) /\ Len(Tail(buffer)) = Len(buffer) - 1
    BY <2>1
  <2>3. CASE buffer' = <<>> /\ lost' = lost \o Tail(buffer)
    <3>1. lost' \in Seq(Line) /\ Len(lost') = Len(lost) + Len(buffer) - 1
      BY <2>2, <2>3
    <3> QED
      BY <2>1, <2>3, <3>1
  <2>4. CASE buffer' = Tail(buffer) /\ UNCHANGED lost
    BY <2>1, <2>2, <2>4
  <2> QED
    BY <1>3, <2>3, <2>4 DEF Scan
<1>4. CASE ScanFails
  BY <1>4 DEF ScanFails
<1>5. CASE UNCHANGED inVars
  BY <1>5
<1>6. CASE FindVLC \/ FindCastDevice \/ ResolveDataDir \/ NewEngine \/ Open
           \/ SelectVideoFile \/ StartServer
  BY <1>5, <1>6 DEF FindVLC, FindCastDevice, ResolveDataDir, NewEngine, Open,
    SelectVideoFile, StartServer
<1>7. CASE Loop
  BY <1>5, <1>7 DEF Loop, Serve, CloseServer, UserInterfaceEnds, PlayerRuns,
    EndingReturns, Wait
<1>8. CASE Unwind \/ Return \/ Signal \/ ForceExit
  BY <1>5, <1>8 DEF Unwind, Return, Signal, ForceExit
<1> HIDE DEF InputOK
<1> QED
  BY <1>1, <1>2, <1>3, <1>4, <1>6, <1>7, <1>8 DEF Next, Prepare

----------------------------------------------------------------------------
(* Types *)

(* What a player is given is a host, wherever the server listens.          *)
LEMMA StreamHostType ==
  ASSUME NEW at, at.advertise \in LanIP, at.listen \in Listen, Binds(at.listen)
  PROVE  StreamHost(at) \in Host
  BY DEF StreamHost, Binds, Bound, Listen, Host, LanIP, NoHost, Wildcard, Loopback

(* resolveListen gives an address to listen on and one to advertise.       *)
LEMMA ResolvedType ==
  ASSUME NEW listen \in Listen
  PROVE  /\ ResolveCastListen(listen, "lan").listen \in Listen
         /\ ResolveCastListen(listen, "lan").advertise \in LanIP
<1>1. CASE listen = "unset"
  <2>1. ResolveCastListen(listen, "lan") = At("0.0.0.0", "lan")
    BY <1>1 DEF ResolveCastListen, Wildcard
  <2> QED
    <3>1. "0.0.0.0" \in Listen
      BY DEF Listen, Host, Wildcard
    <3> QED
      BY <2>1, <3>1 DEF At, LanIP
<1>2. CASE listen \in Wildcard
  <2>1. ResolveCastListen(listen, "lan") = At(listen, "lan")
    BY <1>2 DEF ResolveCastListen, Wildcard
  <2> QED
    BY <2>1 DEF At, LanIP
<1>3. CASE listen \notin Wildcard \cup {"unset"}
  <2>1. ResolveCastListen(listen, "lan") = At(listen, NoHost)
    BY <1>3 DEF ResolveCastListen
  <2> QED
    BY <2>1 DEF At, LanIP
<1> QED
  BY <1>1, <1>2, <1>3

(* The value of --listen is one of those told apart.                       *)
LEMMA OptionFields ==
  ASSUME opts \in Options
  PROVE  opts.listen \in Listen /\ opts.player \in {"none", "vlc", "cast"}
  BY DEF Options

(* The flags keep their type.                                              *)
LEMMA FlagsStep ==
  ASSUME FlagsOK, Next
  PROVE  FlagsOK'
<1> USE DEF FlagsOK, inVars
<1>1. CASE Type \/ ReadInput \/ Scan
  BY <1>1 DEF Type, ReadInput, Scan
<1>2. CASE ScanFails
  <2>1. (input = <<>> /\ inputEnds) \in BOOLEAN
    OBVIOUS
  <2> QED
    BY <1>2, <2>1 DEF ScanFails
<1>3. CASE FindVLC \/ FindCastDevice \/ ResolveDataDir \/ NewEngine \/ Open
           \/ SelectVideoFile \/ StartServer
  BY <1>3 DEF FindVLC, FindCastDevice, ResolveDataDir, NewEngine, Open,
    SelectVideoFile, StartServer
<1>4. CASE Loop
  BY <1>4 DEF Loop, Serve, CloseServer, UserInterfaceEnds, PlayerRuns, PlayerEnds,
    EndingReturns, Wait
<1>5. CASE Unwind \/ Return \/ Signal \/ ForceExit
  BY <1>5 DEF Unwind, Return, Signal, ForceExit
<1> HIDE DEF FlagsOK
<1> QED
  BY <1>1, <1>2, <1>3, <1>4, <1>5 DEF Next, Prepare

(* Where run is, what it holds and what it returns keep their types.       *)
LEMMA ControlStep ==
  ASSUME ControlOK, Next
  PROVE  ControlOK'
<1> USE DEF ControlOK, PCs, Preparing, BeforeEngine, After, Resource, resVars,
      Goto, Proceed, Fail, Attempt
<1>1. CASE Type \/ ReadInput
  BY <1>1 DEF Type, ReadInput
<1>2. CASE Scan \/ ScanFails
  BY <1>2 DEF Scan, ScanFails, AfterPrompt, Prompts
<1>3. CASE FindVLC \/ FindCastDevice \/ ResolveDataDir \/ Open \/ SelectVideoFile
  <2>1. CASE FindVLC \/ ResolveDataDir \/ Open
    BY <2>1 DEF FindVLC, ResolveDataDir, Open
  <2>2. CASE FindCastDevice
    BY <2>2 DEF FindCastDevice
  <2>3. CASE SelectVideoFile
    BY <2>3 DEF SelectVideoFile
  <2> QED
    BY <1>3, <2>1, <2>2, <2>3
<1>4. CASE NewEngine
  BY <1>4 DEF NewEngine
<1>5. CASE StartServer
  <2>1. ASSUME NEW at, Serving(at), at.advertise \in LanIP, at.listen \in Listen
        PROVE  pc' = "serve" /\ outcome' = outcome /\ lis' = "open" /\ advertised' \in Host
    BY <2>1, StreamHostType DEF Serving
  <2>2. CASE Serving(At(opts.listen, NoHost))
    <3>1. /\ At(opts.listen, NoHost).listen \in Listen
          /\ At(opts.listen, NoHost).advertise \in LanIP
      BY OptionFields DEF At, LanIP
    <3>2. pc' = "serve" /\ outcome' = outcome /\ lis' = "open" /\ advertised' \in Host
      BY <2>1, <2>2, <3>1
    <3> QED
      BY <1>5, <3>2 DEF StartServer
  <2>3. CASE Serving(ResolveCastListen(opts.listen, "lan"))
    <3>1. pc' = "serve" /\ outcome' = outcome /\ lis' = "open" /\ advertised' \in Host
      BY <2>1, <2>3, OptionFields, ResolvedType
    <3> QED
      BY <1>5, <3>1 DEF StartServer
  <2>4. CASE Fail("listen") /\ UNCHANGED <<lis, advertised, member>>
    BY <1>5, <2>4 DEF StartServer
  <2> QED
    BY <1>5, <2>2, <2>3, <2>4 DEF StartServer
<1>6. CASE Serve \/ CloseServer \/ UserInterfaceEnds \/ PlayerRuns
  BY <1>6 DEF Serve, CloseServer, UserInterfaceEnds, PlayerRuns
<1>7. CASE EndingReturns("ui") \/ EndingReturns("player") \/ Wait
  BY <1>7 DEF EndingReturns, Wait, GroupOutcome
<1>8. CASE Unwind \/ Return \/ Signal \/ ForceExit
  BY <1>8 DEF Unwind, EngineAfterUnwinding, Return, Signal, ForceExit
<1> HIDE DEF ControlOK
<1> QED
  BY <1>1, <1>2, <1>3, <1>4, <1>5, <1>6, <1>7, <1>8 DEF Next, Prepare, Loop

(* The errgroup's variables keep their types.                              *)
LEMMA GroupStep ==
  ASSUME GroupOK, ControlOK, Next
  PROVE  GroupOK'
<1> USE DEF GroupOK, Result, Members, groupVars, Proceed, Fail, Attempt
<1>1. CASE Type \/ ReadInput \/ Scan \/ ScanFails
  BY <1>1 DEF Type, ReadInput, Scan, ScanFails
<1>2. CASE FindVLC \/ FindCastDevice \/ ResolveDataDir \/ NewEngine \/ Open
           \/ SelectVideoFile
  BY <1>2 DEF FindVLC, FindCastDevice, ResolveDataDir, NewEngine, Open,
    SelectVideoFile
<1>3. CASE StartServer
  <2>1. member' \in {member, Running} /\ UNCHANGED <<result, groupErr>>
        /\ failures' \in {failures, failures \cup {"preparation"}}
    BY <1>3 DEF StartServer, Serving
  <2>2. Running \in [Members -> {"idle", "running", "ending", "returned"}]
    BY DEF Running
  <2> QED
    BY <2>1, <2>2
<1>4. CASE Serve \/ CloseServer
  <2>1. PICK m \in {"serve", "closer"}, r \in {"ok", "failed"} :
          Returns(m, "running", r) /\ Failed(m, r) /\ UNCHANGED result
    BY <1>4 DEF Serve, CloseServer
  <2>2. member' = [member EXCEPT ![m] = "returned"] /\ groupErr' \in {groupErr, r}
    BY <2>1 DEF Returns, Returned
  <2>3. failures' \in {failures, failures \cup {m}}
    BY <2>1 DEF Failed
  <2> QED
    BY <2>1, <2>2, <2>3
<1>5. CASE UserInterfaceEnds \/ PlayerRuns
  <2>1. PICK m \in {"ui", "player"}, r \in Result :
          /\ member' = [member EXCEPT ![m] = "ending"]
          /\ result' = [result EXCEPT ![m] = r]
          /\ failures' \in {failures, failures \cup {m}}
    BY <1>5 DEF UserInterfaceEnds, PlayerRuns, Ends, Failed
  <2>2. UNCHANGED groupErr
    BY <1>5 DEF UserInterfaceEnds, PlayerRuns
  <2> QED
    BY <2>1, <2>2
<1>6. CASE EndingReturns("ui") \/ EndingReturns("player") \/ Wait
  BY <1>6 DEF EndingReturns, Returns, Returned, FilteredResult, Wait
<1>7. CASE Unwind \/ Return \/ Signal \/ ForceExit
  BY <1>7 DEF Unwind, Return, Signal, ForceExit
<1> HIDE DEF GroupOK
<1> QED
  BY <1>1, <1>2, <1>3, <1>4, <1>5, <1>6, <1>7 DEF Next, Prepare, Loop

----------------------------------------------------------------------------
(* What is held *)

(* Every step keeps what is held in line with where run is.                *)
LEMMA HeldStep ==
  ASSUME ControlOK, GroupOK, HeldInv, CastInv, Next
  PROVE  HeldInv'
<1> USE DEF ControlOK, GroupOK, HeldInv, PCs, Preparing, BeforeEngine, After, Members,
      resVars, groupVars, Goto, Proceed, Fail, Attempt
<1>1. CASE Type \/ ReadInput
  BY <1>1 DEF Type, ReadInput
<1>2. CASE Scan \/ ScanFails
  BY <1>2 DEF Scan, ScanFails, AfterPrompt, Prompts
<1>3. CASE FindVLC \/ FindCastDevice \/ ResolveDataDir
  BY <1>3 DEF FindVLC, FindCastDevice, ResolveDataDir
<1>4. CASE NewEngine \/ Open \/ SelectVideoFile
  BY <1>4 DEF NewEngine, Open, SelectVideoFile
<1>5. CASE StartServer
  <2>1. pc = "listen" /\ UNCHANGED <<eng, exit>> /\ exit' = exit
    BY <1>5 DEF StartServer, Serving
  <2>2. CASE pc' = "serve" /\ lis' = "open" /\ member' = Running
    <3>1. member'["serve"] = "running"
      BY <2>2 DEF Running
    <3> QED
      BY <2>1, <2>2, <3>1
  <2>3. CASE Fail("listen") /\ UNCHANGED <<lis, member>>
    BY <2>1, <2>3
  <2> QED
    BY <1>5, <2>2, <2>3 DEF StartServer, Serving
<1>6. CASE Serve \/ CloseServer
  BY <1>6 DEF Serve, CloseServer, Returns
<1>7. CASE UserInterfaceEnds \/ PlayerRuns
  BY <1>7 DEF UserInterfaceEnds, PlayerRuns, Ends
<1>8. CASE EndingReturns("ui") \/ EndingReturns("player")
  BY <1>8 DEF EndingReturns, Returns
<1>9. CASE Wait
  BY <1>9 DEF Wait
<1>10. CASE Unwind \/ Return \/ Signal \/ ForceExit
  BY <1>10 DEF Unwind, EngineAfterUnwinding, Return, Signal, ForceExit
<1> HIDE DEF HeldInv
<1> QED
  BY <1>1, <1>2, <1>3, <1>4, <1>5, <1>6, <1>7, <1>8, <1>9, <1>10
    DEF Next, Prepare, Loop

----------------------------------------------------------------------------
(* What is reported *)

(* A failure is never lost between the goroutine it happens in, the group  *)
(* and run: cancellations are filtered before they reach the group.        *)
LEMMA FailureStep ==
  ASSUME ControlOK, GroupOK, HeldInv, FailureInv, Next
  PROVE  FailureInv'
<1> USE DEF ControlOK, GroupOK, FailureInv, FailedMember, PCs, Preparing,
      BeforeEngine, After, Members, groupVars, Goto, Proceed, Fail, Attempt
<1>1. CASE Type \/ ReadInput
  BY <1>1 DEF Type, ReadInput
<1>2. CASE Scan \/ ScanFails
  BY <1>2 DEF Scan, ScanFails, AfterPrompt, Prompts, HeldInv
<1>3. CASE FindVLC \/ FindCastDevice \/ ResolveDataDir
  BY <1>3 DEF FindVLC, FindCastDevice, ResolveDataDir, HeldInv
<1>4. CASE NewEngine \/ Open \/ SelectVideoFile
  BY <1>4 DEF NewEngine, Open, SelectVideoFile, HeldInv
<1>5. CASE StartServer
  <2>1. pc = "listen" /\ UNCHANGED <<result, groupErr>>
    BY <1>5 DEF StartServer, Serving
  <2>2. CASE pc' = "serve" /\ UNCHANGED <<outcome, failures>> /\ member' = Running
    <3>1. \A m \in Members : member'[m] # "ending"
      BY <2>2 DEF Running
    <3> QED
      BY <2>1, <2>2, <3>1
  <2>3. CASE Fail("listen") /\ UNCHANGED member
    BY <2>1, <2>3 DEF HeldInv
  <2> QED
    BY <1>5, <2>2, <2>3 DEF StartServer, Serving
<1>6. CASE Serve \/ CloseServer
  <2>1. PICK m \in {"serve", "closer"}, r \in {"ok", "failed"} :
          Returns(m, "running", r) /\ Failed(m, r)
    BY <1>6 DEF Serve, CloseServer
  <2>2. pc = "serve" /\ UNCHANGED <<pc, outcome, result>>
    <3>1. UNCHANGED <<pc, outcome, result>>
      BY <1>6 DEF Serve, CloseServer
    <3>2. member[m] = "running"
      BY <2>1 DEF Returns
    <3>3. m \in Members
      OBVIOUS
    <3> QED
      BY <3>1, <3>2, <3>3 DEF HeldInv
  <2>3. /\ groupErr' = IF groupErr = "ok" THEN r ELSE groupErr
        /\ failures' = IF r = "failed" THEN failures \cup {m} ELSE failures
        /\ member' = [member EXCEPT ![m] = "returned"]
        /\ member[m] = "running"
    BY <2>1 DEF Returns, Returned, Failed
  <2>4. \A n \in Members : FailedMember(n)' <=> FailedMember(n)
    BY <2>2, <2>3
  <2>5. groupErr \in {"ok", "failed"}
    BY DEF Result
  <2> HIDE DEF FailedMember, Members
  <2> QED
    BY <2>2, <2>3, <2>4, <2>5
<1>7. CASE UserInterfaceEnds \/ PlayerRuns
  <2>1. PICK m \in {"ui", "player"}, r \in Result :
          /\ Ends(m) /\ Failed(m, r)
          /\ result' = [result EXCEPT ![m] = r]
    BY <1>7 DEF UserInterfaceEnds, PlayerRuns, Result
  <2>2. pc = "serve" /\ UNCHANGED <<pc, outcome, groupErr>>
    <3>1. UNCHANGED <<pc, outcome, groupErr>>
      BY <1>7 DEF UserInterfaceEnds, PlayerRuns
    <3>2. member[m] = "running" /\ m \in Members
      BY <2>1 DEF Ends
    <3> QED
      BY <3>1, <3>2 DEF HeldInv
  <2>3. /\ \A n \in Members \ {m} : FailedMember(n)' <=> FailedMember(n)
        /\ FailedMember(m)' <=> r = "failed"
        /\ ~FailedMember(m)
        /\ m \in Members
    BY <2>1 DEF Ends
  <2>4. failures' = IF r = "failed" THEN failures \cup {m} ELSE failures
    BY <2>1 DEF Failed
  <2> HIDE DEF FailedMember, Members
  <2> QED
    BY <2>2, <2>3, <2>4
<1>8. CASE EndingReturns("ui") \/ EndingReturns("player")
  <2>1. PICK m \in {"ui", "player"} : EndingReturns(m)
    BY <1>8
  <2>2. pc = "serve" /\ UNCHANGED <<pc, outcome, result, failures>>
    <3>1. UNCHANGED <<pc, outcome, result, failures>>
      BY <2>1 DEF EndingReturns
    <3>2. member[m] = "ending" /\ m \in Members
      BY <2>1 DEF EndingReturns, Returns
    <3> QED
      BY <3>1, <3>2 DEF HeldInv
  <2>3. /\ member[m] = "ending" /\ member' = [member EXCEPT ![m] = "returned"]
        /\ groupErr' = IF groupErr = "ok" THEN FilteredResult(m) ELSE groupErr
    BY <2>1 DEF EndingReturns, Returns, Returned
  <2>4. /\ FilteredResult(m) \in {"ok", "failed"}
        /\ FilteredResult(m) = "failed" <=> FailedMember(m)
    BY <2>3 DEF FilteredResult, Result
  <2>5. /\ \A n \in Members \ {m} : FailedMember(n)' <=> FailedMember(n)
        /\ ~FailedMember(m)' /\ m \in Members
    BY <2>2, <2>3
  <2>6. groupErr \in {"ok", "failed"}
    BY DEF Result
  <2> HIDE DEF FailedMember, Members
  <2> QED
    BY <2>2, <2>3, <2>4, <2>5, <2>6
<1>9. CASE Wait
  <2>1. \A m \in Members : ~FailedMember(m)
    BY <1>9 DEF Wait
  <2>2. UNCHANGED <<groupErr, failures, member, result>> /\ pc = "serve" /\ pc' = "unwind"
        /\ outcome' = GroupOutcome
    BY <1>9 DEF Wait
  <2> QED
    BY <2>1, <2>2 DEF GroupOutcome
<1>10. CASE Unwind \/ Return \/ Signal \/ ForceExit
  BY <1>10 DEF Unwind, Return, Signal, ForceExit
<1> HIDE DEF FailureInv
<1> QED
  BY <1>1, <1>2, <1>3, <1>4, <1>5, <1>6, <1>7, <1>8, <1>9, <1>10
    DEF Next, Prepare, Loop

----------------------------------------------------------------------------
(* What a device is given *)

(* findCastDevice checks --listen before anything is opened, and what      *)
(* StartServer advertises to a device is what resolveListen makes of it.   *)
LEMMA CastStep ==
  ASSUME ControlOK, HeldInv, CastInv, Next
  PROVE  CastInv'
<1> USE DEF ControlOK, CastInv, Casting, PCs, Preparing, BeforeEngine, After,
      resVars, Goto, Proceed, Fail, Attempt
<1>1. CASE Type \/ ReadInput
  BY <1>1 DEF Type, ReadInput
<1>2. CASE Scan \/ ScanFails
  BY <1>2 DEF Scan, ScanFails, AfterPrompt, Prompts
<1>3. CASE FindVLC
  BY <1>3 DEF FindVLC, HeldInv
<1>4. CASE FindCastDevice
  BY <1>4 DEF FindCastDevice, HeldInv
<1>5. CASE ResolveDataDir \/ Open \/ SelectVideoFile
  BY <1>5 DEF ResolveDataDir, Open, SelectVideoFile
<1>6. CASE NewEngine
  BY <1>6 DEF NewEngine
<1>7. CASE StartServer
  <2>1. pc = "listen" /\ UNCHANGED <<opts, eng>>
    BY <1>7 DEF StartServer, Serving
  <2>2. CASE ~Casting
    BY <1>7, <2>1, <2>2 DEF StartServer, Serving
  <2>3. CASE Casting /\ Serving(ResolveCastListen(opts.listen, "lan"))
    <3>1. opts.listen \in Listen /\ ValidateCastListen(opts.listen)
      BY <2>1, <2>3, OptionFields
    <3>2. advertised' # "lan" <=> opts.listen \in Unchecked
      BY <2>3, <3>1, CastHost DEF Serving
    <3>3. pc' = "serve"
      BY <2>3 DEF Serving
    <3> QED
      BY <2>1, <2>3, <3>1, <3>2, <3>3
  <2>4. CASE Fail("listen") /\ UNCHANGED <<lis, advertised>>
    BY <2>1, <2>4
  <2> QED
    BY <1>7, <2>2, <2>3, <2>4 DEF StartServer
<1>8. CASE Serve
  <2>1. lis = "open" /\ UNCHANGED <<opts, pc, eng, advertised>>
    BY <1>8 DEF Serve, Returns, HeldInv
  <2> QED
    BY <2>1
<1>9. CASE CloseServer \/ UserInterfaceEnds \/ PlayerRuns
  BY <1>9 DEF CloseServer, UserInterfaceEnds, PlayerRuns
<1>10. CASE EndingReturns("ui") \/ EndingReturns("player") \/ Wait
  BY <1>10 DEF EndingReturns, Wait
<1>11. CASE Unwind
  BY <1>11 DEF Unwind, EngineAfterUnwinding, HeldInv
<1>12. CASE Return \/ Signal \/ ForceExit
  BY <1>12 DEF Return, Signal, ForceExit
<1> HIDE DEF CastInv
<1> QED
  BY <1>1, <1>2, <1>3, <1>4, <1>5, <1>6, <1>7, <1>8, <1>9, <1>10, <1>11, <1>12
    DEF Next, Prepare, Loop

----------------------------------------------------------------------------
(* The theorems *)

(* The invariant holds of the command line at every moment.                *)
LEMMA CommandLineInductive == Spec => []IInv
<1>1. Init => IInv
  <2> SUFFICES ASSUME Init PROVE IInv
    OBVIOUS
  <2> USE DEF Init
  <2>1. FlagsOK
    BY DEF FlagsOK
  <2>2. InputOK
    <3>1. input = <<>> /\ buffer = <<>> /\ lost = <<>>
      OBVIOUS
    <3> HIDE DEF Init
    <3>2. input \in Seq(Line) /\ buffer \in Seq(Line) /\ lost \in Seq(Line)
      BY <3>1
    <3>3. Len(input) = 0 /\ Len(buffer) = 0 /\ Len(lost) = 0
      BY <3>1
    <3> QED
      BY <3>2, <3>3, CommandLineAssumption DEF InputOK
  <2>3. ControlOK
    BY DEF ControlOK, PCs, Preparing, BeforeEngine, Resource
  <2>4. GroupOK
    BY DEF GroupOK, Result
  <2>5. HeldInv
    BY DEF HeldInv, Members, After, Preparing, BeforeEngine
  <2>6. FailureInv
    BY DEF FailureInv, FailedMember, After, Members
  <2>7. CastInv
    BY DEF CastInv, Preparing, BeforeEngine
  <2> HIDE DEF Init
  <2> QED
    BY <2>1, <2>2, <2>3, <2>4, <2>5, <2>6, <2>7 DEF IInv
<1>2. IInv /\ [Next]_vars => IInv'
  <2> SUFFICES ASSUME IInv, [Next]_vars PROVE IInv'
    OBVIOUS
  <2>1. CASE Next
    BY <2>1, InputStep, FlagsStep, ControlStep, GroupStep, HeldStep, FailureStep,
      CastStep DEF IInv
  <2>2. CASE UNCHANGED vars
    <3> USE <2>2 DEF IInv, vars, inVars, resVars, groupVars
    <3>1. FlagsOK' /\ InputOK'
      BY DEF FlagsOK, InputOK
    <3>2. ControlOK' /\ GroupOK'
      BY DEF ControlOK, GroupOK
    <3>3. HeldInv'
      BY DEF HeldInv
    <3>4. FailureInv'
      BY DEF FailureInv, FailedMember
    <3>5. CastInv'
      BY DEF CastInv, Casting
    <3> QED
      BY <3>1, <3>2, <3>3, <3>4, <3>5
  <2> QED
    BY <2>1, <2>2
<1> QED
  BY <1>1, <1>2, PTL DEF Spec

(* TypeOK of CommandLine.                                                  *)
THEOREM CommandTypeCorrect == Spec => []TypeOK
<1>1. IInv => TypeOK
  BY DEF IInv, TypeOK, FlagsOK, InputOK, ControlOK, GroupOK, PCs, After
<1> QED
  BY <1>1, CommandLineInductive, PTL

(* ReturnReleases: wherever run leaves, an error path or the end of        *)
(* serveLoop, the deferred eng.Close and the server's own end have been    *)
(* passed before the process returns.                                      *)
THEOREM EveryReturnReleases == Spec => []ReturnReleases
<1>1. IInv => ReturnReleases
  BY DEF IInv, ReturnReleases, ControlOK, GroupOK, HeldInv, After, Members
<1> QED
  BY <1>1, CommandLineInductive, PTL

(* FailuresAreReported: the exit status tells a failure from a session     *)
(* that was ended, in whatever order the goroutines of serveLoop return.   *)
THEOREM NoFailureIsLost == Spec => []FailuresAreReported
<1>1. IInv => FailuresAreReported
  BY DEF IInv, FailuresAreReported, ControlOK, HeldInv, FailureInv, After
<1> QED
  BY <1>1, CommandLineInductive, PTL

(* UnreachableOnlyIfUnchecked: the host the device is given is decided by  *)
(* --listen alone, and is off its network exactly for the unchecked hosts. *)
THEOREM ListenDecidesTheURL == Spec => []UnreachableOnlyIfUnchecked
<1>1. ASSUME NEW listen \in Listen, ValidateCastListen(listen),
             Bound(listen) = "loopback IP"
      PROVE  listen \in Unchecked
  BY <1>1 DEF ValidateCastListen, Bound, Listen, Host, Wildcard, Loopback, Unchecked
<1>2. IInv => UnreachableOnlyIfUnchecked
  BY <1>1, OptionFields DEF IInv, UnreachableOnlyIfUnchecked, ControlOK, CastInv
<1> QED
  BY <1>2, CommandLineInductive, PTL
=============================================================================
