------------------------------ MODULE WebPage ------------------------------
(***************************************************************************)
(* The page of the web mode, src/internal/web/index.html, in one browser:  *)
(* it polls the state of the streaming manager every second, shows the     *)
(* parts that fit the state it got last, and calls the manager through the *)
(* web API.  Other clients may do the same at the same time.               *)
(*                                                                         *)
(* What the page shows is a copy that is stale until the next poll, so     *)
(* that an answer may be rendered as it is given.  A poll that fails       *)
(* changes nothing that is modelled, and the next one is due all the same. *)
(***************************************************************************)
EXTENDS StreamManager

VARIABLES
  lastState,  \* the state it got last, which decides what is shown
  choices,    \* the videos it has built buttons for
  \* history: the sessions that state and those choices were taken from
  session, choicesOf

pageVars == <<lastState, choices, session, choicesOf>>
allVars == <<vars, pageVars>>

PageTypeOK ==
  /\ TypeOK
  /\ lastState \in States \cup {"loading"}
  /\ choices \in SUBSET Video
  /\ session \in 0 .. MaxGen /\ choicesOf \in 0 .. MaxGen

PageInit ==
  /\ Init
  /\ lastState = "loading" /\ choices = {}
  /\ session = 0 /\ choicesOf = 0

----------------------------------------------------------------------------
(* poll *)

\* Variant with a defect: a page that never saw preparing builds no choices.
RebuiltAfterPreparing(st) == st = "selecting" /\ lastState = "preparing"

\* The choices are built when the state turns to selecting.
Rebuilt(st) == st = "selecting" /\ lastState # "selecting"

\* The status is fetched and rendered.
Poll ==
  /\ IF Rebuilt(Status.state)
     THEN choices' = Status.files /\ choicesOf' = cur
     ELSE UNCHANGED <<choices, choicesOf>>
  /\ lastState' = Status.state /\ session' = cur
  /\ UNCHANGED vars

----------------------------------------------------------------------------
(* The buttons, as far as they are shown: before the first poll, the form. *)

ShownBusy == lastState \notin Ended \cup {"loading"}

Submit(upload) ==
  /\ ~ShownBusy
  /\ Start(upload)
  /\ UNCHANGED pageVars

ClickChoice(i) ==
  /\ lastState = "selecting" /\ i \in choices
  /\ Select(i)
  /\ UNCHANGED pageVars

ClickStop(c) ==
  /\ ShownBusy
  /\ StopBegin(c)
  /\ UNCHANGED pageVars

----------------------------------------------------------------------------
Buttons ==
  \/ \E upload \in BOOLEAN : Submit(upload)
  \/ \E i \in Video : ClickChoice(i)
  \/ \E c \in Callers : ClickStop(c)

PageNext == Poll \/ Buttons \/ (Next /\ UNCHANGED pageVars)

PageSpec == PageInit /\ [][PageNext]_allVars

\* The sessions and the callers of Stop run as in StreamManager, and a poll
\* gets through now and then.
FairPageSpec ==
  /\ PageSpec
  /\ Fairness
  /\ WF_allVars(Poll)

----------------------------------------------------------------------------
(* Properties *)

(* The page catches up: a state that lasts is shown in the end, and with   *)
(* it, when the session waits for a choice, the files there are to choose  *)
(* from, whichever states the page has missed between two polls.  The one  *)
(* exception are choices left from an earlier session, see below.          *)
ChoicesAreShown ==
  choices = Status.files \/ choicesOf \notin {0, cur}

PageCatchesUp ==
  \A s \in States :
    <>[](state = s) =>
      <>[](lastState = s /\ (s = "selecting" => ChoicesAreShown))

----------------------------------------------------------------------------
(* Expectation of the documentation that the code does not meet *)

(* "Multi-video torrents show a file picker in the page": the choices the  *)
(* page shows are those of the torrent whose status it shows.              *)
PickerIsOfTheTorrentShown == lastState = "selecting" => choicesOf = session
=============================================================================
