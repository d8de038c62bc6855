----------------------------- MODULE Discovery -----------------------------
(***************************************************************************)
(* The search for a Chromecast, src/internal/cast/discover.go: mDNS        *)
(* queries in rounds, whose answers are merged by UUID.  Devices           *)
(* enumerates for a fixed number of rounds; ByName repeats rounds until    *)
(* the device it looks for has answered or its time is up.                 *)
(*                                                                         *)
(* The network is external: in a round any device answers any number of    *)
(* times, always with the same description, or not at all.                 *)
(***************************************************************************)
EXTENDS Naturals, Sequences, FiniteSets

CONSTANTS
  UUID,             \* the devices on the network
  Name,             \* friendly names, ordered, a set of numbers
  discoveryRounds,
  Wanted            \* the name ByName looks for

ASSUME DiscoveryAssumption ==
  /\ IsFiniteSet(UUID)
  /\ Name \subseteq Nat /\ Wanted \in Name
  /\ discoveryRounds \in Nat \ {0}

VARIABLES
  entry,    \* by UUID: what the device answers
  mode,     \* Devices or ByName
  pc,       \* where it is
  rounds,   \* rounds begun by Devices
  errs,     \* how many of them failed
  seen, devices, \* answers so far, and the video devices among them
  ctxDone,  \* ctx is done: a signal, or ByName's NameTimeout
  result    \* what is returned

vars == <<entry, mode, pc, rounds, errs, seen, devices, ctxDone, result>>

\* The ca= bitmask with and without VIDEO_OUT, or missing; whether the model
\* is on the list of audio devices.
Entry == [name : Name, ca : {"video", "audio", "missing"}, audioModel : BOOLEAN]

Pending == [kind |-> "pending", list |-> <<>>]
Failed == [kind |-> "failed", list |-> <<>>]
NotFound == [kind |-> "notFound", list |-> <<>>]
Listed(list) == [kind |-> "found", list |-> list]

TypeOK ==
  /\ entry \in [UUID -> Entry]
  /\ mode \in {"Devices", "ByName"}
  /\ pc \in {"loop", "query", "collect", "match", "over"}
  /\ rounds \in 0 .. discoveryRounds /\ errs \in 0 .. rounds
  /\ seen \in SUBSET UUID
  /\ devices \in Seq(UUID) /\ Len(devices) <= Cardinality(UUID)
  /\ ctxDone \in BOOLEAN
  /\ result.kind \in {"pending", "failed", "notFound", "found"}
  /\ result.list \in Seq(UUID) /\ Len(result.list) <= Cardinality(UUID)

Init ==
  /\ entry \in [UUID -> Entry]
  /\ mode \in {"Devices", "ByName"}
  /\ pc = "loop" /\ rounds = 0 /\ errs = 0
  /\ seen = {} /\ devices = <<>>
  /\ ctxDone = FALSE /\ result = Pending

----------------------------------------------------------------------------
\* isVideoDevice: the capability bit decides, the model if there is none.
IsVideo(u) ==
  CASE entry[u].ca = "video" -> TRUE
    [] entry[u].ca = "audio" -> FALSE
    [] entry[u].ca = "missing" -> ~entry[u].audioModel

\* strings.EqualFold: names 2k and 2k + 1 differ in case only.
EqualFold(m, n) == m \div 2 = n \div 2

Elements(list) == {list[i] : i \in 1 .. Len(list)}

\* sort.Slice by name: devices of the same name come in any order.
SortedByName(list) ==
  {s \in [1 .. Len(list) -> Elements(list)] :
     /\ Elements(s) = Elements(list)
     /\ \A i \in 1 .. Len(s) - 1 : entry[s[i]].name <= entry[s[i + 1]].name}

Answer(r) == pc' = "over" /\ result' = r

----------------------------------------------------------------------------
(* Devices and ByName: their loops *)

\* Variant with a defect: one round too many.
OneRoundTooMany == rounds <= discoveryRounds

MoreRounds == rounds < discoveryRounds

\* Another round of Devices, unless the context is done.
NextRound ==
  /\ mode = "Devices" /\ pc = "loop"
  /\ MoreRounds
  /\ IF ctxDone THEN Answer(Failed) /\ UNCHANGED rounds
                ELSE pc' = "query" /\ rounds' = rounds + 1 /\ UNCHANGED result
  /\ UNCHANGED <<entry, mode, errs, seen, devices, ctxDone>>

\* After the last one: an error if all failed, the devices found otherwise.
Enumerated ==
  /\ mode = "Devices" /\ pc = "loop"
  /\ ~MoreRounds
  /\ \/ errs = discoveryRounds /\ Answer(Failed)
     \/ errs < discoveryRounds /\ devices = <<>> /\ Answer(NotFound)
     \/ /\ errs < discoveryRounds /\ devices # <<>>
        /\ \E list \in SortedByName(devices) : Answer(Listed(list))
  /\ UNCHANGED <<entry, mode, rounds, errs, seen, devices, ctxDone>>

\* Variant with a defect: the loop does not look at the context.
SearchForEver ==
  /\ mode = "ByName" /\ pc = "loop" /\ pc' = "query"
  /\ UNCHANGED <<entry, mode, rounds, errs, seen, devices, ctxDone, result>>

\* ByName repeats its round until the context is done.
Search ==
  /\ mode = "ByName" /\ pc = "loop"
  /\ IF ctxDone THEN Answer(NotFound) ELSE pc' = "query" /\ UNCHANGED result
  /\ UNCHANGED <<entry, mode, rounds, errs, seen, devices, ctxDone>>

\* The first device of that name is taken, whether or not time is up.
Match ==
  /\ pc = "match"
  /\ LET named == {i \in 1 .. Len(devices) : EqualFold(entry[devices[i]].name, Wanted)}
     IN  \/ /\ named = {}
            /\ pc' = "loop" /\ UNCHANGED result
         \/ \E i \in named :
              /\ \A j \in named : i <= j
              /\ Answer(Listed(<<devices[i]>>))
  /\ UNCHANGED <<entry, mode, rounds, errs, seen, devices, ctxDone>>

----------------------------------------------------------------------------
(* round *)

AfterRound == IF mode = "Devices" THEN "loop" ELSE "match"

\* Variant with a defect: ByName gives up at the first round that fails.
AfterFailureGivingUp == Answer(IF mode = "Devices" THEN Failed ELSE NotFound)

\* A failed round is tolerated, unless ByName's time is up.
AfterFailure ==
  IF mode = "ByName" /\ ctxDone
  THEN Answer(NotFound)
  ELSE pc' = AfterRound /\ UNCHANGED result

DevicesKept == devices

\* DiscoverFn fails; the devices of earlier rounds are kept.
QueryFails ==
  /\ pc = "query"
  /\ AfterFailure
  /\ errs' = IF mode = "Devices" THEN errs + 1 ELSE errs
  /\ devices' = DevicesKept
  /\ UNCHANGED <<entry, mode, rounds, seen, ctxDone>>

Query ==
  /\ pc = "query" /\ pc' = "collect"
  /\ UNCHANGED <<entry, mode, rounds, errs, seen, devices, ctxDone, result>>

\* A device answers; only its first answer counts.
Collect(u) ==
  /\ pc = "collect" /\ u \notin seen
  /\ seen' = seen \cup {u}
  /\ devices' = IF IsVideo(u) THEN Append(devices, u) ELSE devices
  /\ UNCHANGED <<entry, mode, pc, rounds, errs, ctxDone, result>>

\* Variant with a defect: devices are remembered within a round only.
RoundEndsForgetting ==
  /\ pc = "collect"
  /\ pc' = AfterRound /\ seen' = {}
  /\ UNCHANGED <<entry, mode, rounds, errs, devices, ctxDone, result>>

\* The round's own timeout, or the end of ctx, closes the channel.
RoundEnds ==
  /\ pc = "collect"
  /\ pc' = AfterRound
  /\ UNCHANGED <<entry, mode, rounds, errs, seen, devices, ctxDone, result>>

\* A signal, or NameTimeout.
ContextEnds ==
  /\ ~ctxDone /\ pc # "over"
  /\ ctxDone' = TRUE
  /\ UNCHANGED <<entry, mode, pc, rounds, errs, seen, devices, result>>

----------------------------------------------------------------------------
Step ==
  \/ NextRound \/ Enumerated \/ Search \/ Match
  \/ QueryFails \/ Query \/ RoundEnds

Next == Step \/ (\E u \in UUID : Collect(u)) \/ ContextEnds

Spec == Init /\ [][Next]_vars

\* Timers fire; ByName's context has one, and DiscoverFn returns.
FairSpec == Spec /\ WF_vars(Step) /\ WF_vars(mode = "ByName" /\ ContextEnds)

----------------------------------------------------------------------------
(* Properties *)

Distinct(list) == \A i, j \in 1 .. Len(list) : i # j => list[i] # list[j]

(* What Devices lists is every video device that answered in any round,    *)
(* once, in the order of the names: rounds that failed, or devices that    *)
(* answered several times, change nothing.  It fails only when every round *)
(* failed or the context ended, and finds nothing only when no video       *)
(* device answered.                                                        *)
EnumerationIsComplete ==
  mode = "Devices" =>
    /\ result.kind = "found" =>
         /\ Elements(result.list) = {u \in seen : IsVideo(u)}
         /\ Distinct(result.list)
         /\ result.list \in SortedByName(result.list)
    /\ result.kind = "failed" => ctxDone \/ (errs = discoveryRounds /\ seen = {})
    /\ result.kind = "notFound" => \A u \in seen : ~IsVideo(u)

(* ByName gives up only when its time is up, and never on a device that    *)
(* has answered, in the very last round included; what it takes carries    *)
(* the name and renders video.                                             *)
SearchIsThorough ==
  mode = "ByName" =>
    /\ result.kind = "notFound" =>
         /\ ctxDone
         /\ \A u \in seen : IsVideo(u) => ~EqualFold(entry[u].name, Wanted)
    /\ result.kind = "found" =>
         /\ IsVideo(result.list[1])
         /\ EqualFold(entry[result.list[1]].name, Wanted)

(* A search comes to an end, whatever fails and however few devices        *)
(* answer.                                                                 *)
SearchEnds == <>(result # Pending)
=============================================================================
