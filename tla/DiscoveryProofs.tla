--------------------------- MODULE DiscoveryProofs ---------------------------
(***************************************************************************)
(* Theorems about Discovery for any network, any number of rounds and any  *)
(* name to look for.                                                       *)
(***************************************************************************)
EXTENDS Discovery, FiniteSetTheorems, TLAPS

(* TypeOK in parts.                                                        *)
ControlOK ==
  /\ mode \in {"Devices", "ByName"}
  /\ pc \in {"loop", "query", "collect", "match", "over"}
  /\ mode = "Devices" => pc # "match"

RoundsOK ==
  /\ rounds \in 0 .. discoveryRounds /\ errs \in 0 .. rounds

AnswersOK ==
  /\ entry \in [UUID -> Entry]
  /\ seen \in SUBSET UUID /\ devices \in Seq(UUID)

(* The list holds the video devices among those seen, each once.           *)
Video == {u \in seen : IsVideo(u)}

ListInv == Elements(devices) = Video /\ Distinct(devices)

(* A round under way has not failed yet, and one that any device answered  *)
(* never does.                                                             *)
RoundInv ==
  mode = "Devices" =>
    /\ pc \in {"query", "collect"} => errs < rounds
    /\ seen # {} => errs < rounds /\ (pc = "query" => errs + 1 < rounds)

(* A device of the name that was looked for is noticed before another      *)
(* round begins, and before the search is given up.                        *)
SearchInv ==
  mode = "ByName" /\ pc \in {"loop", "query"} =>
    \A u \in Video : ~EqualFold(entry[u].name, Wanted)

(* What is returned: nothing until the end.                                *)
ResultOK ==
  /\ result.kind \in {"pending", "failed", "notFound", "found"}
  /\ result.list \in Seq(UUID) /\ Distinct(result.list)

ResultInv ==
  /\ pc # "over" => result = Pending
  /\ ResultOK /\ EnumerationIsComplete /\ SearchIsThorough

IInv ==
  /\ ctxDone \in BOOLEAN
  /\ ControlOK /\ RoundsOK /\ AnswersOK
  /\ ListInv /\ RoundInv /\ SearchInv /\ ResultInv

----------------------------------------------------------------------------
(* Lists of devices *)

(* A list without repetitions holds as many devices as it has places.      *)
LEMMA DistinctCounts ==
  ASSUME NEW list \in Seq(UUID), Distinct(list)
  PROVE  /\ IsFiniteSet(Elements(list))
         /\ Cardinality(Elements(list)) = Len(list)
         /\ Len(list) <= Cardinality(UUID)
<1> DEFINE S == 1 .. Len(list)
<1>0. Len(list) \in Nat
  OBVIOUS
<1>1. Len(list) \in Nat /\ IsFiniteSet(S) /\ Cardinality(S) = Len(list)
  <2>1. Len(list) \in Int /\ 1 \in Int
    BY <1>0
  <2>2. /\ IsFiniteSet(S)
        /\ Cardinality(S) = IF 1 > Len(list) THEN 0 ELSE Len(list) - 1 + 1
    BY <2>1, FS_Interval
  <2> QED
    BY <1>0, <2>2
<1>2. list \in [S -> Elements(list)]
  BY DEF Elements
<1>3. list \in Bijection(S, Elements(list))
  BY <1>2 DEF Elements, Distinct, Bijection, Injection, Surjection, IsInjective
<1>4. IsFiniteSet(Elements(list)) /\ Cardinality(Elements(list)) = Cardinality(S)
  BY <1>1, <1>3, FS_Bijection DEF ExistsBijection
<1>5. Elements(list) \subseteq UUID
  BY DEF Elements
<1>6. Cardinality(Elements(list)) <= Cardinality(UUID)
  BY <1>5, DiscoveryAssumption, FS_Subset
<1> QED
  BY <1>1, <1>4, <1>6

(* What sort.Slice makes of such a list has no repetitions either.         *)
LEMMA SortedListing ==
  ASSUME NEW list \in Seq(UUID), Distinct(list), NEW s \in SortedByName(list)
  PROVE  /\ s \in Seq(UUID) /\ Elements(s) = Elements(list)
         /\ Distinct(s) /\ s \in SortedByName(s)
<1> DEFINE S == 1 .. Len(list)
<1>0. Len(list) \in Nat
  OBVIOUS
<1>1. Len(list) \in Nat /\ IsFiniteSet(S) /\ Cardinality(S) = Len(list)
  <2>1. Len(list) \in Int /\ 1 \in Int
    BY <1>0
  <2>2. /\ IsFiniteSet(S)
        /\ Cardinality(S) = IF 1 > Len(list) THEN 0 ELSE Len(list) - 1 + 1
    BY <2>1, FS_Interval
  <2> QED
    BY <1>0, <2>2
<1>2. /\ s \in [S -> Elements(list)] /\ Elements(s) = Elements(list)
      /\ \A i \in 1 .. Len(s) - 1 : entry[s[i]].name <= entry[s[i + 1]].name
  BY DEF SortedByName
<1>3. Elements(list) \subseteq UUID
  BY DEF Elements
<1>4. s \in Seq(UUID) /\ Len(s) = Len(list)
  BY <1>1, <1>2, <1>3
<1>5. s \in Surjection(S, Elements(list))
  BY <1>2, <1>4 DEF Elements, Surjection
<1>6. IsFiniteSet(Elements(list)) /\ Cardinality(S) = Cardinality(Elements(list))
  BY <1>1, DistinctCounts
<1>7. s \in Injection(S, Elements(list))
  BY <1>1, <1>5, <1>6, FS_SurjSameCardinalityImpliesInj
<1>8. Distinct(s)
  BY <1>4, <1>7 DEF Distinct, Injection, IsInjective
<1>9. s \in SortedByName(s)
  BY <1>2, <1>4 DEF SortedByName
<1> QED
  BY <1>2, <1>4, <1>8, <1>9

(* Appending a device adds it, and without a repetition if it is new.      *)
LEMMA ElementsOfAppend ==
  ASSUME NEW list \in Seq(UUID), NEW u \in UUID
  PROVE  /\ Append(list, u) \in Seq(UUID)
         /\ Elements(Append(list, u)) = Elements(list) \cup {u}
         /\ Distinct(list) /\ u \notin Elements(list) => Distinct(Append(list, u))
<1> DEFINE longer == Append(list, u)
<1>1. /\ longer \in Seq(UUID) /\ Len(longer) = Len(list) + 1 /\ Len(list) \in Nat
      /\ longer[Len(list) + 1] = u
      /\ \A i \in 1 .. Len(list) : longer[i] = list[i]
  OBVIOUS
<1> HIDE DEF longer
<1>2. 1 .. Len(longer) = (1 .. Len(list)) \cup {Len(list) + 1}
  BY <1>1
<1>3. Elements(longer) = Elements(list) \cup {u}
  BY <1>1, <1>2 DEF Elements
<1>4. ASSUME Distinct(list), u \notin Elements(list)
      PROVE  Distinct(longer)
  BY <1>1, <1>4 DEF Distinct, Elements
<1> QED
  BY <1>1, <1>3, <1>4 DEF longer

----------------------------------------------------------------------------
(* Every step preserves the invariant, part by part. *)

(* What a device is does not change while discovery runs.                  *)
LEMMA EntryUnchanged ==
  ASSUME UNCHANGED entry
  PROVE  \A u : IsVideo(u)' <=> IsVideo(u)
BY DEF IsVideo

(* Every step keeps the types.                                             *)
LEMMA TypesStep ==
  ASSUME ControlOK, RoundsOK, AnswersOK, RoundInv, ctxDone \in BOOLEAN, Next
  PROVE  ctxDone' \in BOOLEAN /\ ControlOK' /\ RoundsOK' /\ AnswersOK'
<1> USE DiscoveryAssumption DEF ControlOK, RoundsOK, AnswersOK, RoundInv, Answer
<1>1. CASE NextRound
  BY <1>1 DEF NextRound, MoreRounds
<1>2. CASE Enumerated
  BY <1>2 DEF Enumerated
<1>3. CASE Search \/ Match
  BY <1>3 DEF Search, Match
<1>4. CASE QueryFails
  BY <1>4 DEF QueryFails, AfterFailure, AfterRound, DevicesKept
<1>5. CASE Query \/ RoundEnds
  BY <1>5 DEF Query, RoundEnds, AfterRound
<1>6. ASSUME NEW u \in UUID, Collect(u)
      PROVE  ctxDone' \in BOOLEAN /\ ControlOK' /\ RoundsOK' /\ AnswersOK'
  <2>1. devices' \in {devices, Append(devices, u)} /\ Append(devices, u) \in Seq(UUID)
    BY <1>6, ElementsOfAppend DEF Collect
  <2> QED
    BY <1>6, <2>1 DEF Collect
<1>7. CASE ContextEnds
  BY <1>7 DEF ContextEnds
<1> HIDE DEF ControlOK, RoundsOK, AnswersOK
<1> QED
  BY <1>1, <1>2, <1>3, <1>4, <1>5, <1>6, <1>7 DEF Next, Step

(* Only Collect changes the list.                                          *)
LEMMA ListStep ==
  ASSUME AnswersOK, ListInv, Next
  PROVE  ListInv'
<1>1. CASE Step \/ ContextEnds
  <2>1. UNCHANGED <<entry, seen, devices>>
    BY <1>1 DEF Step, NextRound, Enumerated, Search, Match, QueryFails, Query,
      RoundEnds, ContextEnds, DevicesKept
  <2>2. Elements(devices)' = Elements(devices) /\ (Distinct(devices)' <=> Distinct(devices))
    BY <2>1 DEF Elements, Distinct
  <2> QED
    BY <2>1, <2>2, EntryUnchanged DEF ListInv, Video
<1>2. ASSUME NEW u \in UUID, Collect(u)
      PROVE  ListInv'
  <2>1. /\ u \notin seen /\ seen' = seen \cup {u} /\ UNCHANGED entry
        /\ devices' = IF IsVideo(u) THEN Append(devices, u) ELSE devices
    BY <1>2 DEF Collect
  <2>2. Video' = IF IsVideo(u) THEN Video \cup {u} ELSE Video
    BY <2>1, EntryUnchanged DEF Video
  <2>3. u \notin Elements(devices)
    BY <2>1 DEF ListInv, Video
  <2>4. CASE IsVideo(u)
    <3>1. devices' = Append(devices, u)
      BY <2>1, <2>4
    <3>2. /\ Elements(Append(devices, u)) = Elements(devices) \cup {u}
          /\ Distinct(Append(devices, u))
      BY <2>3, ElementsOfAppend DEF AnswersOK, ListInv
    <3>3. Elements(devices)' = Elements(devices) \cup {u} /\ Distinct(devices)'
      BY <3>1, <3>2 DEF Elements, Distinct
    <3> QED
      BY <2>2, <2>4, <3>3 DEF ListInv
  <2>5. CASE ~IsVideo(u)
    <3>1. Elements(devices)' = Elements(devices) /\ Distinct(devices)'
      BY <2>1, <2>5 DEF Elements, Distinct, ListInv
    <3> QED
      BY <2>2, <2>5, <3>1 DEF ListInv
  <2> QED
    BY <2>4, <2>5
<1> QED
  BY <1>1, <1>2 DEF Next

(* A round fails only when nothing answered, and Devices counts it then.   *)
LEMMA RoundStep ==
  ASSUME ControlOK, RoundsOK, RoundInv, Next
  PROVE  RoundInv'
<1> USE DiscoveryAssumption DEF ControlOK, RoundsOK, RoundInv, Answer
<1>1. CASE NextRound
  BY <1>1 DEF NextRound, MoreRounds
<1>2. CASE Enumerated
  BY <1>2 DEF Enumerated
<1>3. CASE Search \/ Match
  BY <1>3 DEF Search, Match
<1>4. CASE QueryFails
  BY <1>4 DEF QueryFails, AfterFailure, AfterRound
<1>5. CASE Query \/ RoundEnds
  BY <1>5 DEF Query, RoundEnds, AfterRound
<1>6. ASSUME NEW u \in UUID, Collect(u)
      PROVE  RoundInv'
  BY <1>6 DEF Collect
<1>7. CASE ContextEnds
  BY <1>7 DEF ContextEnds
<1> HIDE DEF RoundInv
<1> QED
  BY <1>1, <1>2, <1>3, <1>4, <1>5, <1>6, <1>7 DEF Next, Step

(* ByName comes back to its loop only after a look at the whole list.      *)
LEMMA SearchStep ==
  ASSUME ControlOK, AnswersOK, ListInv, SearchInv, Next
  PROVE  SearchInv'
<1>1. CASE Step \/ ContextEnds
  <2>1. UNCHANGED <<entry, seen, mode>>
    BY <1>1 DEF Step, NextRound, Enumerated, Search, Match, QueryFails, Query,
      RoundEnds, ContextEnds
  <2>2. Video' = Video /\ \A u : EqualFold(entry[u].name, Wanted)' <=> EqualFold(entry[u].name, Wanted)
    BY <2>1, EntryUnchanged DEF Video
  <2>3. CASE mode = "ByName" /\ pc' \in {"loop", "query"} /\ pc \notin {"loop", "query"}
    <3>1. Match
      BY <1>1, <2>3 DEF Step, NextRound, Enumerated, Search, QueryFails, Query,
        RoundEnds, ContextEnds, AfterFailure, AfterRound, Answer
    <3>2. \A i \in 1 .. Len(devices) : ~EqualFold(entry[devices[i]].name, Wanted)
      BY <2>3, <3>1 DEF Match, Answer
    <3>3. \A u \in Elements(devices) : ~EqualFold(entry[u].name, Wanted)
      BY <3>2 DEF Elements
    <3> QED
      BY <2>2, <3>3 DEF SearchInv, ListInv
  <2> QED
    BY <2>1, <2>2, <2>3 DEF SearchInv
<1>2. ASSUME NEW u \in UUID, Collect(u)
      PROVE  SearchInv'
  BY <1>2 DEF Collect, SearchInv
<1> QED
  BY <1>1, <1>2 DEF Next

----------------------------------------------------------------------------
(* What is returned *)

(* The answers that name no device, each where it is allowed.              *)
LEMMA ResultWithoutList ==
  ASSUME pc' = "over", result' \in {Failed, NotFound},
         mode' = "Devices" /\ result' = Failed =>
           ctxDone' \/ (errs' = discoveryRounds /\ seen' = {}),
         mode' = "Devices" /\ result' = NotFound => Video' = {},
         mode' = "ByName" => result' = NotFound /\ ctxDone'
           /\ (\A u \in Video : ~EqualFold(entry[u].name, Wanted))'
  PROVE  ResultInv'
<1>1. /\ result'.kind \in {"failed", "notFound"} /\ result'.list = <<>>
      /\ result'.kind = "failed" => result' = Failed
      /\ result'.kind = "notFound" => result' = NotFound
  BY DEF Failed, NotFound
<1>2. ResultOK'
  BY <1>1 DEF ResultOK, Distinct
<1>3. EnumerationIsComplete'
  BY <1>1 DEF EnumerationIsComplete, Video
<1>4. SearchIsThorough'
  BY <1>1 DEF SearchIsThorough, Video
<1> QED
  BY <1>2, <1>3, <1>4 DEF ResultInv

(* Whatever ends discovery, its answer is the one the list calls for.      *)
LEMMA ResultStep ==
  ASSUME ControlOK, RoundsOK, AnswersOK, ListInv, RoundInv, SearchInv, ResultInv, Next
  PROVE  ResultInv'
<1>1. pc # "over" /\ result = Pending
  <2>1. pc # "over"
    BY DEF Next, Step, NextRound, Enumerated, Search, Match, QueryFails, Query,
      RoundEnds, ContextEnds, Collect
  <2> QED
    BY <2>1 DEF ResultInv
<1>2. ASSUME result' = Pending
      PROVE  ResultInv'
  <2>1. result'.kind = "pending" /\ result'.list = <<>>
    BY <1>2 DEF Pending
  <2> QED
    BY <1>2, <2>1 DEF ResultInv, ResultOK, Distinct, EnumerationIsComplete,
      SearchIsThorough
<1>3. CASE NextRound
  <2>1. CASE ctxDone
    <3>1. Failed # NotFound
      BY DEF Failed, NotFound
    <3> QED
      BY <1>3, <2>1, <3>1, ResultWithoutList DEF NextRound, Answer
  <2>2. CASE ~ctxDone
    BY <1>1, <1>2, <1>3, <2>2 DEF NextRound
  <2> QED
    BY <2>1, <2>2
<1>4. CASE Enumerated
  <2>1. /\ mode = "Devices" /\ ~MoreRounds /\ pc = "loop"
        /\ UNCHANGED <<entry, mode, errs, seen, devices, ctxDone>>
    BY <1>4 DEF Enumerated
  <2>2. CASE errs = discoveryRounds /\ Answer(Failed)
    <3>1. seen = {}
      BY <2>1, <2>2, DiscoveryAssumption DEF RoundInv, RoundsOK
    <3>2. Failed # NotFound
      BY DEF Failed, NotFound
    <3> QED
      BY <2>1, <2>2, <3>1, <3>2, ResultWithoutList DEF Answer
  <2>3. CASE devices = <<>> /\ Answer(NotFound)
    <3>1. Elements(devices) = {}
      BY <2>3 DEF Elements
    <3>2. Video' = {}
      BY <2>1, <3>1, EntryUnchanged DEF ListInv, Video
    <3>3. Failed # NotFound
      BY DEF Failed, NotFound
    <3> QED
      BY <2>1, <2>3, <3>2, <3>3, ResultWithoutList DEF Answer
  <2>4. ASSUME NEW list \in SortedByName(devices), Answer(Listed(list))
        PROVE  ResultInv'
    <3>1. pc' = "over" /\ result'.kind = "found" /\ result'.list = list
      BY <2>4 DEF Answer, Listed
    <3>2. /\ list \in Seq(UUID) /\ Elements(list) = Video
          /\ Distinct(list) /\ list \in SortedByName(list)
      BY SortedListing DEF AnswersOK, ListInv
    <3>3. ResultOK'
      BY <3>1, <3>2 DEF ResultOK, Distinct
    <3>4. /\ Elements(result.list)' = Video' /\ Distinct(result.list)'
          /\ (result.list \in SortedByName(result.list))'
      <4>1. Video' = Video
        BY <2>1, EntryUnchanged DEF Video
      <4>2. Elements(result.list)' = Elements(list) /\ Distinct(result.list)'
        BY <3>1, <3>2 DEF Elements, Distinct
      <4>3. (result.list \in SortedByName(result.list))'
        BY <2>1, <3>1, <3>2 DEF SortedByName, Elements
      <4> QED
        BY <3>2, <4>1, <4>2, <4>3
    <3>5. EnumerationIsComplete'
      BY <3>1, <3>4 DEF EnumerationIsComplete, Video
    <3>6. SearchIsThorough'
      BY <2>1 DEF SearchIsThorough
    <3> QED
      BY <3>1, <3>3, <3>5, <3>6 DEF ResultInv
  <2> QED
    BY <1>4, <2>2, <2>3, <2>4 DEF Enumerated
<1>5. ASSUME mode = "ByName", ctxDone, Answer(NotFound), pc \in {"loop", "query"},
             UNCHANGED <<entry, mode, seen, ctxDone>>
      PROVE  ResultInv'
  <2>1. \A u \in Video : ~EqualFold(entry[u].name, Wanted)
    BY <1>5 DEF SearchInv
  <2>2. (\A u \in Video : ~EqualFold(entry[u].name, Wanted))'
    <3>1. Video' = Video
      BY <1>5, EntryUnchanged DEF Video
    <3> QED
      BY <1>5, <2>1, <3>1
  <2> QED
    BY <1>5, <2>2, ResultWithoutList DEF Answer
<1>6. CASE Search
  BY <1>1, <1>2, <1>5, <1>6 DEF Search
<1>7. CASE Match
  <2>1. mode = "ByName" /\ UNCHANGED <<entry, mode, seen>>
    BY <1>7 DEF Match, ControlOK
  <2>2. CASE UNCHANGED result
    BY <1>1, <1>2, <2>2
  <2>3. ASSUME NEW i \in 1 .. Len(devices), EqualFold(entry[devices[i]].name, Wanted),
               Answer(Listed(<<devices[i]>>))
        PROVE  ResultInv'
    <3>1. PICK u \in UUID : u = devices[i] /\ u \in Elements(devices)
      BY DEF AnswersOK, Elements
    <3>2. IsVideo(u)' /\ EqualFold(entry[u].name, Wanted)'
      BY <2>1, <2>3, <3>1, EntryUnchanged DEF ListInv, Video
    <3>3. pc' = "over" /\ result'.kind = "found" /\ result'.list = <<u>>
      BY <2>3, <3>1 DEF Answer, Listed
    <3>4. <<u>> \in Seq(UUID) /\ <<u>>[1] = u /\ Len(<<u>>) = 1
      BY <3>1
    <3>5. ResultOK'
      BY <3>3, <3>4 DEF ResultOK, Distinct
    <3>6. EnumerationIsComplete'
      BY <2>1 DEF EnumerationIsComplete
    <3>7. result'.list[1] = u
      BY <3>3, <3>4
    <3>8. SearchIsThorough'
      BY <2>1, <3>2, <3>3, <3>7 DEF SearchIsThorough, IsVideo, EqualFold
    <3> QED
      BY <3>3, <3>5, <3>6, <3>8 DEF ResultInv
  <2> QED
    BY <1>7, <2>2, <2>3 DEF Match
<1>8. CASE QueryFails
  <2>1. CASE mode = "ByName" /\ ctxDone
    BY <1>5, <1>8, <2>1 DEF QueryFails, AfterFailure
  <2>2. CASE ~(mode = "ByName" /\ ctxDone)
    BY <1>1, <1>2, <1>8, <2>2 DEF QueryFails, AfterFailure
  <2> QED
    BY <2>1, <2>2
<1>9. CASE Query \/ RoundEnds \/ ContextEnds \/ \E u \in UUID : Collect(u)
  BY <1>1, <1>2, <1>9 DEF Query, RoundEnds, ContextEnds, Collect
<1> QED
  BY <1>3, <1>4, <1>6, <1>7, <1>8, <1>9 DEF Next, Step

----------------------------------------------------------------------------
(* The theorems *)

(* The invariant holds of discovery at every moment.                       *)
LEMMA DiscoveryInductive == Spec => []IInv
<1>1. Init => IInv
  <2> SUFFICES ASSUME Init PROVE IInv
    OBVIOUS
  <2>a. /\ entry \in [UUID -> Entry] /\ mode \in {"Devices", "ByName"} /\ pc = "loop"
        /\ result = Pending
    BY DEF Init
  <2>b. rounds = 0 /\ errs = 0
    BY DEF Init
  <2>c. seen = {} /\ devices = <<>> /\ ctxDone \in BOOLEAN
    BY DEF Init
  <2>1. ControlOK /\ RoundsOK
    BY <2>a, <2>b, DiscoveryAssumption DEF ControlOK, RoundsOK
  <2>2. AnswersOK
    BY <2>a, <2>c DEF AnswersOK
  <2>3. ListInv /\ RoundInv /\ SearchInv
    BY <2>a, <2>c DEF ListInv, RoundInv, SearchInv, Video, Elements, Distinct
  <2>4. ResultInv
    <3>1. result.kind = "pending" /\ result.list = <<>>
      BY <2>a DEF Pending
    <3> QED
      BY <2>a, <3>1 DEF ResultInv, ResultOK, Distinct, EnumerationIsComplete,
        SearchIsThorough
  <2> QED
    BY <2>c, <2>1, <2>2, <2>3, <2>4 DEF IInv
<1>2. IInv /\ [Next]_vars => IInv'
  <2> SUFFICES ASSUME IInv, [Next]_vars PROVE IInv'
    OBVIOUS
  <2>1. CASE Next
    BY <2>1, TypesStep, ListStep, RoundStep, SearchStep, ResultStep DEF IInv
  <2>2. CASE UNCHANGED vars
    <3> USE <2>2 DEF IInv, vars
    <3>1. ctxDone' \in BOOLEAN /\ ControlOK' /\ RoundsOK' /\ AnswersOK' /\ RoundInv'
      BY DEF ControlOK, RoundsOK, AnswersOK, RoundInv
    <3>2. Video' = Video
      BY EntryUnchanged DEF Video
    <3>3. ListInv' /\ SearchInv'
      BY <3>2 DEF ListInv, SearchInv, Elements, Distinct
    <3>4. ResultOK' /\ SearchIsThorough'
      BY EntryUnchanged DEF ResultInv, ResultOK, SearchIsThorough, Distinct
    <3>5. EnumerationIsComplete'
      BY EntryUnchanged DEF ResultInv, EnumerationIsComplete, Elements, Distinct,
        SortedByName
    <3> QED
      BY <3>1, <3>3, <3>4, <3>5 DEF ResultInv
  <2> QED
    BY <2>1, <2>2
<1> QED
  BY <1>1, <1>2, PTL DEF Spec

(* TypeOK of Discovery: in particular no list is longer than there are     *)
(* devices, however often they answer.                                     *)
THEOREM DiscoveryTypeCorrect == Spec => []TypeOK
<1>1. ASSUME IInv PROVE TypeOK
  <2> USE <1>1 DEF IInv
  <2>1. Len(devices) <= Cardinality(UUID)
    BY DistinctCounts DEF AnswersOK, ListInv
  <2>2. Len(result.list) <= Cardinality(UUID)
    BY DistinctCounts DEF ResultInv, ResultOK
  <2>3. /\ pc \in {"loop", "query", "collect", "match", "over"}
        /\ result.kind \in {"pending", "failed", "notFound", "found"}
    BY DEF ControlOK, ResultInv, ResultOK
  <2> QED
    BY <2>1, <2>2, <2>3 DEF TypeOK, ControlOK, RoundsOK, AnswersOK, ResultInv, ResultOK
<1> QED
  BY <1>1, DiscoveryInductive, PTL

(* EnumerationIsComplete: Devices merges what its rounds answer into a     *)
(* sorted list without repetitions, and fails only when all of them do.    *)
THEOREM EnumerationMergesRounds == Spec => []EnumerationIsComplete
<1>1. IInv => EnumerationIsComplete
  BY DEF IInv, ResultInv
<1> QED
  BY <1>1, DiscoveryInductive, PTL

(* SearchIsThorough: ByName never gives up on a device that has answered.  *)
THEOREM SearchMissesNothing == Spec => []SearchIsThorough
<1>1. IInv => SearchIsThorough
  BY DEF IInv, ResultInv
<1> QED
  BY <1>1, DiscoveryInductive, PTL
=============================================================================
