--------------------------- MODULE StudyRunProofs ---------------------------
(***************************************************************************)
(* Proofs about StudyRun, for any number of files and contents, whatever   *)
(* the files hold: no file is counted twice or not at all, and no content  *)
(* fails twice, at whichever statement the time limit strikes.             *)
(***************************************************************************)
EXTENDS StudyRun, FiniteSetTheorems, TLAPS

Busy == phase \in {"scan", "parse", "count"}

Types ==
  /\ path \in [1 .. NumPaths -> Content]
  /\ processed \in 0 .. NumPaths
  /\ parsed_files \in Nat /\ num_parse_errors \in Nat /\ blacklist_hits \in Nat
  /\ phase \in {"next", "scan", "parse", "count", "done"}
  /\ IsFiniteSet(blacklist)

\* The file that is being processed is in neither count yet, and its content has not
\* failed before.
InHand ==
  Busy => /\ processed > 0 /\ path[processed] \notin blacklist
          /\ parsed_files + num_parse_errors = processed - 1

IInv == Types /\ InHand /\ EveryFileCounted /\ OneFailurePerContent

LEMMA InitIInv == Init => IInv
BY BatchAssumption, FS_EmptySet
   DEF Init, IInv, Types, InHand, Busy, EveryFileCounted, BetweenFiles, OneFailurePerContent

LEMMA NextFileIInv == IInv /\ NextFile => IInv'
BY BatchAssumption
   DEF IInv, NextFile, Types, InHand, Busy, EveryFileCounted, BetweenFiles,
       OneFailurePerContent, input

LEMMA RescueBlacklist ==
  IInv /\ Busy /\ Rescue => /\ IsFiniteSet(blacklist')
                            /\ Cardinality(blacklist') = Cardinality(blacklist) + 1
BY FS_AddElement, ZenonT(60) DEF IInv, Types, InHand, Rescue

\* A failure: one more error, and one more content that has failed.
LEMMA RescueIInv == IInv /\ Busy /\ Rescue => IInv'
<1> SUFFICES ASSUME IInv, Busy, Rescue PROVE IInv'
  OBVIOUS
<1>1. /\ IsFiniteSet(blacklist')
      /\ Cardinality(blacklist') = Cardinality(blacklist) + 1
  BY RescueBlacklist
<1>2. Cardinality(blacklist) \in Nat
  BY FS_CardinalityType DEF IInv, Types
<1>3. Types' /\ InHand'
  BY <1>1 DEF IInv, Rescue, Types, InHand, Busy, input
<1>4. EveryFileCounted'
  BY DEF IInv, Rescue, Types, InHand, EveryFileCounted, input
<1>5. OneFailurePerContent'
  BY <1>1, <1>2 DEF IInv, Rescue, Types, OneFailurePerContent
<1> QED BY <1>3, <1>4, <1>5 DEF IInv

LEMMA Invariance == Spec => []IInv
<1>1. IInv /\ [Next]_vars => IInv'
  <2> SUFFICES ASSUME IInv, [Next]_vars PROVE IInv'
    OBVIOUS
  <2> USE DEF IInv, Types, InHand, Busy, EveryFileCounted, BetweenFiles, OneFailurePerContent,
              input, outcome
  <2>1. CASE NextFile
    BY <2>1, NextFileIInv
  <2>2. CASE Scan
    BY <2>2 DEF Scan, Begin
  <2>3. CASE Parse
    BY <2>3 DEF Parse, Begin
  <2>4. CASE CountStep
    BY <2>4 DEF CountStep
  <2>5. CASE Finish
    BY <2>5 DEF Finish
  <2>6. CASE SlowStats
    BY <2>6 DEF SlowStats
  <2>7. CASE ParseError
    BY <2>7, RescueIInv DEF ParseError
  <2>8. CASE Timeout
    BY <2>8, RescueIInv DEF Timeout
  <2>9. CASE UNCHANGED vars
    BY <2>9 DEF vars
  <2> QED BY <2>1, <2>2, <2>3, <2>4, <2>5, <2>6, <2>7, <2>8, <2>9 DEF Next, Loop
<1> QED BY InitIInv, <1>1, PTL DEF Spec

-----------------------------------------------------------------------------
(* The statistics: what each statement of a counting leaves open. *)

Statement == Stat \cup {"call", "positive_calls", "negative_calls", "end"}

\* The order of the statements, in the branch without calls and in the one with them.
Turn ==
  IF Source.kind = "no_calls"
  THEN [positive_calls |-> 0, negative_calls |-> 0, jquery_per_file |-> 1,
        gdbt_per_file |-> 2, pure_per_file |-> 3, end |-> 4]
  ELSE [call |-> 1, gdbt_per_positive |-> 1, gdbt_per_file |-> 2, positive_calls |-> 3,
        negative_calls |-> 4, jquery_per_file |-> 5, pure_per_file |-> 6, end |-> 7]

\* In this file's counting s has not ended yet; or it has not reached the sum.
Coming(s) == phase = "count" /\ Turn[at] <= Turn[s]
Half(s)   == phase = "count" /\ half /\ at = s
Owed(s)   == Coming(s) /\ ~Half(s)

CountTypes ==
  /\ source \in [Content -> Sources]
  /\ at \in Statement
  /\ half \in BOOLEAN /\ calls \in Nat /\ file_tokens \in Nat
  /\ count \in [Counter -> Nat]
  /\ stat \in [Stat -> [sum : Nat, size : Nat, total : Nat]]

\* Where the counting is, and what the file is known to hold there.
Place ==
  phase = "count" =>
    /\ Source.kind = "no_calls" => at \in FileStat \cup {"end"} /\ file_tokens = 0
    /\ half => at \in Stat
    /\ calls <= Positive
    /\ at = "gdbt_per_positive" => calls < Positive
    /\ at \notin {"call", "gdbt_per_positive"} => calls = Positive

\* The samples, and in the middle of a file the ones it has given so far.
Given(s) == IF phase = "count" /\ ~Coming(s) THEN 1 ELSE 0

Samples ==
  \A s \in FileStat :
    /\ parsed_files + Given(s) <= stat[s].size
    /\ stat[s].size <= parsed_files + Given(s) + Cardinality(blacklist)

\* Sums, arrays and counters agree but for what the statement in hand still owes.
ArraysMatch ==
  /\ \A s \in FileStat :
       stat[s].sum = stat[s].total + IF Half(s) THEN Observed(s) ELSE 0
  /\ stat["gdbt_per_positive"].sum =
       stat["gdbt_per_positive"].total
         + IF Half("gdbt_per_positive") THEN Source.positive[calls + 1] ELSE 0

TokensMatch ==
  /\ count["total_tokens"] =
       stat["gdbt_per_positive"].sum
         + IF phase = "count" /\ at = "gdbt_per_positive" /\ ~half
           THEN Source.positive[calls + 1] ELSE 0
  /\ count["total_tokens"] =
       stat["gdbt_per_file"].sum + IF Owed("gdbt_per_file") THEN file_tokens ELSE 0

PositiveMatch ==
  /\ count["positive_calls"] + (IF Coming("positive_calls") THEN calls ELSE 0) =
       stat["gdbt_per_positive"].size
  /\ count["positive_calls"] =
       stat["pure_per_file"].sum
         + IF ~Coming("positive_calls") /\ Owed("pure_per_file") THEN Positive ELSE 0

CallsMatch ==
  count["positive_calls"] + count["negative_calls"] =
    stat["jquery_per_file"].sum
      + IF ~Owed("jquery_per_file") THEN 0
        ELSE (IF Coming("positive_calls") THEN 0 ELSE Positive)
               + (IF Coming("negative_calls") THEN 0 ELSE Source.negative)

Books == ArraysMatch /\ TokensMatch /\ PositiveMatch /\ CallsMatch

CountInv == CountTypes /\ Place /\ Samples /\ (~torn => Books)

\* What the scan and the parser may make of a file.
LEMMA SourceFacts ==
  ASSUME Types, CountTypes, InHand, Busy
  PROVE  /\ Source.positive \in Seq(Nat) /\ Positive \in Nat /\ Source.negative \in Nat
         /\ \A i \in 1 .. Positive : Source.positive[i] \in Nat
         /\ Source.kind # "parsed" => Positive = 0 /\ Source.negative = 0
<1>1. Source \in Sources
  <2>1. processed \in 1 .. NumPaths
    BY DEF Types, InHand
  <2>. QED  BY <2>1 DEF Types, CountTypes, Source
<1>2. CASE Source \in [kind : {"no_calls", "error"}, positive : {<<>>}, negative : {0}]
  <2>1. Source.positive = <<>> /\ Source.negative = 0
    BY <1>2
  <2>. QED  BY <2>1 DEF Positive
<1>3. CASE Source \in [kind : {"parsed"}, positive : BoundedSeq(1 .. MaxTokens, MaxCalls),
                       negative : 0 .. 1]
  <2>1. /\ Source.positive \in BoundedSeq(1 .. MaxTokens, MaxCalls)
        /\ Source.negative \in 0 .. 1 /\ Source.kind = "parsed"
    BY <1>3
  <2>2. PICK m \in 0 .. MaxCalls : Source.positive \in [1 .. m -> 1 .. MaxTokens]
    BY <2>1 DEF BoundedSeq, SeqOf
  <2>3. Source.positive \in [1 .. m -> Nat] /\ m \in Nat
    BY <2>2, BatchAssumption
  <2>4. Source.positive \in Seq(Nat) /\ Len(Source.positive) = m
    BY <2>3
  <2>. QED  BY <2>1, <2>3, <2>4 DEF Positive
<1>. QED  BY <1>1, <1>2, <1>3 DEF Sources

LEMMA InitCountInv == Init => CountInv
<1>. SUFFICES ASSUME Init  PROVE CountInv
  OBVIOUS
<1>1. CountTypes
  BY DEF Init, CountTypes, Statement, Stat, FileStat, Counter
<1>2. Place /\ Samples
  BY FS_EmptySet DEF Init, Place, Samples, Given, Coming, FileStat, Stat
<1>3. Books
  BY DEF Init, Books, ArraysMatch, TokensMatch, PositiveMatch, CallsMatch, Half, Owed, Coming, FileStat, Stat, Counter
<1>. QED  BY <1>1, <1>2, <1>3 DEF CountInv

\* The loop between two files, the scan and the parser: no call is counted.
LEMMA OutsideCountInv ==
  ASSUME CountInv, phase # "count", phase' # "count", count' \in [Counter -> Nat],
         \A c \in Counter : c # "files_with_jquery_calls" => count'[c] = count[c],
         UNCHANGED <<source, counting, stat, torn, parsed_files, blacklist>>
  PROVE  CountInv'
<1>1. CountTypes'
  BY DEF CountInv, CountTypes, counting
<1>2. Place' /\ Samples'
  BY DEF CountInv, Place, Samples, Given, Coming
<1>3. torn' = torn /\ (~torn => Books')
  BY DEF CountInv, Books, ArraysMatch, TokensMatch, PositiveMatch, CallsMatch, Half, Owed,
         Coming, Counter
<1>. QED  BY <1>1, <1>2, <1>3 DEF CountInv

LEMMA BeginCountInv ==
  ASSUME IInv, CountInv, Busy, phase # "count", NEW s,
         \/ s = "call" /\ Source.kind = "parsed"
         \/ s = "jquery_per_file" /\ Source.kind = "no_calls",
         phase' = "count", at' = s, half' = FALSE, calls' = 0, file_tokens' = 0,
         UNCHANGED <<input, processed, outcome, count, stat, torn>>
  PROVE  CountInv'
<1>1. /\ Source' = Source /\ Positive' = Positive
      /\ Positive \in Nat /\ Source.negative \in Nat
      /\ Source.kind = "no_calls" => Positive = 0 /\ Source.negative = 0
  BY SourceFacts DEF IInv, CountInv, input, Source, Positive
<1>0. Source' = Source
  BY DEF input, Source
<1>p. PICK P \in Nat, N \in Nat :
        /\ P = Positive' /\ N = Source'.negative
        /\ Source.kind = "no_calls" => P = 0 /\ N = 0
  BY <1>1
<1>2. CountTypes'
  BY DEF CountInv, CountTypes, input, Statement, Stat, FileStat
<1>3. Place'
  BY <1>0, <1>p DEF Place, Stat, FileStat
<1>4. \A x \in FileStat : Given(x)' = 0 /\ Given(x) = 0
  BY <1>1 DEF Given, Coming, Turn, FileStat
<1>5. Samples'
  BY <1>4 DEF CountInv, Samples, outcome
<1>6. ~torn => Books'
  <2>1. /\ count["positive_calls"] \in Nat /\ count["negative_calls"] \in Nat
        /\ count["total_tokens"] \in Nat
        /\ \A x \in Stat : stat[x].sum \in Nat /\ stat[x].size \in Nat /\ stat[x].total \in Nat
    BY DEF CountInv, CountTypes, Counter
  <2>2. ~torn => Books
    BY DEF CountInv
  <2>3. /\ Coming("positive_calls")' \/ P = 0
        /\ Coming("negative_calls")' \/ N = 0
    BY <1>1, <1>p DEF Coming, Turn
  <2>4. \A x : ~Half(x) /\ ~Half(x)' /\ ~Coming(x) /\ ~Owed(x)
    BY DEF Half, Owed, Coming
  <2>. SUFFICES ASSUME Books  PROVE Books'
    BY <2>2
  <2>5. ArraysMatch'
    BY <2>1, <2>4 DEF Books, ArraysMatch, Stat, FileStat
  <2>6. TokensMatch'
    BY <2>1, <2>4 DEF Books, TokensMatch, Stat
  <2>7. PositiveMatch'
    BY <1>p, <2>1, <2>3, <2>4 DEF Books, PositiveMatch, Stat, FileStat
  <2>8. CallsMatch'
    BY <1>p, <2>1, <2>3, <2>4 DEF Books, CallsMatch, Stat, FileStat
  <2>. QED  BY <2>5, <2>6, <2>7, <2>8 DEF Books
<1>. QED  BY <1>2, <1>3, <1>5, <1>6 DEF CountInv

\* What the steps of a counting leave alone, and the types they keep.
CountFrame ==
  /\ phase = "count" /\ IInv /\ CountInv
  /\ UNCHANGED <<input, processed, outcome, phase, torn>>

LEMMA FrameFacts ==
  ASSUME CountFrame
  PROVE  /\ Source' = Source /\ Positive' = Positive
         /\ phase = "count" /\ phase' = "count"
         /\ parsed_files' = parsed_files /\ blacklist' = blacklist /\ torn' = torn
         /\ source' = source
         /\ Positive \in Nat /\ Source.negative \in Nat
         /\ \A i \in 1 .. Positive : Source.positive[i] \in Nat
         /\ Source.kind # "parsed" => Positive = 0 /\ Source.negative = 0
         /\ CountTypes /\ Place /\ Samples /\ (~torn => Books)
BY SourceFacts DEF CountFrame, IInv, CountInv, Busy, input, outcome, Source, Positive

LEMMA TalliesTyped ==
  ASSUME CountTypes
  PROVE  /\ count["positive_calls"] \in Nat /\ count["negative_calls"] \in Nat
         /\ count["total_tokens"] \in Nat
         /\ \A x \in Stat : /\ stat[x].sum \in Nat /\ stat[x].size \in Nat
                             /\ stat[x].total \in Nat
BY DEF CountTypes, Counter

LEMMA AddTokensCountInv == CountFrame /\ AddTokens => CountInv'
<1>. SUFFICES ASSUME CountFrame, AddTokens  PROVE CountInv'
  OBVIOUS
<1>. DEFINE tokens == Source.positive[calls + 1]
<1>0. ~half
  BY FrameFacts DEF AddTokens, Place, Stat, FileStat
<1>1. /\ at = "call" /\ calls < Positive /\ calls \in Nat /\ file_tokens \in Nat
      /\ tokens \in Nat
      /\ file_tokens' = file_tokens + tokens /\ at' = "gdbt_per_positive"
      /\ half' = half /\ calls' = calls /\ stat' = stat
  BY FrameFacts DEF AddTokens, CountTypes
<1>2. /\ count' \in [Counter -> Nat]
      /\ count'["total_tokens"] = count["total_tokens"] + tokens
      /\ \A c \in Counter : c # "total_tokens" => count'[c] = count[c]
  BY <1>1, FrameFacts DEF AddTokens, Add, CountTypes, Counter
<1>3. Source.kind # "no_calls"
  BY <1>1, FrameFacts DEF Place, FileStat
<1>4. CountTypes'
  BY <1>0, <1>1, <1>2, FrameFacts DEF CountTypes, Statement, Stat
<1>5. Place'
  BY <1>0, <1>1, <1>3, FrameFacts DEF Place, Stat
<1>6. /\ \A x : Half(x) = FALSE /\ Half(x)' = FALSE
      /\ \A x \in {"gdbt_per_file", "positive_calls", "negative_calls", "jquery_per_file",
                  "pure_per_file"} : Coming(x) = TRUE /\ Coming(x)' = TRUE
  BY <1>0, <1>1, <1>3, FrameFacts DEF Half, Coming, Turn
<1>7. Samples'
  BY <1>1, <1>6, FrameFacts DEF Samples, Given, FileStat
<1>8. ASSUME Books  PROVE Books'
  <2>1. ArraysMatch'
    BY <1>1, <1>6, <1>8 DEF Books, ArraysMatch
  <2>2. TokensMatch'
    BY <1>0, <1>1, <1>2, <1>6, <1>8, FrameFacts, TalliesTyped DEF Books, TokensMatch, Owed, Stat, FileStat
  <2>3. PositiveMatch' /\ CallsMatch'
    BY <1>1, <1>2, <1>6, <1>8, FrameFacts
       DEF Books, PositiveMatch, CallsMatch, Owed, Counter
  <2>. QED  BY <2>1, <2>2, <2>3 DEF Books
<1>. QED  BY <1>4, <1>5, <1>7, <1>8, FrameFacts DEF CountInv

LEMMA LastCallCountInv == CountFrame /\ LastCall => CountInv'
<1>. SUFFICES ASSUME CountFrame, LastCall  PROVE CountInv'
  OBVIOUS
<1>0. ~half
  BY FrameFacts DEF LastCall, Place, Stat, FileStat
<1>1. /\ at = "call" /\ calls = Positive /\ at' = "gdbt_per_file"
      /\ UNCHANGED <<half, calls, file_tokens, count, stat>>
  BY DEF LastCall
<1>2. Source.kind # "no_calls"
  BY <1>1, FrameFacts DEF Place, FileStat
<1>3. CountTypes' /\ Place'
  BY <1>0, <1>1, <1>2, FrameFacts DEF CountTypes, Statement, Stat, FileStat, Place
<1>4. /\ \A x : Half(x) = FALSE /\ Half(x)' = FALSE
      /\ \A x \in {"gdbt_per_file", "positive_calls", "negative_calls", "jquery_per_file",
                  "pure_per_file"} : Coming(x) = TRUE /\ Coming(x)' = TRUE
  BY <1>0, <1>1, <1>2, FrameFacts DEF Half, Coming, Turn
<1>5. Samples'
  BY <1>1, <1>4, FrameFacts DEF Samples, Given, FileStat
<1>6. ASSUME Books  PROVE Books'
  BY <1>1, <1>4, <1>6, FrameFacts
     DEF Books, ArraysMatch, TokensMatch, PositiveMatch, CallsMatch, Owed
<1>. QED  BY <1>3, <1>5, <1>6, FrameFacts DEF CountInv

\* The first statement of observe_value, and the second.
LEMMA SumStep ==
  ASSUME CountTypes, NEW key \in Stat, NEW value \in Nat,
         stat' = [stat EXCEPT ![key].sum = @ + value]
  PROVE  /\ stat' \in [Stat -> [sum : Nat, size : Nat, total : Nat]]
         /\ stat'[key].sum = stat[key].sum + value
         /\ stat'[key].size = stat[key].size /\ stat'[key].total = stat[key].total
         /\ \A x \in Stat : x # key => stat'[x] = stat[x]
<1>1. stat[key] \in [sum : Nat, size : Nat, total : Nat]
  BY DEF CountTypes
<1>2. stat'[key] = [stat[key] EXCEPT !.sum = @ + value]
  BY DEF CountTypes
<1>3. \A x \in Stat : x # key => stat'[x] = stat[x]
  BY DEF CountTypes
<1>4. [stat[key] EXCEPT !.sum = @ + value] \in [sum : Nat, size : Nat, total : Nat]
  BY <1>1
<1>. QED  BY <1>1, <1>2, <1>3, <1>4 DEF CountTypes

LEMMA ArrayStep ==
  ASSUME CountTypes, NEW key \in Stat, NEW value \in Nat,
         stat' = [stat EXCEPT ![key].size = @ + 1, ![key].total = @ + value]
  PROVE  /\ stat' \in [Stat -> [sum : Nat, size : Nat, total : Nat]]
         /\ stat'[key].sum = stat[key].sum
         /\ stat'[key].size = stat[key].size + 1
         /\ stat'[key].total = stat[key].total + value
         /\ \A x \in Stat : x # key => stat'[x] = stat[x]
<1>. DEFINE more == [sum |-> stat[key].sum, size |-> stat[key].size + 1,
                     total |-> stat[key].total + value]
<1>1. stat[key] \in [sum : Nat, size : Nat, total : Nat]
  BY DEF CountTypes
<1>2. stat'[key] = more
  BY <1>1 DEF CountTypes
<1>3. \A x \in Stat : x # key => stat'[x] = stat[x]
  BY DEF CountTypes
<1>4. more \in [sum : Nat, size : Nat, total : Nat]
  BY <1>1
<1>. QED  BY <1>1, <1>2, <1>3, <1>4 DEF CountTypes

\* The observation of a call: between its statements the sum is ahead of the array.
LEMMA ObserveCallCountInv == CountFrame /\ ObserveCall => CountInv'
<1>. SUFFICES ASSUME CountFrame, ObserveCall  PROVE CountInv'
  OBVIOUS
<1>. DEFINE tokens == Source.positive[calls + 1]
<1>1. /\ at = "gdbt_per_positive" /\ calls < Positive /\ calls \in Nat /\ file_tokens \in Nat
      /\ half \in BOOLEAN /\ tokens \in Nat
      /\ file_tokens' = file_tokens /\ count' = count
  BY FrameFacts DEF ObserveCall, CountTypes, Place
<1>2. Source.kind # "no_calls"
  BY <1>1, FrameFacts DEF Place, FileStat
<1>3. \A x \in {"gdbt_per_file", "positive_calls", "negative_calls", "jquery_per_file",
                "pure_per_file"} : Coming(x)
  BY <1>1, <1>2, FrameFacts DEF Coming, Turn
<1>4. \A x \in FileStat : ~Half(x)
  BY <1>1 DEF Half, FileStat
<1>a. CASE ~half
  <2>1. /\ half' /\ half' \in BOOLEAN /\ calls' = calls /\ at' = at
        /\ stat' = [stat EXCEPT !["gdbt_per_positive"].sum = @ + tokens]
    BY <1>a, <1>1 DEF ObserveCall, Observe
  <2>2. /\ stat' \in [Stat -> [sum : Nat, size : Nat, total : Nat]]
        /\ stat'["gdbt_per_positive"].sum = stat["gdbt_per_positive"].sum + tokens
        /\ stat'["gdbt_per_positive"].size = stat["gdbt_per_positive"].size
        /\ stat'["gdbt_per_positive"].total = stat["gdbt_per_positive"].total
        /\ \A x \in FileStat : stat'[x] = stat[x]
    BY <1>1, <2>1, SumStep, FrameFacts DEF Stat, FileStat
  <2>3. CountTypes'
    BY <1>1, <2>1, <2>2, FrameFacts DEF CountTypes
  <2>4. Place'
    BY <1>1, <1>2, <2>1, FrameFacts DEF Place, Stat
  <2>5. /\ \A x : Coming(x)' = Coming(x)
        /\ \A x \in FileStat : ~Half(x)'
        /\ Half("gdbt_per_positive")' /\ ~Half("gdbt_per_positive")
    BY <1>1, <1>4, <1>a, <2>1, FrameFacts DEF Half, Coming, Turn, FileStat
  <2>6. Samples'
    BY <2>2, <2>5, FrameFacts DEF Samples, Given
  <2>7. ASSUME Books  PROVE Books'
    <3>1. ArraysMatch'
      BY <1>1, <1>4, <2>1, <2>2, <2>5, <2>7, FrameFacts, TalliesTyped
         DEF Books, ArraysMatch, Stat
    <3>2. TokensMatch'
      BY <1>1, <1>3, <1>4, <1>a, <2>1, <2>2, <2>5, <2>7, FrameFacts, TalliesTyped
         DEF Books, TokensMatch, Owed, Stat, FileStat
    <3>3. PositiveMatch' /\ CallsMatch'
      BY <1>1, <1>3, <1>4, <2>1, <2>2, <2>5, <2>7, FrameFacts
         DEF Books, PositiveMatch, CallsMatch, Owed, FileStat
    <3>. QED  BY <3>1, <3>2, <3>3 DEF Books
  <2>. QED  BY <2>3, <2>4, <2>6, <2>7, FrameFacts DEF CountInv
<1>b. CASE half
  <2>1. /\ ~half' /\ half' \in BOOLEAN /\ calls' = calls + 1 /\ at' = "call"
        /\ stat' = [stat EXCEPT !["gdbt_per_positive"].size = @ + 1,
                                !["gdbt_per_positive"].total = @ + tokens]
    BY <1>b, <1>1 DEF ObserveCall, Observe
  <2>2. /\ stat' \in [Stat -> [sum : Nat, size : Nat, total : Nat]]
        /\ stat'["gdbt_per_positive"].sum = stat["gdbt_per_positive"].sum
        /\ stat'["gdbt_per_positive"].size = stat["gdbt_per_positive"].size + 1
        /\ stat'["gdbt_per_positive"].total = stat["gdbt_per_positive"].total + tokens
        /\ \A x \in FileStat : stat'[x] = stat[x]
    BY <1>1, <2>1, ArrayStep, FrameFacts DEF Stat, FileStat
  <2>3. CountTypes'
    BY <1>1, <2>1, <2>2, FrameFacts DEF CountTypes, Statement
  <2>4. Place'
    BY <1>1, <1>2, <2>1, FrameFacts DEF Place, Stat
  <2>5. /\ \A x \in {"gdbt_per_file", "positive_calls", "negative_calls", "jquery_per_file",
                     "pure_per_file"} : Coming(x)'
        /\ \A x \in Stat : ~Half(x)'
        /\ Half("gdbt_per_positive")
    BY <1>1, <1>2, <1>b, <2>1, FrameFacts DEF Half, Coming, Turn
  <2>6. Samples'
    BY <1>3, <2>2, <2>5, FrameFacts DEF Samples, Given, FileStat
  <2>7. ASSUME Books  PROVE Books'
    <3>1. ArraysMatch'
      BY <1>1, <1>4, <2>1, <2>2, <2>5, <2>7, FrameFacts, TalliesTyped
         DEF Books, ArraysMatch, Stat
    <3>2. TokensMatch'
      BY <1>1, <1>3, <1>4, <1>b, <2>1, <2>2, <2>5, <2>7, FrameFacts, TalliesTyped
         DEF Books, TokensMatch, Owed, Stat, FileStat
    <3>3. PositiveMatch'
      BY <1>1, <1>3, <1>4, <2>1, <2>2, <2>5, <2>7, FrameFacts, TalliesTyped
         DEF Books, PositiveMatch, Owed, Stat, FileStat
    <3>4. CallsMatch'
      BY <1>1, <1>3, <1>4, <2>1, <2>2, <2>5, <2>7, FrameFacts
         DEF Books, CallsMatch, Owed, Stat, FileStat
    <3>. QED  BY <3>1, <3>2, <3>3, <3>4 DEF Books
  <2>. QED  BY <2>3, <2>4, <2>6, <2>7, FrameFacts DEF CountInv
<1>. QED  BY <1>1, <1>a, <1>b

LEMMA AddCallsCountInv == CountFrame /\ AddCalls => CountInv'
<1>. SUFFICES ASSUME CountFrame, AddCalls  PROVE CountInv'
  OBVIOUS
<1>. DEFINE by == IF at = "positive_calls" THEN Positive ELSE Source.negative
<1>0. ~half
  BY FrameFacts DEF AddCalls, Place, Stat, FileStat
<1>1. /\ at \in {"positive_calls", "negative_calls"} /\ by \in Nat
      /\ UNCHANGED <<half, calls, file_tokens, stat>>
      /\ calls = Positive /\ Source.kind # "no_calls"
  BY FrameFacts DEF AddCalls, Place, FileStat
<1>2. at' = IF at = "positive_calls" THEN "negative_calls" ELSE "jquery_per_file"
  BY <1>1 DEF AddCalls, Following
<1>3. /\ count' \in [Counter -> Nat]
      /\ count'[at] = count[at] + by
      /\ \A c \in Counter : c # at => count'[c] = count[c]
  BY <1>1, FrameFacts DEF AddCalls, Add, CountTypes, Counter
<1>4. CountTypes'
  BY <1>1, <1>2, <1>3, FrameFacts DEF CountTypes, Statement, Stat, FileStat
<1>5. Place'
  BY <1>0, <1>1, <1>2, FrameFacts DEF Place, Stat, FileStat
<1>6. /\ \A x : Half(x) = FALSE /\ Half(x)' = FALSE
      /\ Coming("positive_calls") = (at = "positive_calls") /\ Coming("positive_calls")' = FALSE
      /\ Coming("negative_calls") = TRUE /\ Coming("negative_calls")' = (at = "positive_calls")
      /\ Coming("gdbt_per_file") = FALSE /\ Coming("gdbt_per_file")' = FALSE
      /\ \A x \in {"jquery_per_file", "pure_per_file"} : Coming(x) = TRUE /\ Coming(x)' = TRUE
  BY <1>0, <1>1, <1>2, FrameFacts DEF Half, Coming, Turn
<1>7. Samples'
  BY <1>1, <1>6, FrameFacts DEF Samples, Given, FileStat
<1>8. ASSUME Books  PROVE Books'
  <2>1. ArraysMatch'
    BY <1>1, <1>6, <1>8 DEF Books, ArraysMatch
  <2>2. TokensMatch'
    BY <1>1, <1>2, <1>3, <1>6, <1>8 DEF Books, TokensMatch, Owed, Counter
  <2>3. CASE at = "positive_calls"
    <3>1. /\ count'["positive_calls"] = count["positive_calls"] + Positive
          /\ count'["negative_calls"] = count["negative_calls"]
      BY <1>3, <2>3 DEF Counter
    <3>2. Coming("positive_calls") /\ ~Coming("positive_calls")'
          /\ Coming("negative_calls") /\ Coming("negative_calls")'
      BY <1>6, <2>3
    <3>3. PositiveMatch' /\ CallsMatch'
      BY <1>1, <1>6, <1>8, <3>1, <3>2, FrameFacts, TalliesTyped
         DEF Books, PositiveMatch, CallsMatch, Owed, Stat, FileStat
    <3>. QED  BY <2>1, <2>2, <3>3 DEF Books
  <2>4. CASE at = "negative_calls"
    <3>1. /\ count'["negative_calls"] = count["negative_calls"] + Source.negative
          /\ count'["positive_calls"] = count["positive_calls"]
      BY <1>3, <2>4 DEF Counter
    <3>2. ~Coming("positive_calls") /\ ~Coming("positive_calls")'
          /\ Coming("negative_calls") /\ ~Coming("negative_calls")'
      BY <1>6, <2>4
    <3>3. PositiveMatch' /\ CallsMatch'
      BY <1>1, <1>6, <1>8, <3>1, <3>2, FrameFacts, TalliesTyped
         DEF Books, PositiveMatch, CallsMatch, Owed, Stat, FileStat
    <3>. QED  BY <2>1, <2>2, <3>3 DEF Books
  <2>. QED  BY <1>1, <2>3, <2>4
<1>. QED  BY <1>4, <1>5, <1>7, <1>8, FrameFacts DEF CountInv

\* A statistic of the file: the sum first, then the array, and then the next statement.
LEMMA ObserveFileCountInv == CountFrame /\ ObserveFile => CountInv'
<1>. SUFFICES ASSUME CountFrame, ObserveFile  PROVE CountInv'
  OBVIOUS
<1>. DEFINE value == Observed(at)
<1>1. /\ at \in FileStat /\ at \in Stat /\ calls = Positive /\ calls \in Nat
      /\ file_tokens \in Nat /\ half \in BOOLEAN
      /\ UNCHANGED <<calls, file_tokens, count>>
  BY FrameFacts DEF ObserveFile, CountTypes, Place, FileStat, Stat
<1>2. /\ at = "gdbt_per_file"   => value = file_tokens
      /\ at = "jquery_per_file" => value = Positive + Source.negative
      /\ at = "pure_per_file"   => value = Positive
      /\ value \in Nat
  BY <1>1, FrameFacts DEF Observed, FileStat
<1>3. \A x \in Stat : x # at => ~Half(x) /\ ~Half(x)'
  <2>1. half' => at' = at
    BY <1>1 DEF ObserveFile, Observe
  <2>. QED  BY <2>1 DEF Half
<1>4. /\ Coming(at)
      /\ at # "gdbt_per_file" => ~Coming("positive_calls") /\ ~Coming("negative_calls")
      /\ at = "gdbt_per_file" /\ Source.kind # "no_calls" =>
           /\ Coming("positive_calls") /\ Coming("negative_calls")
  BY <1>1, FrameFacts DEF Coming, Turn, FileStat
<1>5. PICK s \in FileStat : s = at
  BY <1>1
<1>a. CASE ~half
  <2>1. /\ half' /\ half' \in BOOLEAN /\ at' = at
        /\ stat' = [stat EXCEPT ![at].sum = @ + value]
    BY <1>a, <1>1 DEF ObserveFile, Observe
  <2>2. /\ stat' \in [Stat -> [sum : Nat, size : Nat, total : Nat]]
        /\ stat'[at].sum = stat[at].sum + value
        /\ stat'[at].size = stat[at].size /\ stat'[at].total = stat[at].total
        /\ \A x \in Stat : x # at => stat'[x] = stat[x]
    BY <1>1, <1>2, <2>1, SumStep, FrameFacts
  <2>3. CountTypes'
    BY <1>1, <2>1, <2>2, FrameFacts DEF CountTypes
  <2>4. Place'
    BY <1>1, <2>1, FrameFacts DEF Place
  <2>5. /\ \A x : Coming(x)' = Coming(x)
        /\ ~Half(at) /\ Half(at)'
    BY <1>1, <1>a, <2>1, FrameFacts DEF Half, Coming, Turn
  <2>6. Samples'
    BY <1>1, <2>2, <2>5, FrameFacts DEF Samples, Given, Stat
  <2>7. ASSUME Books  PROVE Books'
    <3>1. ArraysMatch'
      <4>1. \A x \in FileStat : x # s => stat'[x] = stat[x] /\ ~Half(x) /\ ~Half(x)'
        BY <1>3, <1>5, <2>2 DEF Stat
      <4>2. stat[s].sum = stat[s].total /\ stat'[s].sum = stat'[s].total + Observed(s)'
        BY <1>1, <1>2, <1>5, <2>1, <2>2, <2>5, <2>7, FrameFacts, TalliesTyped
           DEF Books, ArraysMatch, Observed, FileStat
      <4>3. Half(s)'
        BY <1>5, <2>1, FrameFacts DEF Half
      <4>4. /\ stat'["gdbt_per_positive"] = stat["gdbt_per_positive"]
            /\ ~Half("gdbt_per_positive") /\ ~Half("gdbt_per_positive")'
        BY <1>1, <1>3, <2>2 DEF Stat, FileStat
      <4>. QED  BY <2>7, <4>1, <4>2, <4>3, <4>4 DEF Books, ArraysMatch
    <3>2. TokensMatch'
      <4>1. at # "gdbt_per_positive" /\ "gdbt_per_positive" \in Stat
        BY <1>1 DEF Stat, FileStat
      <4>2. /\ count["total_tokens"] = stat["gdbt_per_positive"].sum
            /\ stat'["gdbt_per_positive"] = stat["gdbt_per_positive"]
        BY <2>2, <2>7, <4>1 DEF Books, TokensMatch
      <4>3. CASE at = "gdbt_per_file"
        BY <1>1, <1>2, <1>4, <2>1, <2>2, <2>5, <2>7, <4>1, <4>2, <4>3, FrameFacts, TalliesTyped
           DEF Books, TokensMatch, Owed
      <4>4. CASE at # "gdbt_per_file"
        <5>1. Owed("gdbt_per_file")' <=> Owed("gdbt_per_file")
          BY <1>3, <2>5, <4>4 DEF Owed, Stat, FileStat
        <5>. QED  BY <1>1, <2>1, <2>2, <2>7, <4>1, <4>2, <4>4, <5>1
                  DEF Books, TokensMatch, Stat, FileStat
      <4>. QED  BY <4>3, <4>4
    <3>3. PositiveMatch'
      BY <1>1, <1>2, <1>3, <1>4, <2>1, <2>2, <2>5, <2>7, FrameFacts, TalliesTyped
         DEF Books, PositiveMatch, Owed, Stat, FileStat
    <3>4. CallsMatch'
      BY <1>1, <1>2, <1>3, <1>4, <2>1, <2>2, <2>5, <2>7, FrameFacts, TalliesTyped
         DEF Books, CallsMatch, Owed, Stat, FileStat
    <3>. QED  BY <3>1, <3>2, <3>3, <3>4 DEF Books
  <2>. QED  BY <2>3, <2>4, <2>6, <2>7, FrameFacts DEF CountInv
<1>b. CASE half
  <2>1. /\ ~half' /\ half' \in BOOLEAN /\ at' = Following(at)
        /\ stat' = [stat EXCEPT ![at].size = @ + 1, ![at].total = @ + value]
    BY <1>b, <1>1 DEF ObserveFile, Observe
  <2>2. /\ stat' \in [Stat -> [sum : Nat, size : Nat, total : Nat]]
        /\ stat'[at].sum = stat[at].sum
        /\ stat'[at].size = stat[at].size + 1 /\ stat'[at].total = stat[at].total + value
        /\ \A x \in Stat : x # at => stat'[x] = stat[x]
    BY <1>1, <1>2, <2>1, ArrayStep, FrameFacts
  <2>3. /\ at' \in Statement \ {"call", "gdbt_per_positive"}
        /\ Source.kind = "no_calls" => at' \in FileStat \cup {"end"}
    BY <1>1, <2>1 DEF Following, Statement, Stat, FileStat
  <2>4. CountTypes'
    BY <1>1, <2>1, <2>2, <2>3, FrameFacts DEF CountTypes
  <2>5. Place'
    BY <1>1, <2>1, <2>3, FrameFacts DEF Place
  <2>6. /\ \A x \in FileStat : x # s => (Coming(x)' <=> Coming(x))
        /\ ~Coming(s)'
        /\ Coming("positive_calls")' <=> Coming("positive_calls")
        /\ Coming("negative_calls")' <=> Coming("negative_calls")
    <3>1. CASE Source.kind = "no_calls"
      BY <1>5, <2>1, <3>1, FrameFacts DEF Coming, Turn, Following, FileStat
    <3>2. CASE Source.kind # "no_calls"
      BY <1>5, <2>1, <3>2, FrameFacts DEF Coming, Turn, Following, FileStat
    <3>. QED  BY <3>1, <3>2
  <2>7. Half(s) /\ \A x : ~Half(x)'
    BY <1>5, <1>b, <2>1, FrameFacts DEF Half
  <2>8. Samples'
    <3>1. Given(s) = 0 /\ Given(s)' = 1
      BY <1>4, <1>5, <2>6, FrameFacts DEF Given
    <3>2. \A x \in FileStat : x # s => Given(x)' = Given(x)
      BY <2>6, FrameFacts DEF Given
    <3>3. parsed_files \in Nat /\ Cardinality(blacklist) \in Nat
      BY FS_CardinalityType DEF CountFrame, IInv, Types
    <3>. QED  BY <1>1, <1>5, <2>2, <3>1, <3>2, <3>3, FrameFacts, TalliesTyped
              DEF Samples, Stat
  <2>9. ASSUME Books  PROVE Books'
    <3>1. ArraysMatch'
      BY <1>1, <1>2, <1>3, <1>5, <2>1, <2>2, <2>7, <2>9, FrameFacts, TalliesTyped
         DEF Books, ArraysMatch, Stat, FileStat
    <3>2. /\ \A x \in FileStat : Owed(x)' <=> Owed(x)
          /\ \A x \in Stat : stat'[x].sum = stat[x].sum
          /\ stat'["gdbt_per_positive"].size = stat["gdbt_per_positive"].size
      <4>1. \A x \in FileStat : Owed(x)' <=> Owed(x)
        BY <1>3, <1>5, <2>6, <2>7 DEF Owed, Stat
      <4>. QED  BY <1>1, <2>2, <4>1 DEF Stat, FileStat
    <3>3. at # "gdbt_per_positive" /\ at' # "gdbt_per_positive"
      BY <1>1, <2>3 DEF FileStat
    <3>4. TokensMatch'
      BY <1>1, <2>9, <3>2, <3>3, FrameFacts DEF Books, TokensMatch, Stat, FileStat
    <3>5. PositiveMatch' /\ CallsMatch'
      BY <1>1, <2>6, <2>9, <3>2, FrameFacts
         DEF Books, PositiveMatch, CallsMatch, Stat, FileStat
    <3>. QED  BY <3>1, <3>4, <3>5 DEF Books
  <2>. QED  BY <2>4, <2>5, <2>8, <2>9, FrameFacts DEF CountInv
<1>. QED  BY <1>1, <1>a, <1>b

\* The end of a counting: nothing is owed, and every statistic has its sample.
LEMMA FinishCountInv == IInv /\ CountInv /\ Finish => CountInv'
<1>. SUFFICES ASSUME IInv, CountInv, Finish  PROVE CountInv'
  OBVIOUS
<1>1. /\ phase = "count" /\ at = "end" /\ phase' = "next" /\ parsed_files' = parsed_files + 1
      /\ UNCHANGED <<source, counting, count, stat, torn, blacklist>>
  BY DEF Finish, input
<1>2. /\ \A x \in Stat : ~Half(x)
      /\ \A x \in FileStat \cup {"positive_calls", "negative_calls"} : ~Coming(x)
  BY <1>1 DEF Half, Coming, Turn, Stat, FileStat
<1>3. \A x : ~Half(x)' /\ ~Coming(x)'
  BY <1>1 DEF Half, Coming
<1>4. CountTypes' /\ Place'
  BY <1>1 DEF CountInv, CountTypes, Place, counting
<1>5. Samples'
  <2>1. \A x \in FileStat : Given(x) = 1 /\ Given(x)' = 0
    BY <1>1, <1>2 DEF Given
  <2>2. parsed_files \in Nat
    BY DEF IInv, Types
  <2>. QED  BY <1>1, <2>1, <2>2 DEF CountInv, Samples
<1>6. ASSUME Books  PROVE Books'
  BY <1>1, <1>2, <1>3, <1>6
     DEF Books, ArraysMatch, TokensMatch, PositiveMatch, CallsMatch, Owed, Stat, FileStat
<1>. QED  BY <1>1, <1>4, <1>5, <1>6 DEF CountInv

\* A failure leaves at most one sample behind it, and the file's content is new in the
\* blacklist; it leaves the books in order where no counting had begun.
LEMMA RescueCountInv ==
  ASSUME IInv, CountInv, Busy, Rescue, torn' <=> (torn \/ phase = "count")
  PROVE  CountInv'
<1>1. /\ Cardinality(blacklist') = Cardinality(blacklist) + 1
      /\ Cardinality(blacklist) \in Nat /\ parsed_files \in Nat
  BY RescueBlacklist, FS_CardinalityType DEF IInv, Types
<1>2. /\ phase' = "next" /\ UNCHANGED <<source, counting, count, stat, parsed_files>>
  BY DEF Rescue, input
<1>3. CountTypes' /\ Place'
  BY <1>2 DEF CountInv, CountTypes, Place, counting
<1>4. Samples'
  <2>1. \A x \in FileStat : Given(x) \in 0 .. 1 /\ Given(x)' = 0
    BY <1>2 DEF Given
  <2>2. \A x \in FileStat : stat[x].size \in Nat
    BY TalliesTyped DEF CountInv, Stat
  <2>. QED  BY <1>1, <1>2, <2>1, <2>2 DEF CountInv, Samples
<1>5. ASSUME ~torn'  PROVE Books'
  <2>1. phase # "count" /\ Books
    BY <1>5 DEF CountInv
  <2>. QED  BY <1>2, <2>1 DEF Books, ArraysMatch, TokensMatch, PositiveMatch, CallsMatch,
                              Half, Owed, Coming
<1>. QED  BY <1>3, <1>4, <1>5 DEF CountInv

LEMMA StepCountInv == IInv /\ CountInv /\ [Next]_vars => CountInv'
<1>. SUFFICES ASSUME IInv, CountInv, [Next]_vars  PROVE CountInv'
  OBVIOUS
<1>0. count \in [Counter -> Nat]
  BY DEF CountInv, CountTypes
<1>1. CASE NextFile
  BY <1>0, <1>1, OutsideCountInv DEF NextFile, input
<1>2. CASE Scan
  <2>1. CASE Source.kind # "no_calls"
    <3>1. /\ count' \in [Counter -> Nat]
          /\ \A c \in Counter : c # "files_with_jquery_calls" => count'[c] = count[c]
      BY <1>0, <1>2, <2>1 DEF Scan, Add, Counter
    <3>. QED  BY <1>2, <2>1, <3>1, OutsideCountInv DEF Scan, input, outcome
  <2>2. CASE Source.kind = "no_calls"
    BY <1>2, <2>2, BeginCountInv DEF Scan, Begin, Busy
  <2>. QED  BY <2>1, <2>2
<1>3. CASE Parse
  BY <1>3, BeginCountInv DEF Parse, Begin, Busy
<1>4. CASE CountStep
  <2>1. CountFrame
    BY <1>4 DEF CountStep, CountFrame
  <2>. QED  BY <1>4, <2>1, AddTokensCountInv, ObserveCallCountInv, LastCallCountInv,
               AddCallsCountInv, ObserveFileCountInv DEF CountStep
<1>5. CASE Finish
  BY <1>5, FinishCountInv
<1>6. CASE SlowStats
  BY <1>0, <1>6, OutsideCountInv DEF SlowStats, input, outcome
<1>7. CASE ParseError
  BY <1>7, RescueCountInv DEF ParseError, Busy, CountInv
<1>8. CASE Timeout
  BY <1>8, RescueCountInv DEF Timeout, Busy
<1>9. CASE UNCHANGED vars
  BY <1>9, ZenonT(60) DEF vars, input, outcome, counting, CountInv, CountTypes, Place, Samples, Given, Books,
       ArraysMatch, TokensMatch, PositiveMatch, CallsMatch, Half, Owed, Coming, Turn,
       Observed, Source, Positive
<1>. QED  BY <1>1, <1>2, <1>3, <1>4, <1>5, <1>6, <1>7, <1>8, <1>9 DEF Next, Loop

LEMMA CountInvariance == Spec => [](IInv /\ CountInv)
<1>1. IInv /\ IInv' /\ CountInv /\ [Next]_vars => CountInv'
  BY StepCountInv
<1>. QED  BY Invariance, InitCountInv, <1>1, PTL DEF Spec

\* Between two files each file processed so far is parsed or an error, and not both:
\* a timeout of the counting included (empirical_study.rb:116-121).
THEOREM FilesCounted == Spec => []EveryFileCounted
<1>1. IInv => EveryFileCounted
  BY DEF IInv
<1> QED BY Invariance, <1>1, PTL

\* The errors beyond the hits of the blacklist are the contents that have failed
\* (empirical_study.rb:60, 118).
THEOREM ContentFailsOnce == Spec => []OneFailurePerContent
<1>1. IInv => OneFailurePerContent
  BY DEF IInv
<1> QED BY Invariance, <1>1, PTL

\* At whichever statement the time limit strikes, each statistic per file has a sample of
\* every parsed file, and of each failed content at most one more
\* (empirical_study.rb:92-113; stats_finder.rb:7-12).
THEOREM SamplesStayBounded == Spec => []SamplesBounded
<1>1. IInv /\ CountInv => SamplesBounded
  <2>. SUFFICES ASSUME IInv, CountInv, BetweenFiles, NEW s \in FileStat
                PROVE  /\ parsed_files <= stat[s].size
                       /\ stat[s].size <= parsed_files + Cardinality(blacklist)
    BY DEF SamplesBounded
  <2>1. phase # "count"
    BY DEF BetweenFiles
  <2>2. Given(s) = 0
    BY <2>1 DEF Given
  <2>3. parsed_files \in Nat
    BY DEF IInv, Types
  <2>. QED  BY <2>2, <2>3 DEF CountInv, Samples
<1>. QED  BY CountInvariance, <1>1, PTL

\* As long as no counting was interrupted, sums, arrays and counters tell the same
\* story: the files that failed to parse have left no trace in the statistics
\* (empirical_study.rb:92-121).
THEOREM StatisticsStayTrue == Spec => []StatisticsAgree
<1>1. CountInv => StatisticsAgree
  <2>. SUFFICES ASSUME CountInv, BetweenFiles, ~torn  PROVE StatisticsAgree
    BY DEF StatisticsAgree
  <2>1. Books /\ CountTypes
    BY DEF CountInv
  <2>2. \A x : ~Half(x) /\ ~Coming(x)
    BY DEF BetweenFiles, Half, Coming
  <2>. QED  BY <2>1, <2>2, TalliesTyped
            DEF StatisticsAgree, BetweenFiles, Books, ArraysMatch, TokensMatch, PositiveMatch,
                CallsMatch, Owed, Stat, FileStat
<1>. QED  BY CountInvariance, <1>1, PTL
=============================================================================
