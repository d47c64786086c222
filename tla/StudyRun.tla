------------------------------ MODULE StudyRun ------------------------------
(***************************************************************************)
(* The empirical study's batch: each file is parsed and counted within a   *)
(* time limit.  The timeout raises an exception between any two statements *)
(* of the counting, in observe_value too; the file is then an error and    *)
(* its content is blacklisted, but what was counted so far stays counted.  *)
(***************************************************************************)
EXTENDS FiniteSets, Integers, Sequences, SequencesExt

CONSTANTS NumPaths,    \* how many files the batch finds
          Content,     \* what a file holds, told apart by its SHA1
          MaxCalls,    \* bound on the calls found in one file
          MaxTokens    \* bound on the tokens of one call

ASSUME BatchAssumption == NumPaths \in Nat /\ MaxCalls \in Nat /\ MaxTokens \in Nat

FileStat == {"gdbt_per_file", "jquery_per_file", "pure_per_file"}
Stat     == FileStat \cup {"gdbt_per_positive"}
Counter  == {"files_with_jquery_calls", "total_tokens", "positive_calls", "negative_calls"}

VARIABLES path,       \* the content of each file
          source,     \* what the scan and the parser make of each content
          processed, parsed_files, num_parse_errors, blacklist, blacklist_hits,
          phase,      \* where the loop is: "next", "scan", "parse", "count" or "done"
          at,         \* the statement of the counting that comes next
          half,       \* observe_value is between its two statements
          calls,      \* the positive calls of this file that are counted
          file_tokens,
          count,      \* the counters
          stat,       \* the sum of each statistic, and the size and total of its array
          torn        \* a timeout has interrupted a counting that had begun

counting == <<at, half, calls, file_tokens>>
input == <<path, source>>
outcome == <<parsed_files, num_parse_errors, blacklist, blacklist_hits>>
vars == <<input, processed, outcome, phase, counting, count, stat, torn>>

\* A source: it names no query function and is not parsed; or it has an error; or it
\* is parsed, with the tokens of each positive call and the number of negative calls.
Sources ==
  [kind : {"no_calls", "error"}, positive : {<<>>}, negative : {0}] \cup
  [kind : {"parsed"}, positive : BoundedSeq(1 .. MaxTokens, MaxCalls), negative : 0 .. 1]

\* The source of the file that is being processed, and its positive calls.
Source == source[path[processed]]
Positive == Len(Source.positive)

-----------------------------------------------------------------------------
(* The statements that count a file: each is named for the counter it adds to, or *)
(* for the statistic it calls observe_value on; "end" is the end of the block.     *)

\* A mutant: a file without calls is no sample of pure calls.
FollowingShort(s) ==
  IF Source.kind = "no_calls"
  THEN CASE s = "jquery_per_file" -> "gdbt_per_file"
         [] s = "gdbt_per_file"   -> "end"
  ELSE CASE s = "gdbt_per_file"   -> "positive_calls"
         [] s = "positive_calls"  -> "negative_calls"
         [] s = "negative_calls"  -> "jquery_per_file"
         [] s = "jquery_per_file" -> "pure_per_file"
         [] s = "pure_per_file"   -> "end"

\* The statement after s, in the branch with calls or in the one without.
Following(s) ==
  IF Source.kind = "no_calls"
  THEN CASE s = "jquery_per_file" -> "gdbt_per_file"
         [] s = "gdbt_per_file"   -> "pure_per_file"
         [] s = "pure_per_file"   -> "end"
  ELSE CASE s = "gdbt_per_file"   -> "positive_calls"
         [] s = "positive_calls"  -> "negative_calls"
         [] s = "negative_calls"  -> "jquery_per_file"
         [] s = "jquery_per_file" -> "pure_per_file"
         [] s = "pure_per_file"   -> "end"

\* What a statistic of the file observes.  A file without calls has none of any kind.
Observed(s) ==
  CASE s = "gdbt_per_file"   -> file_tokens
    [] s = "jquery_per_file" -> Positive + Source.negative
    [] s = "pure_per_file"   -> Positive

Begin(s) ==
  /\ phase' = "count"
  /\ at' = s /\ half' = FALSE /\ calls' = 0 /\ file_tokens' = 0

Add(key, by) == count' = [count EXCEPT ![key] = @ + by]

\* observe_value: first the sum, then the array.
Observe(key, value) ==
  /\ half' = ~half
  /\ stat' = IF half THEN [stat EXCEPT ![key].size = @ + 1, ![key].total = @ + value]
             ELSE [stat EXCEPT ![key].sum = @ + value]

-----------------------------------------------------------------------------

\* The next file is read; one with a blacklisted content is an error at once.
NextFile ==
  /\ phase = "next"
  /\ processed < NumPaths
  /\ processed' = processed + 1
  /\ IF path[processed + 1] \in blacklist
     THEN /\ num_parse_errors' = num_parse_errors + 1
          /\ blacklist_hits' = blacklist_hits + 1
          /\ UNCHANGED phase
     ELSE phase' = "scan" /\ UNCHANGED <<num_parse_errors, blacklist_hits>>
  /\ UNCHANGED <<input, parsed_files, blacklist, counting, count, stat, torn>>

\* Only a source that names a query function is parsed.
Scan ==
  /\ phase = "scan"
  /\ IF Source.kind # "no_calls"
     THEN phase' = "parse" /\ Add("files_with_jquery_calls", 1) /\ UNCHANGED counting
     ELSE Begin("jquery_per_file") /\ UNCHANGED count
  /\ UNCHANGED <<input, processed, outcome, stat, torn>>

\* find_jquery_gdbt_calls returns.
Parse ==
  /\ phase = "parse" /\ Source.kind = "parsed"
  /\ Begin("call")
  /\ UNCHANGED <<input, processed, outcome, count, stat, torn>>

\* A mutant: the file's tokens so far are added for each call.
AddTokensTwice ==
  /\ at = "call" /\ calls < Positive
  /\ file_tokens' = file_tokens + Source.positive[calls + 1]
  /\ Add("total_tokens", file_tokens + Source.positive[calls + 1])
  /\ at' = "gdbt_per_positive"
  /\ UNCHANGED <<half, calls, stat>>

\* The tokens of the next positive call, in total_tokens and in file_tokens, which
\* nobody but this block sees.
AddTokens ==
  /\ at = "call" /\ calls < Positive
  /\ file_tokens' = file_tokens + Source.positive[calls + 1]
  /\ Add("total_tokens", Source.positive[calls + 1])
  /\ at' = "gdbt_per_positive"
  /\ UNCHANGED <<half, calls, stat>>

ObserveCall ==
  /\ at = "gdbt_per_positive"
  /\ Observe("gdbt_per_positive", Source.positive[calls + 1])
  /\ IF half THEN calls' = calls + 1 /\ at' = "call" ELSE UNCHANGED <<calls, at>>
  /\ UNCHANGED <<file_tokens, count>>

LastCall ==
  /\ at = "call" /\ calls = Positive
  /\ at' = "gdbt_per_file"
  /\ UNCHANGED <<half, calls, file_tokens, count, stat>>

AddCalls ==
  /\ at \in {"positive_calls", "negative_calls"}
  /\ Add(at, IF at = "positive_calls" THEN Positive ELSE Source.negative)
  /\ at' = Following(at)
  /\ UNCHANGED <<half, calls, file_tokens, stat>>

ObserveFile ==
  /\ at \in FileStat
  /\ Observe(at, Observed(at))
  /\ at' = IF half THEN Following(at) ELSE at
  /\ UNCHANGED <<calls, file_tokens, count>>

CountStep ==
  /\ phase = "count"
  /\ AddTokens \/ ObserveCall \/ LastCall \/ AddCalls \/ ObserveFile
  /\ UNCHANGED <<input, processed, outcome, phase, torn>>

\* The block has ended in time.
Finish ==
  /\ phase = "count" /\ at = "end"
  /\ parsed_files' = parsed_files + 1
  /\ phase' = "next"
  /\ UNCHANGED <<input, processed, num_parse_errors, blacklist, blacklist_hits, counting, count, stat, torn>>

\* A mutant: the loop does not go on to the next file at once.
RescueFalls ==
  /\ num_parse_errors' = num_parse_errors + 1
  /\ blacklist' = blacklist \cup {path[processed]}
  /\ phase' = "next"
  /\ parsed_files' = parsed_files + 1
  /\ UNCHANGED <<input, processed, blacklist_hits, counting, count, stat>>

\* A mutant: the content is not remembered.
RescueForgets ==
  /\ num_parse_errors' = num_parse_errors + 1
  /\ phase' = "next"
  /\ UNCHANGED <<input, processed, parsed_files, blacklist, blacklist_hits, counting, count, stat>>

Rescue ==
  /\ num_parse_errors' = num_parse_errors + 1
  /\ blacklist' = blacklist \cup {path[processed]}
  /\ phase' = "next"
  /\ UNCHANGED <<input, processed, parsed_files, blacklist_hits, counting, count, stat>>

\* It raises an error.  It may also run for ever.
ParseError == phase = "parse" /\ Source.kind = "error" /\ Rescue /\ UNCHANGED torn

\* A mutant: the limit is on the counting only.
TimeoutLate ==
  /\ phase = "count"
  /\ torn' = TRUE
  /\ Rescue

\* The time limit strikes, before the last statement or after it.
Timeout ==
  /\ phase \in {"scan", "parse", "count"}
  /\ torn' = (torn \/ phase = "count")
  /\ Rescue

\* All files are done: the statistics are printed.
SlowStats ==
  /\ phase = "next" /\ processed = NumPaths
  /\ phase' = "done"
  /\ UNCHANGED <<input, processed, outcome, counting, count, stat, torn>>

-----------------------------------------------------------------------------

Init ==
  /\ path \in [1 .. NumPaths -> Content]
  /\ source \in [Content -> Sources]
  /\ processed = 0 /\ parsed_files = 0
  /\ num_parse_errors = 0 /\ blacklist = {} /\ blacklist_hits = 0
  /\ phase = "next"
  /\ at = "end" /\ half = FALSE /\ calls = 0 /\ file_tokens = 0
  /\ count = [c \in Counter |-> 0]
  /\ stat = [s \in Stat |-> [sum |-> 0, size |-> 0, total |-> 0]]
  /\ torn = FALSE

Loop == NextFile \/ CountStep \/ Scan \/ Finish \/ SlowStats

Next == Loop \/ Parse \/ ParseError \/ Timeout

\* The loop goes on and the timeout comes; the parser need not return.
Spec == Init /\ [][Next]_vars /\ WF_vars(Loop) /\ WF_vars(Timeout)

-----------------------------------------------------------------------------

BetweenFiles == phase \in {"next", "done"}

\* Every file that was processed is either parsed or an error, and not both, at
\* whichever statement it was interrupted (empirical_study.rb:116-121).
EveryFileCounted == BetweenFiles => parsed_files + num_parse_errors = processed

\* A content fails once: every other file of that content is a hit of the blacklist
\* (empirical_study.rb:60, 118).
OneFailurePerContent == num_parse_errors - blacklist_hits = Cardinality(blacklist)

\* The statistics per file hold a sample of every parsed file; and beyond these at
\* most one of each file that failed, though it is counted as an error.
SamplesBounded ==
  BetweenFiles =>
    \A s \in FileStat :
      /\ parsed_files <= stat[s].size
      /\ stat[s].size <= parsed_files + Cardinality(blacklist)

\* Unless a counting was interrupted, sums and arrays agree and the statistics tell
\* the same story as the counters: parse errors leave no trace in them.
StatisticsAgree ==
  BetweenFiles /\ ~torn =>
    /\ \A s \in Stat : stat[s].sum = stat[s].total
    /\ count["total_tokens"] = stat["gdbt_per_positive"].sum
    /\ count["total_tokens"] = stat["gdbt_per_file"].sum
    /\ count["positive_calls"] = stat["gdbt_per_positive"].size
    /\ count["positive_calls"] = stat["pure_per_file"].sum
    /\ count["positive_calls"] + count["negative_calls"] = stat["jquery_per_file"].sum
=============================================================================
