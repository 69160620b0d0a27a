------------------------------ MODULE Routing ------------------------------
(***************************************************************************)
(* What the token pool knows of one key when it chooses: the log of its    *)
(* calls and the quota its owner shares (pool/scheduler.py), the samples   *)
(* and the score of pool/scoring.py, the decaying averages of              *)
(* pool/metrics.py and the filter of pool/caller.py.                       *)
(*                                                                         *)
(* Scores are in ten-thousandths, as score() rounds them.  Days are the    *)
(* unit of time: an average's half-life is two of them and its window      *)
(* seven.  The log is permanent, the samples are in memory.                *)
(***************************************************************************)
EXTENDS Integers, Sequences, SequencesExt

CONSTANTS LogLimit,   \* rows of the log the guard reads (1000)
          MaxSamples, \* calls a tracker or an average remembers (100, 5000)
          Latencies,  \* of a call, in ms
          Amounts,    \* tokens of a successful call
          Key,        \* [model, secret]
          Providers,  \* whose key it may be
          Profile,    \* the model's profile: abilities 0..5, <<>> when it has none
          Requests,   \* [model, chars, type, max, images, tools]
          MaxCalls, MaxDays, MaxRestarts \* bounds

VARIABLES provider,
          log,     \* the key's calls: [day, first, ok, tokens]; first: at midnight itself
          day,
          percent, \* of yesterday's use the owner shares; -1: not a shared key
          counts,  \* key_stats: [ok, failed]
          samples, \* the tracker's window: [ttfb, latency, ok]
          hub,     \* the averages' window: [day, latency, tokens, ok]
          limiter, \* the limiter's windows of a day: [requests, tokens], entries [day, n]
          boots    \* restarts so far

routeVars == <<provider, log, day, percent, counts, samples, hub, limiter, boots>>
Unused == [requests |-> <<>>, tokens |-> <<>>]
RouteInit == /\ provider \in Providers /\ log = <<>> /\ day = 2 /\ percent = -1 /\ counts = [ok |-> 0, failed |-> 0]
             /\ samples = <<>> /\ hub = <<>> /\ limiter = Unused /\ boots = 0

Total(rows, value(_)) == FoldSeq(LAMBDA r, n : n + value(r), 0, rows)
Successes(rows) == SelectSeq(rows, LAMBDA r : r.ok)
\* Of a sequence of numbers.
Sum(f) == LET s[n \in 0..Len(f)] == IF n = 0 THEN 0 ELSE s[n - 1] + f[n] IN s[Len(f)]

-----------------------------------------------------------------------------
(* The guards.  call_log returns the newest rows; the sums of both days    *)
(* take in a row of midnight itself.                                       *)

\* MUTANT: the log is read in the order of insertion.
Oldest(rows) == SubSeq(rows, 1, IF Len(rows) > LogLimit THEN LogLimit ELSE Len(rows))
Newest(rows) == SubSeq(rows, IF Len(rows) > LogLimit THEN Len(rows) - LogLimit + 1 ELSE 1, Len(rows))
Yesterday(r) == r.day = day - 1 \/ (r.day = day /\ r.first)
UsedYesterday(rows) == Sum([i \in DOMAIN rows |-> IF rows[i].ok /\ Yesterday(rows[i]) THEN rows[i].tokens ELSE 0])
UsedToday(rows) == Sum([i \in DOMAIN rows |-> IF rows[i].ok /\ rows[i].day = day THEN rows[i].tokens ELSE 0])
Quota(rows) == (UsedYesterday(rows) * percent) \div 100
QuotaPasses == percent <= 0 \/ Quota(Newest(log)) - UsedToday(Newest(log)) > 0

\* estimate_tokens: a quarter of the characters, corrected (in tenths) by what they are.
Factor == [chinese |-> 13, english |-> 10, code |-> 15, mixed |-> 12]
Estimate(r) == IF r.chars < 4 THEN r.max ELSE ((r.chars \div 4) * Factor[r.type]) \div 10 + r.max

\* _filter_model: room for the estimated tokens, pictures and tools if they are asked for.
Fits(r) == Profile # <<>> => /\ Profile.context > 0 => Estimate(r) <= Profile.context
                             /\ r.images => Profile.vision > 0
                             /\ r.tools => Profile.tool_use > 0
\* filter_candidates: the model if one is asked for by name, a key that has its secret.
Suits(r) == /\ r.model \in {"", Key.model}
            /\ Key.secret \/ provider \in {"local", "miclaw"}
            /\ Fits(r)

-----------------------------------------------------------------------------
(* The score.                                                              *)

\* MUTANT: failures are not counted.
ReliabilityOfCalls == (10000 * (counts.ok + counts.failed + 1)) \div (counts.ok + counts.failed + 2)
Reliability == (10000 * (counts.ok + 1)) \div (counts.ok + counts.failed + 2)
Ramp(v, best, worst) == IF v <= best THEN 10000 ELSE IF v >= worst THEN 0
                        ELSE 10000 - (10000 * (v - best)) \div (worst - best)
Average(value(_)) == Total(samples, value) \div Len(samples)
\* Nothing records a stream, so the rate of tokens is never known.
Speed == IF samples = <<>> THEN 6000
         ELSE (Ramp(Average(LAMBDA s : s.ttfb), 200, 8000) + Ramp(Average(LAMBDA s : s.latency), 500, 30000)) \div 2
Dims(task) == CASE task = "code"      -> <<"coding", "reasoning", "intelligence">>
                [] task = "reasoning" -> <<"reasoning", "intelligence", "planning">>
                [] task = "vision"    -> <<"vision", "intelligence">>
                [] task = "search"    -> <<"search", "intelligence", "tool_use">>
                [] task = "planning"  -> <<"planning", "reasoning", "tool_use">>
                [] task = "tool"      -> <<"tool_use", "planning", "reasoning">>
                [] task = "cheap"     -> <<"intelligence">>
                [] OTHER              -> <<"intelligence", "reasoning", "coding">>
Tasks == {"chat", "code", "reasoning", "vision", "search", "planning", "tool", "cheap"}
Able(task) == SelectSeq(Dims(task), LAMBDA d : Profile[d] > 0)
Capability(task) == IF Profile = <<>> \/ Able(task) = <<>> THEN 5000
                    ELSE (2000 * Total(Able(task), LAMBDA d : Profile[d])) \div Len(Able(task))
Weights == [balanced |-> <<50, 25, 25>>, smartest |-> <<35, 10, 55>>,
            fastest |-> <<35, 55, 10>>, reliable |-> <<70, 15, 15>>]
Score(task, strategy) == LET w == Weights[strategy]
                         IN (w[1] * Reliability + w[2] * Speed + w[3] * Capability(task)) \div 100

-----------------------------------------------------------------------------
(* The averages: a call weighs half as much for every two days of its age. *)

Pruned(rows) == SelectSeq(rows, LAMBDA r : day - r.day <= 7)
Weight(r) == LET halves == (day - r.day) \div 2 IN 8 \div 2^halves
Weighed(rows, value(_)) == Total(rows, LAMBDA r : Weight(r) * value(r))
SuccessRate == LET all == Weighed(Pruned(hub), LAMBDA r : 1)
               IN IF all = 0 THEN 100 ELSE (100 * Weighed(Successes(Pruned(hub)), LAMBDA r : 1)) \div all
AvgLatency == LET ok == Successes(Pruned(hub))
              IN IF ok = <<>> THEN 0 ELSE Weighed(ok, LAMBDA r : r.latency) \div Weighed(ok, LAMBDA r : 1)
TotalTokens == Weighed(Pruned(hub), LAMBDA r : r.tokens) \div 8
RawCount == Len(Pruned(hub))
Snapshot == [success_rate |-> SuccessRate, avg_latency |-> AvgLatency,
             total_tokens |-> TotalTokens, samples |-> RawCount]
-----------------------------------------------------------------------------
(* The limiter's windows.  They are pruned when they are counted, which    *)
(* only the page of statistics does; a call of yesterday is taken to be    *)
(* less than a day old.  The windows of a minute go the same way.          *)

InWindow(rows) == SelectSeq(rows, LAMBDA r : day - r.day <= 1)
Requests24 == Len(InWindow(limiter.requests))
Tokens24 == Total(InWindow(limiter.tokens), LAMBDA r : r.n)
RecordRequest == Append(limiter.requests, [day |-> day, n |-> 1])
RecordTokens(n) == Append(limiter.tokens, [day |-> day, n |-> n])
ShowStatus == /\ limiter' = [requests |-> InWindow(limiter.requests), tokens |-> InWindow(limiter.tokens)]
              /\ UNCHANGED <<provider, log, day, percent, counts, samples, hub, boots>>

-----------------------------------------------------------------------------
(* The steps.  A call of a request that suits the key ends.  The guard is  *)
(* no condition: several calls may have passed it together, and KeyPool    *)
(* models what else it looks at.                                           *)

\* The tokens of an answer are its usage.total_tokens; the answer that _call_anthropic makes up
\* out of theirs has the two parts of it and no total.
Recorded(tokens) == IF provider = "anthropic" THEN 0 ELSE tokens

Window(rows, row) == LET all == Append(rows, row) IN IF Len(all) > MaxSamples THEN Tail(all) ELSE all
Ends(ok, latency, tokens) ==
  /\ Len(log) < MaxCalls /\ \E r \in Requests : Suits(r)
  /\ \E first \in IF \E i \in DOMAIN log : log[i].day = day THEN {FALSE} ELSE BOOLEAN :
       log' = Append(log, [day |-> day, first |-> first, ok |-> ok, tokens |-> tokens])
  /\ counts' = IF ok THEN [counts EXCEPT !.ok = @ + 1] ELSE [counts EXCEPT !.failed = @ + 1]
  /\ samples' = Window(samples, [ttfb |-> IF ok THEN (3 * latency) \div 10 ELSE 0, latency |-> latency, ok |-> ok])
  /\ hub' = Pruned(Window(hub, [day |-> day, latency |-> latency, tokens |-> tokens, ok |-> ok]))
  /\ limiter' = [requests |-> RecordRequest, tokens |-> IF ok THEN RecordTokens(tokens) ELSE limiter.tokens]
  /\ UNCHANGED <<provider, day, percent, boots>>
Succeeds == \E latency \in Latencies, tokens \in Amounts : Ends(TRUE, latency, Recorded(tokens))
Fails == \E latency \in Latencies : Ends(FALSE, latency, 0)

\* A heartbeat makes the key a shared one, the administrator sets the share.
Shares(p) == percent' = p /\ p # percent /\ UNCHANGED <<provider, log, day, counts, samples, hub, limiter, boots>>
NextDay == day < MaxDays /\ day' = day + 1 /\ UNCHANGED <<provider, log, percent, counts, samples, hub, limiter, boots>>
RestartRouting == /\ boots < MaxRestarts /\ boots' = boots + 1 /\ samples' = <<>> /\ hub' = <<>> /\ limiter' = Unused
                  /\ UNCHANGED <<provider, log, day, percent, counts>>

RouteNext == Succeeds \/ Fails \/ NextDay \/ RestartRouting \/ ShowStatus \/ \E p \in {0, 50, 100} : Shares(p)
RouteSpec == RouteInit /\ [][RouteNext]_routeVars
-----------------------------------------------------------------------------
\* Although the guard sees only the newest rows, it errs on the owner's side: a shared key it
\* lets through has used less today than the share of all of yesterday's use.  So one that went
\* unused for a day is closed, and one of Anthropic, whose calls record no tokens, always is.
GuardIsStrict == percent > 0 /\ QuotaPasses => /\ UsedToday(log) < Quota(log)
                                               /\ provider # "anthropic"

\* A failed call counts with a time to first byte of 0 and is in no average of latencies.  It
\* costs the key all the same: in the snapshot its success rate falls, the number of its calls
\* rises and nothing else moves; in the limiter's windows it is a request without tokens; and
\* with the strategy "reliable" no task ranks it higher, as long as the key has not failed more
\* often than it has succeeded and the windows still hold all the calls that were counted.
FailureCosts ==
  [][Fails => /\ Requests24' = Requests24 + 1 /\ Tokens24' = Tokens24
              /\ Len(hub) < MaxSamples =>
                  /\ SuccessRate' <= SuccessRate
                  /\ Snapshot' = [Snapshot EXCEPT !.success_rate = SuccessRate', !.samples = @ + 1]
              /\ counts.ok >= counts.failed /\ Len(samples) = counts.ok + counts.failed /\ Len(samples) < MaxSamples
                   => \A task \in Tasks : Score(task, "reliable")' <= Score(task, "reliable")]_routeVars
=============================================================================
