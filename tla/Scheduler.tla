------------------------------ MODULE Scheduler ------------------------------
(* Iterations of a ruleset under a scheduler (src/scheduler.rs). A rule is    *)
(* split in two: its query rule runs under seminaive evaluation and collects  *)
(* each match in a list outside of the database; the scheduler chooses from   *)
(* the list; what it chooses becomes rows of a `decided` table, which the     *)
(* action rule applies and removes. The rest of the list waits for the next   *)
(* iteration. The back-off scheduler (egglog-experimental) chooses all of a   *)
(* rule's matches or, when there are too many, bans the rule for a while.     *)
(* Iterations are called one by one, or in the loop of a `saturate` schedule. *)
EXTENDS Naturals, FiniteSets, FiniteSetsExt, SequencesExt

CONSTANTS
  Facts,     \* rows of the program's tables
  Match,     \* <<rule, fact, tuple>>: the rule's body matches the fact, and
             \* the tuple is what the rule's head needs of the match
  Effect,    \* <<rule, tuple>> -> the facts that the head inserts
  Rulesets,  \* sequences of rules
  Configs,   \* match limits and ban lengths of back-off schedulers; with limit 0
             \* no match is ever chosen, with ban length 0 a ban is over at once
  Width      \* 64 in the code: shifting by as much panics. Shifts by less are
             \* taken to lose no bits.

Rules     == UNION {Range(rs) : rs \in Rulesets}
TuplesOf(r, fs) == {m[3] : m \in {m \in Match : m[1] = r /\ m[2] \in fs}}

ASSUME SchedulerConstants ==
  /\ Configs \subseteq [limit : Nat, ban : Nat]
  /\ Width \in Nat
  /\ IsFiniteSet(Match)
  /\ \A rs \in Rulesets : rs \in Seq(Range(rs)) /\ rs # <<>> /\ IsInjective(rs)
  /\ \A r \in Rules : \A t \in TuplesOf(r, Facts) : Effect[<<r, t>>] \subseteq Facts

VARIABLES
  scheduler,  \* a back-off scheduler with its tags, or one of the user's
  facts,   \* the rows that are there
  info,    \* rule -> SchedulerRuleInfo and its part of the database
  held,    \* rule -> the list of matches the scheduler reads
  stats,   \* rule -> the back-off scheduler's RuleStats
  phase,   \* "idle", "filter", "act", or "lost" when an iteration has failed
  step,    \* the rules of the latest iteration
  turn,    \* which of them is filtered
  saturating,  \* whether iterations are run by `saturate`
  report,  \* what the latest iteration reports
  due      \* history: rule -> tuples found and not applied since

egraph == <<scheduler, facts, info, stats, due>>
vars   == <<egraph, held, phase, step, turn, saturating, report>>

(* decided: rows of the table of that name; seen: facts the query rule has    *)
(* run over.                                                                  *)
NewInfo  == [seek |-> TRUE, seen |-> {}, decided |-> {}]
(* left is banned_until - iteration, 0 when that is negative.                 *)
NewStats == [left |-> 0, times |-> 0]
(* The rules of the iteration and those whose query ran, whether nothing      *)
(* changed (the negation of `updated`), and can_stop.                         *)
NoReport == [rules |-> {}, sought |-> {}, quiet |-> FALSE, stop |-> FALSE]

Custom  == [kind |-> "custom", limit |-> 0, ban |-> 0]
BackOff == {[kind |-> "back-off", limit |-> c.limit, ban |-> c.ban] : c \in Configs}

Init ==
  /\ scheduler \in BackOff \cup {Custom}
  /\ facts = {}
  /\ info = [r \in Rules |-> NewInfo]
  /\ held = [r \in Rules |-> <<>>]
  /\ stats = [r \in Rules |-> NewStats]
  /\ phase = "idle"
  /\ step = <<>>
  /\ turn = 0
  /\ saturating = FALSE
  /\ report = NoReport
  /\ due = [r \in Rules |-> {}]

-----------------------------------------------------------------------------
(* One iteration: step_rules_with_scheduler.                                 *)

(* Tuples in the order they are collected in. Facts that differ only in what  *)
(* the head does not need give equal tuples.                                  *)
Found(r) ==
  LET new == IF info[r].seek THEN {m \in Match : m[1] = r /\ m[2] \in facts \ info[r].seen} ELSE {}
  IN  [n \in 1..Cardinality(new) |-> SetToSeq(new)[n][3]]

(* The query rules run, but for those the scheduler asked to leave out. (A    *)
(* rule that is new to the scheduler gets its rules, table and list first.)   *)
(* A loop goes on with the ruleset it is about.                               *)
RunQueries(rs) ==
  /\ phase = "idle"
  /\ saturating => rs = step
  /\ info' = [r \in Rules |->
                IF r \in Range(rs)
                THEN [info[r] EXCEPT !.seen = IF info[r].seek THEN facts ELSE @]
                ELSE info[r]]
  /\ held' = [r \in Rules |->
                IF r \in Range(rs) THEN held[r] \o Found(r) ELSE held[r]]
  /\ due' = [r \in Rules |-> IF r \in Range(rs) THEN due[r] \cup Range(Found(r)) ELSE due[r]]
  /\ phase' = "filter"
  /\ step' = rs
  /\ turn' = 1
  /\ saturating' \in IF saturating THEN {TRUE} ELSE BOOLEAN
  /\ report' = [NoReport EXCEPT !.sought = {r \in Range(rs) : info[r].seek}]
  /\ UNCHANGED <<scheduler, facts, stats>>

(* A match that is chosen gives its place to the last one, from the back to   *)
(* the front; the list ends where the ones that were not chosen do.           *)
SwapRemove(list, n) == SubSeq([list EXCEPT ![n] = Last(list)], 1, Len(list) - 1)
Truncated(list, chosen) == SubSeq(list, 1, Len(list) - Cardinality(chosen))  \* mutant: no swaps

Residual(list, chosen) ==
  LET from[n \in 1..(Len(list) + 1)] ==
        IF n > Len(list) THEN list
        ELSE IF n \in chosen THEN SwapRemove(from[n + 1], n) ELSE from[n + 1]
  IN  from[1]

(* What the scheduler chose is inserted into `decided`, the rest is kept.     *)
Decide(r, chosen, seek) ==
  /\ info' = [info EXCEPT ![r].seek = seek,
                          ![r].decided = @ \cup {held[r][n] : n \in chosen}]
  /\ held' = [held EXCEPT ![r] = Residual(@, chosen)]
  /\ turn' = turn + 1
  /\ phase' = IF turn = Len(step) THEN "act" ELSE "filter"
  /\ UNCHANGED <<scheduler, facts, step, saturating, report, due>>

(* A scheduler of the user's may choose any matches and skip any query.       *)
FilterCustom ==
  /\ phase = "filter"
  /\ scheduler.kind = "custom"
  /\ \E chosen \in SUBSET DOMAIN held[step[turn]], seek \in BOOLEAN :
       Decide(step[turn], chosen, seek)
  /\ UNCHANGED stats

(* BackOffScheduler::filter_matches: the iteration is counted first.          *)
Left(r)      == IF stats[r].left = 0 THEN 0 ELSE stats[r].left - 1
TooMany(r)   == Len(held[r]) > scheduler.limit * 2^stats[r].times
Filtering(r) == phase = "filter" /\ scheduler.kind = "back-off" /\ r = step[turn]
Allowed(r)   == Filtering(r) /\ Left(r) = 0 /\ stats[r].times < Width

SkipBanned(r) ==
  /\ Filtering(r)
  /\ Left(r) > 0
  /\ stats' = [stats EXCEPT ![r].left = Left(r)]
  /\ Decide(r, {}, FALSE)

Ban(r) ==
  /\ Allowed(r)
  /\ TooMany(r)
  /\ stats' = [stats EXCEPT ![r] = [left |-> scheduler.ban * 2^@.times, times |-> @.times + 1]]
  /\ Decide(r, {}, FALSE)

ChooseAll(r) ==
  /\ Allowed(r)
  /\ ~TooMany(r)
  /\ stats' = [stats EXCEPT ![r].left = 0]
  /\ Decide(r, DOMAIN held[r], TRUE)

BannedAfterNext(rs) == {r \in rs : stats[r].left > 1}  \* mutant: off by one

Banned(rs) == {r \in rs : stats[r].left > 0}

ForwardedAnew(rs) ==  \* mutant: the statistics of banned rules are not put back
  [r \in Rules |-> IF r \in rs THEN NewStats ELSE stats[r]]

(* BackOffScheduler::can_stop: if rules are banned time is advanced to where  *)
(* the next ban ends. Rules that are not banned lose their statistics.        *)
Forwarded(rs) ==
  [r \in Rules |->
     CASE r \notin rs -> stats[r]
       [] r \in Banned(rs) -> [stats[r] EXCEPT !.left = @ - Min({stats[b].left : b \in Banned(rs)})]
       [] OTHER -> NewStats]

(* The action rules apply the decided matches and remove them, which does not *)
(* count as a change. The scheduler is only asked whether the iteration may   *)
(* be the last one if nothing was inserted. `saturate` does not heed the      *)
(* answer: it ends when nothing was inserted.                                 *)
RunActions ==
  /\ phase = "act"
  /\ LET rs      == Range(step)
         new     == UNION {UNION {Effect[<<r, t>>] : t \in info[r].decided} : r \in rs}
         updated == ~(new \subseteq facts)
     IN  /\ facts' = facts \cup new
         /\ info' = [r \in Rules |-> IF r \in rs THEN [info[r] EXCEPT !.decided = {}] ELSE info[r]]
         /\ due' = [r \in Rules |-> IF r \in rs THEN due[r] \ info[r].decided ELSE due[r]]
         /\ \E stop \in IF scheduler.kind = "custom" THEN BOOLEAN ELSE {Banned(rs) = {}} :
              report' = [report EXCEPT !.rules = rs, !.quiet = ~updated, !.stop = ~updated /\ stop]
         /\ stats' = IF updated \/ scheduler.kind = "custom" THEN stats ELSE Forwarded(rs)
         /\ saturating' = (saturating /\ updated)
  /\ phase' = "idle"
  /\ UNCHANGED <<scheduler, held, step, turn>>

(* A run that fails returns at once, and so does a shift of the limit by too  *)
(* many bans. The rulesets and the schedulers, which the iteration had taken  *)
(* out of the e-graph, are not put back.                                      *)
TooManyBans(r) == Filtering(r) /\ Left(r) = 0 /\ stats[r].times >= Width
Fail ==
  /\ \/ phase \in {"filter", "act"} /\ (phase = "filter" => turn = 1)
     \/ \E r \in Rules : TooManyBans(r)
  /\ phase' = "lost"
  /\ saturating' = FALSE
  /\ UNCHANGED <<egraph, held, step, turn, report>>

-----------------------------------------------------------------------------
(* Actions of the program, between iterations.                               *)

Insert(f) ==
  /\ phase = "idle" /\ ~saturating
  /\ f \notin facts
  /\ facts' = facts \cup {f}
  /\ report' = NoReport
  /\ UNCHANGED <<scheduler, info, held, stats, phase, step, turn, saturating, due>>

-----------------------------------------------------------------------------
Filter ==
  \/ FilterCustom
  \/ \E r \in Rules : SkipBanned(r) \/ Ban(r) \/ ChooseAll(r)

Next ==
  \/ \E rs \in Rulesets : RunQueries(rs)
  \/ Filter \/ RunActions \/ Fail
  \/ \E f \in Facts : Insert(f)

(* An iteration that has begun goes on, and so does a loop: each is one call. *)
Iterate == saturating /\ \E rs \in Rulesets : RunQueries(rs)
Spec == Init /\ [][Next]_vars /\ WF_vars(Iterate \/ Filter \/ RunActions)

-----------------------------------------------------------------------------
(* Properties. *)

(* A match that a query rule has found waits, in the list or in `decided`,    *)
(* until it is applied, whatever the scheduler chooses in however many        *)
(* iterations, and nothing waits that was not found:                          *)
(* src/scheduler.rs:12-13 says that matches "that are not chosen in this      *)
(* iteration will be delayed to the next iteration". Seminaive evaluation     *)
(* does not find a match a second time.                                       *)
Waiting(r) == Range(held[r]) \cup info[r].decided
MatchesAccounted ==
  phase # "lost" =>
    \A r \in Rules :
      /\ due[r] \subseteq Waiting(r)
      /\ Waiting(r) \subseteq TuplesOf(r, info[r].seen)

(* What an iteration that changed nothing says of the rules, for any match    *)
(* limit and ban length, also 0: a rule without a match that is held back has *)
(* been applied to all that its query ran over, and that is every fact there  *)
(* is, if its query ran in this iteration. The back-off scheduler's can_stop  *)
(* is true just when none of the rules holds a match back, unless its bans    *)
(* have no length. `saturate` ends on such an iteration, with can_stop or     *)
(* without; callers of step_rules_with_scheduler read RunReport::can_stop.    *)
Saturated(r, fs) == \A t \in TuplesOf(r, fs) : Effect[<<r, t>>] \subseteq facts
NoneHeld(rs)     == \A r \in rs : held[r] = <<>>
StopReportExact ==
  report.quiet =>
    /\ \A r \in report.rules :
         held[r] = <<>> => /\ Saturated(r, info[r].seen)
                           /\ r \in report.sought => info[r].seen = facts
    /\ scheduler.kind = "back-off" /\ scheduler.ban # 0
         => (report.stop <=> NoneHeld(report.rules))

(* What src/scheduler.rs:16-17 promises of can_stop, "whether or not the      *)
(* rules can be considered as saturated once no database changes were made",  *)
(* and egglog-reports/src/lib.rs:125-126 of the report, "no deferred          *)
(* scheduler work". A ban that ends breaks it: the iteration chooses the      *)
(* matches from before the ban, its query phase still left the rule out, and  *)
(* the facts that came in since are not matched.                              *)
StopMeansSaturated ==
  report.stop /\ scheduler.kind = "back-off"
    => \A r \in report.rules : Saturated(r, facts)

(* Iterations of one ruleset under the back-off scheduler, one after another  *)
(* with those of other rulesets in between, at last report that they may      *)
(* stop: bans get longer, but the limit grows with them (if it is not 0), and *)
(* idle time is skipped.                                                      *)
LoopTerminates ==
  \A rs \in Rulesets :
    scheduler.kind = "back-off" /\ scheduler.limit # 0 /\ []<>(phase = "act" /\ step = rs)
      => []<>(report.stop /\ report.rules = Range(rs))
=============================================================================
