-------------------------------- MODULE Database --------------------------------
(* Database::merge_all: rules, rebuilds and merge functions stage rows in    *)
(* buffers and notify the tables these are for; merge_all merges notified    *)
(* tables until nobody notified another. Few tables are merged one by one,   *)
(* more of them stratum by stratum, those of a stratum in parallel. What a   *)
(* table does with its rows is in SortedWritesTable and DisplacedTable.      *)
EXTENDS NotificationList, FiniteSets, FiniteSetsExt

CONSTANTS
  ReadDeps,  \* per table, those its merge function reads, ...
  WriteDeps, \* ... and those it stages rows for
  RuleTasks, \* tasks that run rules
  Few,       \* so many tables are no longer merged one by one: 4
  MaxWrites  \* bound: rows staged

\* One task per table; while rules run, some tasks run them.
Tables == Tasks

(* Tables are added after those they read, one level above them.             *)
ASSUME DepsAssumption ==
  /\ Tables \subseteq Nat /\ IsFiniteSet(Tables) /\ RuleTasks \subseteq Tasks /\ None \notin Tasks
  /\ Few \in Nat /\ MaxWrites \in Nat
  /\ ReadDeps \in [Tables -> SUBSET Tables] /\ WriteDeps \in [Tables -> SUBSET Tables]
  /\ \A t \in Tables : \A d \in ReadDeps[t] : d < t

Level[t \in Tables] == Max({0} \cup {Level[d] + 1 : d \in ReadDeps[t]})
Levels == Max({Level[t] : t \in Tables}) + 1

VARIABLES
  phase,   \* "idle", "rules", "rebuild", or within merge_all "simple", "strata"
  todo,    \* the notified tables being merged, in "simple" those left
  stratum, \* the next stratum
  present, \* tables in the database; the others are with a task
  pending, \* tables with rows handed over to them
  held,    \* task -> tables its buffers have rows for
  buffers, \* task -> tables it was given a buffer for
  writes   \* rows staged

vars == <<list, phase, todo, stratum, present, pending, held, buffers, writes>>

Init ==
  /\ ListInit
  /\ phase = "idle" /\ todo = <<>> /\ stratum = 0
  /\ present = Tables /\ pending = {}
  /\ held = [t \in Tasks |-> {}] /\ buffers = [t \in Tasks |-> {}]
  /\ writes = 0

AllIdle == \A t \in Tasks : pc[t] = "idle"
Start(tasks, step) == pc' = [t \in Tasks |-> IF t \in tasks THEN step ELSE pc[t]]

-------------------------------------------------------------------------------
(* What stages rows.                                                         *)
RunRules ==
  /\ phase = "idle" /\ writes < MaxWrites
  /\ phase' = "rules"
  /\ Start(RuleTasks, "work")
  /\ UNCHANGED <<head, slots, writer, notified, item>>
  /\ UNCHANGED <<todo, stratum, present, pending, held, buffers, writes>>

\* ExecutionState: the row goes to a buffer, then the table is notified.
Stage(t) ==
  /\ pc[t] = "work" /\ phase # "rebuild" /\ writes < MaxWrites
  /\ \E i \in IF phase = "rules" THEN Tables ELSE WriteDeps[t] :
       /\ held' = [held EXCEPT ![t] = @ \cup {i}]
       /\ StartNotify(t, i)
  /\ writes' = writes + 1
  /\ UNCHANGED <<phase, todo, stratum, present, pending, buffers>>

\* The buffers hand over their rows; a table that merged goes back.
Finish(t) ==
  /\ pc[t] = "work"
  /\ pending' = pending \cup held[t]
  /\ held' = [held EXCEPT ![t] = {}]
  /\ buffers' = [buffers EXCEPT ![t] = {}]
  /\ present' = IF phase = "simple" THEN present \cup {t} ELSE present
  /\ Goto(t, "idle")
  /\ UNCHANGED <<head, slots, writer, notified, item, phase, todo, stratum, writes>>

\* run_on_tables: tables are rebuilt, each by a task that owns it.
RunOnTables ==
  /\ phase = "idle" /\ writes < MaxWrites
  /\ phase' = "rebuild"
  /\ \E tables \in SUBSET Tables :
       /\ present' = present \ tables
       /\ Start(tables, "rebuild")
  /\ UNCHANGED <<head, slots, writer, notified, item>>
  /\ UNCHANGED <<todo, stratum, pending, held, buffers, writes>>

RebuildUnchanged(t) ==
  /\ pc[t] = "rebuild"
  /\ Goto(t, "idle")
  /\ UNCHANGED <<head, slots, writer, notified, item>>
  /\ UNCHANGED <<phase, todo, stratum, present, pending, held, buffers, writes>>

RebuildChanged(t) ==
  /\ pc[t] = "rebuild" /\ writes < MaxWrites
  /\ pending' = pending \cup {t}
  /\ writes' = writes + 1
  /\ StartNotify(t, t)
  /\ UNCHANGED <<phase, todo, stratum, present, held, buffers>>

-------------------------------------------------------------------------------
(* merge_all.                                                                *)
Round ==
  /\ AllIdle
  /\ phase \in {"rules", "rebuild"} \/ (phase = "strata" /\ stratum = Levels)
  /\ phase' = IF Len(notified) < Few THEN "simple" ELSE "strata"
  /\ todo' = notified
  /\ stratum' = 0
  /\ present' = Tables
  /\ Reset
  /\ UNCHANGED <<pc, pending, held, buffers, writes>>

\* merge_simple: one table, with a buffer for itself.
MergeOne ==
  /\ phase = "simple" /\ AllIdle /\ todo # <<>>
  /\ todo' = Tail(todo)
  /\ present' = present \ {Head(todo)}
  /\ buffers' = [buffers EXCEPT ![Head(todo)] = {Head(todo)}]
  /\ Start({Head(todo)}, "merge")
  /\ UNCHANGED <<head, slots, writer, notified, item>>
  /\ UNCHANGED <<phase, stratum, pending, held, writes>>

MergeNotified ==
  /\ phase = "simple" /\ AllIdle /\ todo = <<>> /\ notified # <<>>
  /\ todo' = notified
  /\ Reset
  /\ UNCHANGED <<pc, phase, stratum, present, pending, held, buffers, writes>>

Return ==
  /\ phase = "simple" /\ AllIdle /\ todo = <<>> /\ notified = <<>>
  /\ phase' = "idle"
  /\ UNCHANGED <<list, todo, stratum, present, pending, held, buffers, writes>>

\* The tables of a stratum get their buffers before any of them is taken out.
MergeStratum ==
  /\ phase = "strata" /\ AllIdle /\ stratum < Levels
  /\ stratum' = stratum + 1
  /\ LET tables == {t \in Range(todo) : Level[t] = stratum}
     IN  /\ buffers' = [t \in Tasks |-> IF t \in tables THEN WriteDeps[t] ELSE {}]
         /\ present' = Tables \ tables
         /\ Start(tables, "merge")
  /\ UNCHANGED <<head, slots, writer, notified, item, phase, todo, pending, held, writes>>

\* Table::merge takes the rows handed over so far.
TakePending(t) ==
  /\ pc[t] = "merge"
  /\ pending' = pending \ {t}
  /\ Goto(t, IF t \in pending THEN "work" ELSE "empty")
  /\ UNCHANGED <<head, slots, writer, notified, item>>
  /\ UNCHANGED <<phase, todo, stratum, present, held, buffers, writes>>

MergedNothing(t) ==
  /\ pc[t] = "empty"
  /\ present' = IF phase = "simple" THEN present \cup {t} ELSE present
  /\ Goto(t, "idle")
  /\ UNCHANGED <<head, slots, writer, notified, item>>
  /\ UNCHANGED <<phase, todo, stratum, pending, held, buffers, writes>>

NotifyStep(t) ==
  /\ Notify(t)
  /\ UNCHANGED <<phase, todo, stratum, present, pending, held, buffers, writes>>

\* The system may stop between calls.
Stopped ==
  /\ phase = "idle" /\ writes = MaxWrites
  /\ UNCHANGED vars

Next ==
  \/ RunRules \/ RunOnTables \/ Round \/ MergeOne \/ MergeNotified \/ Return \/ MergeStratum \/ Stopped
  \/ \E t \in Tasks : \/ Stage(t) \/ Finish(t) \/ RebuildUnchanged(t) \/ RebuildChanged(t)
                      \/ TakePending(t) \/ MergedNothing(t) \/ NotifyStep(t)

Spec == Init /\ [][Next]_vars

-------------------------------------------------------------------------------
(* A table with a row for it, in a buffer or handed over, is always about to *)
(* be merged: it is recorded, or a task is on the way to record it, or this  *)
(* round merges it after the row was handed over. When merge_all has         *)
(* returned no row waits and no mark is left that would hide the next one.   *)
ToBeRecorded(i) ==
  \/ i \in Range(notified)
  \/ \E t \in Tasks : item[t] = i /\ pc[t] \notin {"idle", "work", "merge", "empty", "rebuild"}
StillMerges(i) ==
  \/ pc[i] = "merge"
  \/ phase = "simple" /\ i \in Range(todo)
  \/ phase = "strata" /\ i \in Range(todo) /\ stratum <= Level[i]
NoWriteForgotten ==
  /\ \A i \in pending : ToBeRecorded(i) \/ StillMerges(i)
  /\ \A t \in Tasks : \A i \in held[t] : ToBeRecorded(i)
  /\ phase = "idle" => pending = {} /\ \A i \in DOMAIN slots : ~slots[i]

(* A merge function finds the tables it reads in the database and, for those *)
(* it writes, a buffer or the table to make one, also when they merge at the *)
(* same time; a mark is only ever read within the published vector.          *)
MergeFindsItsTables ==
  /\ \A t \in Tasks : phase \in {"simple", "strata"} /\ pc[t] # "idle" =>
        /\ ReadDeps[t] \subseteq present
        /\ WriteDeps[t] \subseteq present \cup buffers[t]
  /\ \A t \in Tasks : pc[t] \in {"read", "check", "swap"} => item[t] < head
===============================================================================
