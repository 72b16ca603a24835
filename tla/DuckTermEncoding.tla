--------------------------- MODULE DuckTermEncoding ---------------------------
(* The term encoding run by the DuckDB backend: an e-graph kept as relations *)
(* and maintained by rules. Every command is followed by the rebuild         *)
(* schedule, whose rules run one at a time over timestamped tables and look  *)
(* only at what is new since they last ran.                                  *)
EXTENDS DuckTable, Congruence

CONSTANTS
  MaxCommands, \* bound: commands of the program
  MaxActions,  \* bound: actions the rules of the program apply in all
  MaxRounds    \* bound: iterations since a rebuild, so that one without end shows

(* The rules of the maintenance rulesets. Rules of the program are not       *)
(* followed one by one: what they may do is in the actions Union, Make and   *)
(* Delete.                                                                   *)
Rule(kind, f) == <<kind, f>>
Rebuilders == [n \in 1..(2 * Len(Ctors)) |->
                 Rule(IF n % 2 = 1 THEN "congruence_rule" ELSE "rebuild_rule", Ctors[(n + 1) \div 2])]
Deleters == [n \in 1..Len(Ctors) |-> Rule("delete_rule", Ctors[n])]
Rulesets ==
    [single_parent     |-> <<Rule("singleparent", "")>>,
     path_compress     |-> <<Rule("uf_update", "")>>,
     uf_function_index |-> <<Rule("uf_function_index", "")>>,
     rebuilding        |-> Rebuilders,
     delete_subsume    |-> Deleters]
Rules == UNION {Range(Rulesets[s]) : s \in DOMAIN Rulesets}

Tables == {<<"UF", "">>, <<"UFf", "">>}
            \cup ({"term", "view", "to_delete"} \X Names)
UFTable == <<"UF", "">>
UFfTable == <<"UFf", "">>
View(f) == <<"view", f>>
ToDelete(f) == <<"to_delete", f>>

VARIABLES
  \* the database
  uf,        \* UF: edge <<from, to>> -> timestamp
  ufi,       \* UFf: id -> its leader and the entry's timestamp
  term,      \* constructor -> rows of its term table, only ever added to
  view,      \* constructor -> rows of its view
  todel,     \* constructor -> arguments asked to be deleted
  seq,       \* the next value of the sequence of ids
  \* the runner
  ts,        \* timestamp of the latest iteration
  lastRun,   \* rule -> the iteration that ran it last
  watermark, \* table -> the last iteration known to have changed it
  fast,      \* does the rebuild rule drop its view branch?
  \* the schedule
  at,        \* "idle", "actions", or the ruleset that runs
  todo,      \* its rules that have still to run in this iteration
  updated,   \* has this iteration changed anything?
  outer,     \* has this pass of the outer saturate changed anything?
  rebuilt,   \* did the latest command end with a rebuild?
  commands,  \* commands so far
  acts,      \* actions so far
  \* history
  classes    \* id -> the least id that is equal to it by the unions asked for
             \* and congruence

db == <<uf, ufi, term, view, todel, seq>>
runner == <<ts, lastRun, watermark, fast>>
schedule == <<at, todo, updated, outer, rebuilt, commands, acts>>
vars == <<db, runner, schedule, classes>>

(* The first command created the leaves, by constructors that are not        *)
(* followed: its iteration was 1, its rebuild took iterations 2 to 11.       *)
Init ==
  /\ uf = [e \in {<<i, i>> : i \in Leaves} |-> 1]
  /\ ufi = [i \in Leaves |-> [out |-> i, ts |-> 4]]
  /\ term = [f \in Names |-> <<>>]
  /\ view = [f \in Names |-> <<>>]
  /\ todel = [f \in Names |-> <<>>]
  /\ seq = Cardinality(Leaves) + 1
  /\ ts = 11
  /\ lastRun = [r \in Rules |-> CASE r[1] = "singleparent"      -> 7
                                  [] r[1] = "uf_update"         -> 8
                                  [] r[1] = "uf_function_index" -> 9
                                  [] r[1] = "delete_rule"       -> 11
                                  [] OTHER                      -> 10]
  /\ watermark = [t \in Tables |-> CASE t = UFTable -> 1 [] t = UFfTable -> 4 [] OTHER -> 0]
  /\ fast \in BOOLEAN
  /\ at = "idle" /\ todo = <<>> /\ updated = FALSE /\ outer = FALSE
  /\ rebuilt = TRUE /\ commands = 0 /\ acts = 0
  /\ classes = [i \in Ids |-> i]

-------------------------------------------------------------------------------
(* Commands: one iteration of actions, whatever rules they are from.         *)
Written(tables) ==
    watermark' = [t \in Tables |-> IF t \in tables THEN ts ELSE watermark[t]]

\* UFf is read as it is, a missing entry as the id itself.
Find(i) == IF i \in DOMAIN ufi THEN ufi[i].out ELSE i

\* The ids a rule's body can bind, and those its actions have made.
Bound ==
    {i \in Leaves : Find(i) = i} \cup
    UNION {UNION {Range(r) : r \in {r \in DOMAIN view[f] : view[f][r] < ts}} : f \in Names}
Made == UNION {{Class(r) : r \in {r \in DOMAIN view[f] : view[f][r] = ts}} : f \in Names}

Begin ==
  /\ at = "idle" /\ commands < MaxCommands
  /\ ts' = ts + 1
  /\ at' = "actions" /\ rebuilt' = FALSE
  /\ commands' = commands + 1
  /\ UNCHANGED <<db, lastRun, watermark, fast, todo, updated, outer, acts, classes>>

Act ==
  /\ at = "actions" /\ acts < MaxActions
  /\ acts' = acts + 1
  /\ UNCHANGED <<ts, lastRun, fast, at, todo, updated, outer, rebuilt, commands>>

\* Two ids are made equal, or a row is added, with what follows from it.
ViewRows == [f \in Names |-> DOMAIN view[f]]
Learn(pairs, rows) == classes' = Closure({<<i, classes[i]>> : i \in Ids} \cup pairs, rows)

\* (union x y): an edge from the larger to the smaller.
Edge(x, y) == <<Max({x, y}), Min({x, y})>>

Union ==
  /\ Act
  /\ \E x, y \in Bound \cup Made :
       /\ x < y
       /\ uf' = InsertIgnore(uf, {Edge(x, y)}, ts)
       /\ Written(IF Edge(x, y) \in DOMAIN uf THEN {} ELSE {UFTable})
       /\ Learn({<<x, y>>}, ViewRows)
  /\ UNCHANGED <<ufi, term, view, todel, seq>>

(* (f args): the arguments are replaced by their leaders; the id is that of  *)
(* the view's row for them or, when there is none, when they were made by    *)
(* the same rule or when another match of the rule asks for the same, a new  *)
(* one. The term, its view row and its self-loop are added; the term table's *)
(* watermark stays.                                                          *)
Existing(f, args) == {Class(r) : r \in {r \in DOMAIN view[f] : Args(r) = args}}

Make ==
  /\ Act
  /\ \E f \in Names, new \in BOOLEAN : \E args \in [1..Arity[f] -> Bound \cup Made] :
       LET canon == [k \in DOMAIN args |-> Find(args[k])]
           id    == IF new THEN seq ELSE Min(Existing(f, canon))
           row   == Row(canon, Find(id))
       IN  /\ IF new THEN seq \in Ids ELSE Existing(f, canon) # {} /\ Range(args) \subseteq Bound
           /\ seq' = IF new THEN seq + 1 ELSE seq
           /\ term' = [term EXCEPT ![f] = InsertIgnore(@, {Row(canon, id)}, ts)]
           /\ view' = [view EXCEPT ![f] = InsertIgnore(@, {row}, ts)]
           /\ uf' = InsertIgnore(uf, {Edge(id, id)}, ts)
           /\ Written((IF row \in DOMAIN view[f] THEN {} ELSE {View(f)})
                        \cup (IF Edge(id, id) \in DOMAIN uf THEN {} ELSE {UFTable}))
           /\ Learn({}, ViewRows')
  /\ UNCHANGED <<ufi, todel>>

\* (delete (f args)): a row, with an id that nothing reads, of a helper table.
Delete ==
  /\ Act
  /\ \E f \in Names : \E args \in [1..Arity[f] -> Bound \cup Made] :
       /\ todel' = [todel EXCEPT ![f] = InsertIgnore(DeleteRows(@, {args}), {args}, ts)]
       /\ Written({ToDelete(f)})
  /\ UNCHANGED <<uf, ufi, term, view, seq, classes>>

\* An action fails: what the earlier ones did stays, and nothing is rebuilt.
Fail ==
  /\ at = "actions"
  /\ at' = "idle"
  /\ UNCHANGED <<db, runner, todo, updated, outer, rebuilt, commands, acts, classes>>
-------------------------------------------------------------------------------
(* The rebuild schedule:                                                     *)
(*   (seq (saturate (saturate single_parent) (saturate path_compress)        *)
(*                  (saturate uf_function_index) rebuilding)                 *)
(*        delete_subsume)                                                    *)
After(changed, pass) ==
    CASE at = "actions" -> "single_parent"
      [] at = "single_parent" -> IF changed THEN at ELSE "path_compress"
      [] at = "path_compress" -> IF changed THEN at ELSE "uf_function_index"
      [] at = "uf_function_index" -> IF changed THEN at ELSE "rebuilding"
      [] at = "rebuilding" -> IF pass THEN "single_parent" ELSE "delete_subsume"
      [] at = "delete_subsume" -> "idle"

Continue(changed) ==
    LET s == After(changed, outer \/ changed)
    IN  /\ at' = s
        /\ todo' = IF s = "idle" THEN <<>> ELSE Rulesets[s]
        /\ ts' = IF s = "idle" THEN ts ELSE ts + 1
        /\ updated' = FALSE
        /\ outer' = ((outer \/ changed) /\ at # "rebuilding" /\ s # "idle")
        /\ rebuilt' = (s = "idle")

EndActions ==
  /\ at = "actions"
  /\ Continue(FALSE)
  /\ UNCHANGED <<db, lastRun, watermark, fast, commands, acts, classes>>

(* A rule runs: skipped when none of the tables it reads is known to have    *)
(* changed since it last ran; either way it now has run.                     *)
Running(kind) ==
  /\ todo # <<>> /\ Head(todo)[1] = kind
  /\ ts <= lastRun[Deleters[1]] + MaxRounds
Fn == Head(todo)[2]
Since == lastRun[Head(todo)]
Open(tables) == \E t \in tables : watermark[t] >= Since
New(stamps) == Delta(stamps, Since, ts)

Ran(tables) ==
  /\ lastRun' = [lastRun EXCEPT ![Head(todo)] = ts]
  /\ Written(tables)
  /\ IF Len(todo) = 1 THEN Continue(updated \/ tables # {})
     ELSE /\ todo' = Tail(todo)
          /\ updated' = (updated \/ tables # {})
          /\ UNCHANGED <<ts, at, outer, rebuilt>>
  /\ UNCHANGED <<fast, commands, acts, classes>>

\* The tables of the set, if there was a match.
IfRun(matches, tables) == tables
If(matches, tables) == IF matches = {} THEN {} ELSE tables

(* UF(a, b), UFf(a) = c, b # c: the edge goes, b is told about c.            *)
SingleParent ==
  /\ Running("singleparent")
  /\ LET matches == {<<e, ufi[e[1]].out>> :
                       e \in {e \in DOMAIN uf : /\ Open({UFTable, UFfTable})
                                                /\ e[1] \in DOMAIN ufi
                                                /\ ufi[e[1]].out # e[2]
                                                /\ New(<<uf[e], ufi[e[1]].ts>>)}}
         moved   == {<<m[1][2], m[2]>> : m \in matches}
     IN  /\ uf' = InsertIgnore(DeleteRows(uf, {m[1] : m \in matches}), moved, ts)
         /\ ufi' = InsertLeast(ufi, moved, ts)
         /\ Ran(If(matches, {UFTable, UFfTable}))
  /\ UNCHANGED <<term, view, todel, seq>>

(* UF(a, b), UF(b, c), b # c: the edge from a leads to c.                    *)
Hop(p) == p[1][2] = p[2][1] /\ p[2][1] # p[2][2]

PathCompress ==
  /\ Running("uf_update")
  /\ LET matches == {p \in (DOMAIN uf) \X (DOMAIN uf) :
                       /\ Open({UFTable})
                       /\ Hop(p)
                       /\ New(<<uf[p[1]], uf[p[2]]>>)}
     IN  /\ uf' = InsertIgnore(DeleteRows(uf, {p[1] : p \in matches}),
                               {<<p[1][1], p[2][2]>> : p \in matches}, ts)
         /\ Ran(If(matches, {UFTable}))
  /\ UNCHANGED <<ufi, term, view, todel, seq>>

(* UF(a, b): UFf(a) becomes b, or stays if it is less.                       *)
FunctionIndex ==
  /\ Running("uf_function_index")
  /\ LET matches == {e \in DOMAIN uf : Open({UFTable}) /\ New(<<uf[e]>>)}
     IN  /\ ufi' = InsertLeast(ufi, matches, ts)
         /\ Ran(If(matches, {UFfTable}))
  /\ UNCHANGED <<uf, term, view, todel, seq>>

(* Two view rows with the same arguments: their classes are united.          *)
CongruenceRule ==
  /\ Running("congruence_rule")
  /\ LET v       == view[Fn]
         matches == {p \in (DOMAIN v) \X (DOMAIN v) :
                       /\ Open({View(Fn)})
                       /\ Args(p[1]) = Args(p[2]) /\ Class(p[1]) > Class(p[2])
                       /\ New(<<v[p[1]], v[p[2]]>>)}
         edges   == {Edge(Class(p[1]), Class(p[2])) : p \in matches}
     IN  /\ uf' = InsertIgnore(uf, edges, ts)
         /\ Ran(If(edges \ DOMAIN uf, {UFTable}))
  /\ UNCHANGED <<ufi, term, view, todel, seq>>

(* A view row with a column whose leader is another: the row over leaders is *)
(* added, then the stale one removed.                                        *)
Stamps(f, row) == <<view[f][row]>> \o [k \in DOMAIN row |-> ufi[row[k]].ts]
LeadingArgs(row) == [row EXCEPT ![1] = ufi[row[1]].out]
Leading(row) == [k \in DOMAIN row |-> ufi[row[k]].out]
Stale(f) == {row \in DOMAIN view[f] : /\ Range(row) \subseteq DOMAIN ufi
                                      /\ \E k \in DOMAIN row : row[k] # ufi[row[k]].out}

RebuildRule ==
  /\ Running("rebuild_rule")
  /\ LET matches == {row \in Stale(Fn) :
                       /\ Open({View(Fn), UFfTable})
                       /\ IF fast THEN DeltaBesidesFirst(Stamps(Fn, row), Since, ts)
                                  ELSE New(Stamps(Fn, row))}
     IN  /\ view' = [view EXCEPT ![Fn] =
                       DeleteRows(InsertIgnore(@, {Leading(row) : row \in matches}, ts), matches)]
         /\ Ran(If(matches, {View(Fn)}))
  /\ UNCHANGED <<uf, ufi, term, todel, seq>>

(* to_delete(args) and a view row for args: both go.                         *)
DeleteRuleForgets ==
  /\ Running("delete_rule")
  /\ LET v       == view[Fn]
         matches == {row \in DOMAIN v : /\ Open({ToDelete(Fn), View(Fn)})
                                        /\ Args(row) \in DOMAIN todel[Fn]
                                        /\ New(<<todel[Fn][Args(row)], v[row]>>)}
     IN  /\ view' = [view EXCEPT ![Fn] = DeleteRows(@, matches)]
         /\ todel' = [todel EXCEPT ![Fn] = <<>>]
         /\ Ran(If(matches, {View(Fn), ToDelete(Fn)}))
  /\ UNCHANGED <<uf, ufi, term, seq>>

DeleteRule ==
  /\ Running("delete_rule")
  /\ LET v       == view[Fn]
         matches == {row \in DOMAIN v : /\ Open({ToDelete(Fn), View(Fn)})
                                        /\ Args(row) \in DOMAIN todel[Fn]
                                        /\ New(<<todel[Fn][Args(row)], v[row]>>)}
     IN  /\ view' = [view EXCEPT ![Fn] = DeleteRows(@, matches)]
         /\ todel' = [todel EXCEPT ![Fn] = DeleteRows(@, {Args(row) : row \in matches})]
         /\ Ran(If(matches, {View(Fn), ToDelete(Fn)}))
  /\ UNCHANGED <<uf, ufi, term, seq>>

RunRule == SingleParent \/ PathCompress \/ FunctionIndex
             \/ CongruenceRule \/ RebuildRule \/ DeleteRule

Next == Begin \/ Union \/ Make \/ Delete \/ Fail \/ EndActions \/ RunRule

Spec == Init /\ [][Next]_vars /\ WF_vars(RunRule)

-------------------------------------------------------------------------------
(* The tables hold rows of ids that exist, written by iterations that ran,   *)
(* and the index UFf leads from an id to itself or a smaller one: LEAST      *)
(* resolves every conflict, although singleparent writes an edge from a      *)
(* smaller id to a larger. (The run checks RebuiltExact, which says which id *)
(* UFf leads to once a rebuild has ended.)                                   *)
TypeOK ==
  /\ seq \in 1..(MaxId + 1)
  /\ \A e \in DOMAIN uf : {e[1], e[2]} \subseteq 1..(seq - 1) /\ uf[e] \in 1..ts
  /\ \A i \in DOMAIN ufi : i \in 1..(seq - 1) /\ ufi[i].out \in 1..i /\ ufi[i].ts \in 1..ts
  /\ \A f \in Names : DOMAIN view[f] \cup DOMAIN term[f] \subseteq [1..(Arity[f] + 1) -> 1..(seq - 1)]
  /\ \A f \in Names : DOMAIN todel[f] \subseteq [1..Arity[f] -> 1..(seq - 1)]

(* A command that ended with its rebuild leaves no equality lost or          *)
(* invented: UFf and UF hold, for every id, the least id equal to it by the  *)
(* unions asked for and congruence, and every view is over leaders with one  *)
(* row for its arguments, whatever an earlier command that failed left       *)
(* behind and with or without the fast rebuild.                              *)
RebuiltExact ==
  at = "idle" /\ rebuilt =>
    /\ \A i \in 1..(seq - 1) : i \in DOMAIN ufi /\ ufi[i].out = classes[i]
    /\ \A e \in DOMAIN uf : e[2] = classes[e[1]]
    /\ \A f \in Names : \A r, q \in DOMAIN view[f] :
          Renamed(classes, r) = r /\ (Args(r) = Args(q) => r = q)

(* The branch of the rebuild rule's query that the fast rebuild drops, a view*)
(* row new since the rule last ran joined with entries of UFf that are not,  *)
(* would find nothing: rows are written over the leaders of their time.      *)
DroppedBranchEmpty ==
  Running("rebuild_rule") =>
    \A row \in Stale(Fn) :
       view[Fn][row] < Since \/ \E k \in DOMAIN row : ufi[row[k]].ts >= Since

(* The tables implement an e-graph in which a union takes effect at once and *)
(* nothing else but the deletes asked for changes it: no maintenance rule    *)
(* loses or makes up an application.                                         *)
Promise == INSTANCE CongruentTerms WITH
    leader <- classes,
    rows <- Canonical(classes, ViewRows),
    doomed <- [f \in Names |-> DOMAIN todel[f]],
    next <- seq
ImplementsCongruentTerms == Promise!Spec

(* Every rebuild ends: each saturate of the schedule stops reporting changes.*)
RebuildTerminates == at \notin {"idle", "actions"} ~> at = "idle"
===============================================================================
