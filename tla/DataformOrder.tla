---------------------------- MODULE DataformOrder ----------------------------
(***************************************************************************)
(* The local executor of the Dataform project (run_dataform.py): it        *)
(* compiles the project to a graph of actions, orders the actions by a     *)
(* depth-first search over their dependencies, and executes them in that   *)
(* order.                                                                  *)
(*                                                                         *)
(* A graph is a function from the names of its actions to [deps, kind]; a  *)
(* dependency that is not an action is a declaration, a table that is      *)
(* there.  The search is taken step by step, each frame of its recursion   *)
(* with the dependencies it has not looked at, in any order: the order of  *)
(* the JSON is the compiler's.                                             *)
(***************************************************************************)
EXTENDS Naturals, Sequences, FiniteSets

CONSTANTS
    Graphs,         \* what the project may compile to
    MaxCompiles     \* bound: runs of the executor

ASSUME MaxCompilesIsNat == MaxCompiles \in Nat

VARIABLES
    graph,      \* by_name
    stack,      \* the frames of visit: [name, deps still to look at]
    visiting, done, ordered,    \* as in order_actions
    executed,   \* how many of ordered have been executed
    fresh,      \* tables built in this run from tables that were
    dpc,        \* "idle", "ordering", "cycle", "executing", "failed", "finished"
    compiles    \* counter for the bound

dformVars == <<graph, stack, visiting, done, ordered, executed, fresh, dpc, compiles>>

NoGraph == <<>>
Actions == DOMAIN graph
Deps(n) == graph[n].deps \cap Actions

DataformInit ==
    /\ graph = NoGraph /\ stack = <<>>
    /\ visiting = {} /\ done = {} /\ ordered = <<>> /\ executed = 0
    /\ fresh = {} /\ dpc = "idle" /\ compiles = 0

(* dataform compile: a graph, or an exit code, errors or no JSON.          *)
Compile ==
    /\ dpc \in {"idle", "failed", "cycle"} /\ compiles < MaxCompiles
    /\ compiles' = compiles + 1
    /\ \/ graph' \in Graphs /\ dpc' = "ordering"
       \/ graph' = NoGraph /\ dpc' = "failed"
    /\ stack' = <<>> /\ visiting' = {} /\ done' = {} /\ ordered' = <<>> /\ executed' = 0
    /\ fresh' = {}

-----------------------------------------------------------------------------
(* order_actions.                                                          *)

Top == stack[Len(stack)]
Below == SubSeq(stack, 1, Len(stack) - 1)

(* A name that is not done and not being visited gets a frame.             *)
Enter(frames, n) ==
    /\ stack' = Append(frames, [name |-> n, deps |-> graph[n].deps])
    /\ visiting' = visiting \cup {n}

VisitRoot(n) ==
    /\ dpc = "ordering" /\ stack = <<>>
    /\ n \in Actions \ done
    /\ Enter(<<>>, n)
    /\ UNCHANGED <<graph, done, ordered, executed, fresh, dpc, compiles>>

(* Mutant: a name that is being visited is skipped like one that is done.  *)
Skips_Visiting(d) == d \notin Actions \/ d \in done \cup visiting

(* Declarations, and names that are done.                                  *)
Skips(d) == d \notin Actions \/ d \in done

VisitDependency(d) ==
    /\ dpc = "ordering" /\ stack # <<>>
    /\ d \in Top.deps
    /\ LET frames == Append(Below, [Top EXCEPT !.deps = @ \ {d}])
       IN  \/ Skips(d) /\ stack' = frames /\ UNCHANGED <<visiting, dpc>>
           \/ ~Skips(d) /\ d \notin visiting /\ Enter(frames, d) /\ UNCHANGED dpc
           \/ ~Skips(d) /\ d \in visiting /\ dpc' = "cycle" /\ UNCHANGED <<stack, visiting>>
    /\ UNCHANGED <<graph, done, ordered, executed, fresh, compiles>>

(* Mutant: the name is not discarded from visiting.                        *)
LeaveVisit_KeepsVisiting ==
    /\ dpc = "ordering" /\ stack # <<>>
    /\ Top.deps = {}
    /\ stack' = Below
    /\ done' = done \cup {Top.name}
    /\ ordered' = Append(ordered, Top.name)
    /\ UNCHANGED <<graph, visiting, executed, fresh, dpc, compiles>>

(* Every dependency has been looked at.                                    *)
LeaveVisit ==
    /\ dpc = "ordering" /\ stack # <<>>
    /\ Top.deps = {}
    /\ stack' = Below
    /\ visiting' = visiting \ {Top.name}
    /\ done' = done \cup {Top.name}
    /\ ordered' = Append(ordered, Top.name)
    /\ UNCHANGED <<graph, executed, fresh, dpc, compiles>>

EndOrdering ==
    /\ dpc = "ordering" /\ stack = <<>> /\ done = Actions
    /\ dpc' = "executing"
    /\ UNCHANGED <<graph, stack, visiting, done, ordered, executed, fresh, compiles>>

-----------------------------------------------------------------------------
(* The execution.                                                          *)

Executable == {"TABLE", "INCREMENTAL", "VIEW"}

(* CREATE OR REPLACE: the table is what its dependencies are now.          *)
ExecuteNext ==
    /\ dpc = "executing" /\ executed < Len(ordered)
    /\ LET n == ordered[executed + 1]
       IN  /\ graph[n].kind \in Executable
           /\ fresh' = IF Deps(n) \subseteq fresh THEN fresh \cup {n} ELSE fresh \ {n}
    /\ executed' = executed + 1
    /\ UNCHANGED <<graph, stack, visiting, done, ordered, dpc, compiles>>

(* BigQuery refuses the statement, or the kind is not known: what came     *)
(* before it has been executed.  A failure of the row counts that are      *)
(* printed after the last action is left out: every table is built by then.*)
ExecuteFails ==
    /\ dpc = "executing" /\ executed < Len(ordered)
    /\ dpc' = "failed"
    /\ UNCHANGED <<graph, stack, visiting, done, ordered, executed, fresh, compiles>>

(* The process ends, and only the tables remain.                           *)
EndExecution ==
    /\ dpc = "executing" /\ executed = Len(ordered)
    /\ dpc' = "finished"
    /\ graph' = NoGraph /\ visiting' = {} /\ done' = {} /\ ordered' = <<>> /\ executed' = 0
    /\ UNCHANGED <<stack, fresh, compiles>>

DataformNext ==
    \/ Compile
    \/ \E n \in Actions : VisitRoot(n)
    \/ \E d \in UNION {graph[n].deps : n \in Actions} : VisitDependency(d)
    \/ LeaveVisit
    \/ EndOrdering
    \/ ExecuteNext
    \/ ExecuteFails
    \/ EndExecution

DataformSpec == DataformInit /\ [][DataformNext]_dformVars

-----------------------------------------------------------------------------
(* Some actions depend on one another in a circle: a set of actions each   *)
(* of which has a dependency in the set.                                   *)
Cyclic ==
    \E S \in SUBSET Actions : S # {} /\ \A n \in S : Deps(n) \cap S # {}

(* What is ordered is ordered after its dependencies and once.             *)
Topological ==
    \A i \in DOMAIN ordered :
        /\ Deps(ordered[i]) \subseteq {ordered[j] : j \in 1..(i - 1)}
        /\ \A j \in DOMAIN ordered : ordered[i] = ordered[j] => i = j

(* No table is built before one that it reads, whatever the order of the   *)
(* graph in the compiler's output, so that each is built from this run's   *)
(* data; the error about a cycle is raised exactly when there is one, and  *)
(* then nothing has been executed.                                         *)
BuiltInOrder ==
    /\ Topological
    /\ \A i \in 1..executed : ordered[i] \in fresh
    /\ dpc = "cycle" => Cyclic /\ executed = 0
    /\ dpc = "executing" => ~Cyclic /\ {ordered[i] : i \in DOMAIN ordered} = Actions
=============================================================================
