------------------------ MODULE DataformOrder_proofs ------------------------
(***************************************************************************)
(* Theorems about DataformOrder, for every graph.  The inductive invariant *)
(* says of the search that the frames are a path of dependencies, that     *)
(* what a frame has looked at is done or is the frame above it, and that   *)
(* no circle lies within what is done.                                     *)
(***************************************************************************)
EXTENDS DataformOrder, SequenceTheorems, TLAPS

AllDeps == UNION {graph[n].deps : n \in Actions}
Frame == [name : Actions, deps : SUBSET AllDeps]
Depth == Len(stack)
Built == {ordered[i] : i \in DOMAIN ordered}

(* The frames.                                                             *)
StackInv ==
    /\ stack \in Seq(Frame)
    /\ \A i \in 1..Depth : stack[i].deps \subseteq graph[stack[i].name].deps
    /\ \A i \in 1..Depth : \A j \in 1..Depth : stack[i].name = stack[j].name => i = j
    /\ \A i \in 1..(Depth - 1) : stack[i + 1].name \in Deps(stack[i].name)
    /\ visiting = {stack[i].name : i \in 1..Depth}
    /\ visiting \cap done = {}

(* What a frame has looked at.                                             *)
LookedAt ==
    \A i \in 1..Depth : \A d \in Deps(stack[i].name) \ stack[i].deps :
        d \in done \/ (i < Depth /\ d = stack[i + 1].name)

NoCircle == \A S \in SUBSET done : S # {} => \E n \in S : Deps(n) \cap S = {}

(* What is done.                                                           *)
DoneInv ==
    /\ ordered \in Seq(Actions)
    /\ done = Built
    /\ Topological
    /\ NoCircle

(* The phases of the executor.                                             *)
PhaseInv ==
    /\ executed \in Nat
    /\ executed <= Len(ordered)
    /\ \A i \in 1..executed : ordered[i] \in fresh
    /\ dpc \in {"ordering", "cycle"} => executed = 0
    /\ dpc = "cycle" => Cyclic
    /\ dpc = "executing" => done = Actions

DataformInv == StackInv /\ LookedAt /\ DoneInv /\ PhaseInv

-----------------------------------------------------------------------------
(* What is done is closed: its dependencies are done.                      *)
LEMMA DoneIsClosed ==
    ASSUME DoneInv, NEW n \in done
    PROVE  Deps(n) \subseteq done
<1>1. PICK i \in DOMAIN ordered : ordered[i] = n
  BY DEF DoneInv, Built
<1>2. Deps(ordered[i]) \subseteq {ordered[j] : j \in 1..(i - 1)}
  BY DEF DoneInv, Topological
<1>3. 1..(i - 1) \subseteq DOMAIN ordered
  BY DEF DoneInv
<1>4. QED
  BY <1>1, <1>2, <1>3 DEF DoneInv, Built

(* A sequence without its last element.                                    *)
LEMMA ButLast ==
    ASSUME NEW T, NEW s \in Seq(T), s # <<>>
    PROVE  /\ Len(s) \in Nat \ {0}
           /\ s[Len(s)] \in T
           /\ SubSeq(s, 1, Len(s) - 1) \in Seq(T)
           /\ Len(SubSeq(s, 1, Len(s) - 1)) = Len(s) - 1
           /\ \A i \in 1..(Len(s) - 1) : SubSeq(s, 1, Len(s) - 1)[i] = s[i]
<1>1. Len(s) \in Nat \ {0}
  OBVIOUS
<1>2. \A i \in 1..Len(s) : s[i] \in T
  OBVIOUS
<1>3. \A i \in 1..(Len(s) - 1) : i \in 1..Len(s)
  BY <1>1
<1>4. Len(s) - 1 \in Int /\ 1 \in Int /\ \A i \in 1..(Len(s) - 1) : s[i] \in T
  BY <1>1, <1>2, <1>3
<1> DEFINE front == SubSeq(s, 1, Len(s) - 1)
<1>5. /\ front \in Seq(T)
      /\ Len(front) = IF 1 <= Len(s) - 1 THEN Len(s) - 1 - 1 + 1 ELSE 0
      /\ \A i \in 1..(Len(s) - 1 - 1 + 1) : front[i] = s[1 + i - 1]
  BY <1>4, SubSeqProperties
<1> HIDE DEF front
<1>6. Len(front) = Len(s) - 1 /\ \A i \in 1..(Len(s) - 1) : front[i] = s[i]
  <2>1. Len(front) = Len(s) - 1
    <3> DEFINE n == Len(s)
    <3>0. n \in Nat /\ n >= 1
      BY <1>1
    <3> HIDE DEF n
    <3>1. n - 1 - 1 + 1 = n - 1 /\ (1 <= n - 1 \/ n - 1 = 0)
      BY <3>0
    <3>2. Len(front) = IF 1 <= n - 1 THEN n - 1 - 1 + 1 ELSE 0
      BY <1>5 DEF n
    <3>3. Len(front) = n - 1
      BY <3>1, <3>2
    <3>4. QED
      BY <3>3 DEF n
  <2>2. ASSUME NEW i \in 1..(Len(s) - 1)
        PROVE  front[i] = s[i]
    <3>1. i \in 1..(Len(s) - 1 - 1 + 1) /\ 1 + i - 1 = i
      BY <1>1
    <3>2. front[i] = s[1 + i - 1]
      BY <1>5, <3>1
    <3>3. QED
      BY <3>1, <3>2
  <2>3. QED
    BY <2>1, <2>2
<1>7. QED
  BY <1>1, <1>2, <1>5, <1>6 DEF front

(* The name of a frame is an action's.                                     *)
LEMMA NamesAreActions ==
    ASSUME stack \in Seq(Frame)
    PROVE  \A i \in 1..Depth : stack[i].name \in Actions
<1>1. \A i \in 1..Depth : stack[i] \in Frame
  BY DEF Depth
<1>2. QED
  BY <1>1 DEF Frame

(* The frames below the top.                                               *)
LEMMA BelowFacts ==
    ASSUME NEW T, stack \in Seq(T), stack # <<>>
    PROVE  /\ Depth \in Nat \ {0}
           /\ Top \in T /\ Top = stack[Depth]
           /\ Below \in Seq(T) /\ Len(Below) = Depth - 1
           /\ \A i \in 1..(Depth - 1) : Below[i] = stack[i]
  BY ButLast DEF Top, Below, Depth

(* A dependency taken off the top frame.                                   *)
LEMMA LookFacts ==
    ASSUME NEW d, stack \in Seq(Frame), stack # <<>>,
           NEW frames, frames = Append(Below, [Top EXCEPT !.deps = @ \ {d}])
    PROVE  /\ frames \in Seq(Frame) /\ Len(frames) = Depth
           /\ \A i \in 1..Depth : frames[i].name = stack[i].name
           /\ \A i \in 1..(Depth - 1) : frames[i] = stack[i]
           /\ frames[Depth].deps = Top.deps \ {d}
<1>1. /\ Depth \in Nat \ {0} /\ Top \in Frame /\ Top = stack[Depth]
      /\ Below \in Seq(Frame) /\ Len(Below) = Depth - 1
      /\ \A i \in 1..(Depth - 1) : Below[i] = stack[i]
  BY BelowFacts
<1>2. DEFINE top == [Top EXCEPT !.deps = @ \ {d}]
<1>3. top \in Frame /\ top.name = Top.name /\ top.deps = Top.deps \ {d}
  BY <1>1 DEF Frame
<1>4. HIDE DEF top
<1>5. frames = Append(Below, top)
  BY DEF top
<1>6. /\ frames \in Seq(Frame) /\ Len(frames) = Depth
      /\ \A i \in 1..(Depth - 1) : frames[i] = stack[i]
      /\ frames[Depth] = top
  BY <1>1, <1>3, <1>5
<1>7. QED
  BY <1>1, <1>3, <1>6

-----------------------------------------------------------------------------
(* The steps of the search.                                                *)

LEMMA RootStep ==
    ASSUME DataformInv, NEW n \in Actions, VisitRoot(n)
    PROVE  DataformInv'
<1>1. stack = <<>> /\ n \notin done /\ n \in Actions /\ dpc = "ordering"
  BY DEF VisitRoot
<1>2. /\ stack' = Append(<<>>, [name |-> n, deps |-> graph[n].deps])
      /\ visiting' = visiting \cup {n}
  BY DEF VisitRoot, Enter
<1>3. UNCHANGED <<graph, done, ordered, executed, fresh, dpc>>
  BY DEF VisitRoot
<1>4. visiting = {}
  BY <1>1 DEF DataformInv, StackInv, Depth
<1>5. [name |-> n, deps |-> graph[n].deps] \in Frame
  BY <1>1 DEF Frame, AllDeps
<1>6. /\ stack' \in Seq(Frame) /\ Len(stack') = 1
      /\ stack'[1] = [name |-> n, deps |-> graph[n].deps]
  BY <1>2, <1>5
<1>7. Frame' = Frame /\ Actions' = Actions /\ \A m : Deps(m)' = Deps(m)
  BY <1>3 DEF Frame, AllDeps, Actions, Deps
<1>8. StackInv'
  BY <1>1, <1>2, <1>3, <1>4, <1>6, <1>7 DEF StackInv, Depth
<1>9. LookedAt'
  BY <1>3, <1>6, <1>7 DEF LookedAt, Depth, Deps
<1>10. DoneInv' /\ PhaseInv'
  BY <1>1, <1>3 DEF DataformInv, DoneInv, PhaseInv, Built, Topological, NoCircle, Cyclic, Deps, Actions
<1>11. QED
  BY <1>8, <1>9, <1>10 DEF DataformInv

LEMMA DependencyStep ==
    ASSUME DataformInv, NEW d, VisitDependency(d)
    PROVE  DataformInv'
<1> DEFINE frames == Append(Below, [Top EXCEPT !.deps = @ \ {d}])
<1>1. dpc = "ordering" /\ stack # <<>> /\ d \in Top.deps
  BY DEF VisitDependency
<1>2. UNCHANGED <<graph, done, ordered, executed, fresh>>
  BY DEF VisitDependency
<1>3. stack \in Seq(Frame)
  BY DEF DataformInv, StackInv
<1>4. /\ frames \in Seq(Frame) /\ Len(frames) = Depth
      /\ \A i \in 1..Depth : frames[i].name = stack[i].name
      /\ \A i \in 1..(Depth - 1) : frames[i] = stack[i]
      /\ frames[Depth].deps = Top.deps \ {d}
  BY <1>1, <1>3, LookFacts
<1>5. Depth \in Nat \ {0} /\ Top = stack[Depth] /\ Top \in Frame
  BY <1>1, <1>3, BelowFacts
<1>6. Frame' = Frame /\ Actions' = Actions /\ \A m : Deps(m)' = Deps(m)
  BY <1>2 DEF Frame, AllDeps, Actions, Deps
<1>7. DoneInv'
  BY <1>2 DEF DataformInv, DoneInv, Built, Topological, NoCircle, Deps, Actions
<1>8. d \in Actions => d \in Deps(Top.name)
  BY <1>1, <1>5 DEF DataformInv, StackInv, Deps
<1>9. \/ Skips(d) /\ stack' = frames /\ UNCHANGED <<visiting, dpc>>
      \/ ~Skips(d) /\ d \notin visiting /\ Enter(frames, d) /\ UNCHANGED dpc
      \/ ~Skips(d) /\ d \in visiting /\ dpc' = "cycle" /\ UNCHANGED <<stack, visiting>>
  BY DEF VisitDependency
<1> HIDE DEF frames
<1>10. CASE Skips(d) /\ stack' = frames /\ UNCHANGED <<visiting, dpc>>
  <2>1. Depth' = Depth
    BY <1>4, <1>10 DEF Depth
  <2>2. \A i \in 1..Depth : stack'[i].deps \subseteq stack[i].deps
    BY <1>4, <1>5, <1>10
  <2>3. StackInv'
    BY <1>2, <1>4, <1>5, <1>6, <1>10, <2>1, <2>2 DEF DataformInv, StackInv
  <2>4. LookedAt'
    <3>1. SUFFICES ASSUME NEW i \in 1..Depth, NEW e \in Deps(stack[i].name) \ stack'[i].deps
                   PROVE  e \in done \/ (i < Depth /\ e = stack'[i + 1].name)
      BY <1>2, <1>4, <1>6, <1>10, <2>1 DEF LookedAt
    <3>2. CASE i < Depth
      <4>1. i \in 1..(Depth - 1) /\ i + 1 \in 1..Depth
        BY <1>5, <3>2
      <4>2. stack'[i] = stack[i] /\ stack'[i + 1].name = stack[i + 1].name
        BY <1>4, <1>10, <4>1
      <4>3. QED
        BY <3>1, <4>2 DEF DataformInv, LookedAt
    <3>3. CASE i = Depth
      <4>1. CASE e = d
        BY <1>10, <3>1, <4>1 DEF Skips, Deps
      <4>2. CASE e # d
        BY <1>4, <1>5, <1>10, <3>1, <3>3, <4>2 DEF DataformInv, LookedAt
      <4>3. QED
        BY <4>1, <4>2
    <3>4. QED
      BY <1>5, <3>2, <3>3
  <2>5. PhaseInv'
    BY <1>1, <1>2, <1>10 DEF DataformInv, PhaseInv
  <2>6. QED
    BY <1>7, <2>3, <2>4, <2>5 DEF DataformInv
<1>11. CASE ~Skips(d) /\ d \notin visiting /\ Enter(frames, d) /\ UNCHANGED dpc
  <2>1. /\ stack' = Append(frames, [name |-> d, deps |-> graph[d].deps])
        /\ visiting' = visiting \cup {d}
    BY <1>11 DEF Enter
  <2>2. d \in Actions /\ d \notin done
    BY <1>11 DEF Skips
  <2>3. [name |-> d, deps |-> graph[d].deps] \in Frame
    BY <2>2 DEF Frame, AllDeps
  <2>4. /\ stack' \in Seq(Frame) /\ Depth' = Depth + 1
        /\ \A i \in 1..Depth : stack'[i] = frames[i]
        /\ stack'[Depth + 1] = [name |-> d, deps |-> graph[d].deps]
    BY <1>4, <1>5, <2>1, <2>3 DEF Depth
  <2>5. \A i \in 1..Depth : stack'[i].name = stack[i].name /\ stack'[i].deps \subseteq stack[i].deps
    BY <1>4, <1>5, <2>4
  <2>6. stack'[Depth + 1].name = d /\ stack'[Depth + 1].deps = graph[d].deps
    BY <2>4
  <2>7. StackInv'
    <3>1. \A i \in 1..(Depth + 1) : stack'[i].deps \subseteq graph[stack'[i].name].deps
      <4>1. \A i \in 1..Depth : stack[i].deps \subseteq graph[stack[i].name].deps
        BY DEF DataformInv, StackInv
      <4>2. \A i \in 1..(Depth + 1) : i \in 1..Depth \/ i = Depth + 1
        BY <1>5
      <4>3. \A i \in 1..Depth : stack'[i].deps \subseteq graph[stack'[i].name].deps
        BY <2>5, <4>1
      <4>4. QED
        BY <2>6, <4>2, <4>3
    <3>2. \A i \in 1..(Depth + 1) : \A j \in 1..(Depth + 1) :
              stack'[i].name = stack'[j].name => i = j
      <4>1. \A i \in 1..Depth : stack[i].name # d
        BY <1>11 DEF DataformInv, StackInv
      <4>2. QED
        BY <1>5, <2>5, <2>6, <4>1 DEF DataformInv, StackInv
    <3>3. \A i \in 1..Depth : stack'[i + 1].name \in Deps(stack'[i].name)
      <4>1. \A i \in 1..(Depth - 1) : stack[i + 1].name \in Deps(stack[i].name)
        BY DEF DataformInv, StackInv
      <4>2. d \in Deps(stack[Depth].name)
        BY <1>5, <1>8, <2>2
      <4>3. QED
        BY <1>5, <2>5, <2>6, <4>1, <4>2
    <3>4. visiting' = {stack'[i].name : i \in 1..(Depth + 1)}
      <4>1. visiting = {stack[i].name : i \in 1..Depth}
        BY DEF DataformInv, StackInv
      <4>2. 1..(Depth + 1) = 1..Depth \cup {Depth + 1}
        BY <1>5
      <4>3. {stack'[i].name : i \in 1..Depth} = visiting
        BY <2>5, <4>1
      <4>4. {stack'[i].name : i \in 1..(Depth + 1)} = {stack'[i].name : i \in 1..Depth} \cup {d}
        BY <2>6, <4>2
      <4>5. QED
        BY <2>1, <4>3, <4>4
    <3>5. visiting' \cap done' = {}
      BY <1>2, <2>1, <2>2 DEF DataformInv, StackInv
    <3>6. Depth + 1 - 1 = Depth
      BY <1>5
    <3>7. /\ stack' \in Seq(Frame')
          /\ \A i \in 1..Depth' : stack'[i].deps \subseteq graph'[stack'[i].name].deps
          /\ \A i \in 1..Depth' : \A j \in 1..Depth' : stack'[i].name = stack'[j].name => i = j
      BY <1>2, <1>6, <2>4, <3>1, <3>2
    <3>8. \A i \in 1..(Depth' - 1) : (stack[i + 1].name \in Deps(stack[i].name))'
      <4>1. 1..(Depth' - 1) = 1..Depth
        <5>1. Depth' - 1 = Depth
          BY <1>5, <2>4
        <5>2. QED
          BY <5>1
      <4>2. \A i \in 1..Depth : (stack[i + 1].name \in Deps(stack[i].name))'
        BY <1>2, <3>3 DEF Deps, Actions
      <4>3. QED
        BY <4>1, <4>2
    <3>9. visiting' = {stack'[i].name : i \in 1..Depth'}
      BY <2>4, <3>4
    <3>10. QED
      BY <3>5, <3>7, <3>8, <3>9 DEF StackInv
  <2>8. LookedAt'
    <3>1. SUFFICES ASSUME NEW i \in 1..(Depth + 1), NEW e \in Deps(stack'[i].name) \ stack'[i].deps
                   PROVE  e \in done \/ (i < Depth + 1 /\ e = stack'[i + 1].name)
      BY <1>2, <1>6, <2>4 DEF LookedAt
    <3>2. CASE i < Depth
      <4>1. i \in 1..(Depth - 1) /\ i \in 1..Depth /\ i + 1 \in 1..Depth
        BY <1>5, <3>2
      <4>2. stack'[i] = stack[i] /\ stack'[i + 1].name = stack[i + 1].name
        BY <1>4, <2>4, <4>1
      <4>3. QED
        BY <1>5, <3>1, <3>2, <4>1, <4>2 DEF DataformInv, LookedAt
    <3>3. CASE i = Depth
      <4>1. CASE e = d
        BY <1>5, <2>6, <3>3, <4>1
      <4>2. CASE e # d
        <5>1. e \in Deps(stack[Depth].name) \ stack[Depth].deps
          BY <1>4, <1>5, <2>4, <2>5, <3>1, <3>3, <4>2
        <5>2. QED
          BY <1>5, <5>1 DEF DataformInv, LookedAt
      <4>3. QED
        BY <4>1, <4>2
    <3>4. CASE i = Depth + 1
      BY <2>6, <3>1, <3>4 DEF Deps
    <3>5. QED
      BY <1>5, <3>2, <3>3, <3>4
  <2>9. PhaseInv'
    BY <1>1, <1>2, <1>11 DEF DataformInv, PhaseInv
  <2>10. QED
    BY <1>7, <2>7, <2>8, <2>9 DEF DataformInv
<1>12. CASE ~Skips(d) /\ d \in visiting /\ dpc' = "cycle" /\ UNCHANGED <<stack, visiting>>
  <2>1. PICK k \in 1..Depth : stack[k].name = d
    BY <1>12 DEF DataformInv, StackInv
  <2>2. DEFINE S == {stack[i].name : i \in k..Depth}
  <2>3. \A i \in k..Depth : i \in 1..Depth
    BY <1>5, <2>1
  <2>4. S \subseteq Actions
    BY <1>3, <2>3, NamesAreActions
  <2>5. d \in S /\ stack[Depth].name \in S
    BY <1>5, <2>1
  <2>6. ASSUME NEW i \in k..Depth
        PROVE  Deps(stack[i].name) \cap S # {}
    <3>1. CASE i = Depth
      BY <1>5, <1>8, <1>12, <2>5, <3>1 DEF Skips
    <3>2. CASE i # Depth
      <4>1. i \in 1..(Depth - 1) /\ i + 1 \in k..Depth
        BY <1>5, <2>1, <3>2
      <4>2. stack[i + 1].name \in Deps(stack[i].name)
        BY <4>1 DEF DataformInv, StackInv
      <4>3. QED
        BY <4>1, <4>2
    <3>3. QED
      BY <3>1, <3>2
  <2>7. \A n \in S : Deps(n) \cap S # {}
    BY <2>6
  <2>8. Cyclic
    BY <2>4, <2>5, <2>7 DEF Cyclic
  <2>9. Cyclic'
    BY <1>6, <2>8 DEF Cyclic
  <2>10. PhaseInv'
    BY <1>1, <1>2, <1>12, <2>9 DEF DataformInv, PhaseInv
  <2>11. StackInv' /\ LookedAt'
    BY <1>2, <1>6, <1>12 DEF DataformInv, StackInv, LookedAt, Depth
  <2>12. QED
    BY <1>7, <2>10, <2>11 DEF DataformInv
<1>13. QED
  BY <1>9, <1>10, <1>11, <1>12

LEMMA LeaveStep ==
    ASSUME DataformInv, LeaveVisit
    PROVE  DataformInv'
<1> DEFINE n == Top.name
<1>1. dpc = "ordering" /\ stack # <<>> /\ Top.deps = {}
  BY DEF LeaveVisit
<1>2. /\ stack' = Below /\ visiting' = visiting \ {n} /\ done' = done \cup {n}
      /\ ordered' = Append(ordered, n)
  BY DEF LeaveVisit
<1>3. UNCHANGED <<graph, executed, fresh, dpc>>
  BY DEF LeaveVisit
<1>4. stack \in Seq(Frame)
  BY DEF DataformInv, StackInv
<1>5. /\ Depth \in Nat \ {0} /\ Top \in Frame /\ Top = stack[Depth]
      /\ Below \in Seq(Frame) /\ Len(Below) = Depth - 1
      /\ \A i \in 1..(Depth - 1) : Below[i] = stack[i]
  BY <1>1, <1>4, BelowFacts
<1>6. Frame' = Frame /\ Actions' = Actions /\ \A m : Deps(m)' = Deps(m)
  BY <1>3 DEF Frame, AllDeps, Actions, Deps
<1>7. n \in Actions /\ n \in visiting /\ n \notin done
  BY <1>5 DEF Frame, DataformInv, StackInv
<1>8. Depth' = Depth - 1 /\ \A i \in 1..(Depth - 1) : stack'[i] = stack[i]
  BY <1>2, <1>5 DEF Depth
<1>9. Deps(n) \subseteq done
  BY <1>1, <1>5 DEF DataformInv, LookedAt
<1> HIDE DEF n
<1>10. StackInv'
  <2>1. \A i \in 1..(Depth - 1) : stack[i].name # n
    BY <1>5 DEF n, DataformInv, StackInv
  <2>2. visiting' = {stack[i].name : i \in 1..(Depth - 1)}
    <3>1. visiting = {stack[i].name : i \in 1..Depth}
      BY DEF DataformInv, StackInv
    <3>2. 1..Depth = 1..(Depth - 1) \cup {Depth} /\ stack[Depth].name = n
      BY <1>5 DEF n
    <3>3. QED
      BY <1>2, <2>1, <3>1, <3>2
  <2>3. visiting' \cap done' = {}
    BY <1>2 DEF DataformInv, StackInv
  <2>4. \A i \in 1..(Depth - 1) : i \in 1..Depth
    BY <1>5
  <2>5. \A i \in 1..(Depth - 1 - 1) : i \in 1..(Depth - 1) /\ i + 1 \in 1..(Depth - 1)
    BY <1>5
  <2>6. stack' \in Seq(Frame)
    BY <1>2, <1>5
  <2>7. \A i \in 1..(Depth - 1) : stack'[i].deps \subseteq graph[stack'[i].name].deps
    BY <1>8, <2>4 DEF DataformInv, StackInv
  <2>8. \A i \in 1..(Depth - 1) : \A j \in 1..(Depth - 1) :
            stack'[i].name = stack'[j].name => i = j
    BY <1>8, <2>4 DEF DataformInv, StackInv
  <2>9. \A i \in 1..(Depth - 1 - 1) : stack'[i + 1].name \in Deps(stack'[i].name)
    BY <1>8, <2>5 DEF DataformInv, StackInv
  <2>10. visiting' = {stack'[i].name : i \in 1..(Depth - 1)}
    BY <1>8, <2>2
  <2>11. QED
    BY <1>3, <1>6, <1>8, <2>3, <2>6, <2>7, <2>8, <2>9, <2>10 DEF StackInv
<1>11. LookedAt'
  <2>1. SUFFICES ASSUME NEW i \in 1..(Depth - 1), NEW e \in Deps(stack[i].name) \ stack[i].deps
                 PROVE  e \in done' \/ (i < Depth - 1 /\ e = stack[i + 1].name)
    <3>1. \A i \in 1..(Depth - 1) : i < Depth - 1 => i + 1 \in 1..(Depth - 1)
      BY <1>5
    <3>2. QED
      BY <1>6, <1>8, <2>1, <3>1 DEF LookedAt
  <2>2. i \in 1..Depth /\ (i < Depth - 1 \/ i + 1 = Depth)
    BY <1>5
  <2>3. e \in done \/ e = stack[i + 1].name
    BY <2>1, <2>2 DEF DataformInv, LookedAt
  <2>4. QED
    BY <1>2, <1>5, <2>2, <2>3 DEF n
<1>12. DoneInv'
  <2>1. ordered \in Seq(Actions) /\ done = Built /\ Topological /\ NoCircle
    BY DEF DataformInv, DoneInv
  <2>2. /\ ordered' \in Seq(Actions) /\ Len(ordered') = Len(ordered) + 1
        /\ \A i \in 1..Len(ordered) : ordered'[i] = ordered[i]
        /\ ordered'[Len(ordered) + 1] = n
    BY <1>2, <1>7, <2>1
  <2>3. Len(ordered) \in Nat /\ DOMAIN ordered = 1..Len(ordered) /\ DOMAIN ordered' = 1..(Len(ordered) + 1)
    BY <2>1, <2>2
  <2>4. 1..(Len(ordered) + 1) = 1..Len(ordered) \cup {Len(ordered) + 1}
    BY <2>3
  <2>5. done' = {ordered'[i] : i \in DOMAIN ordered'}
    BY <1>2, <2>1, <2>2, <2>3, <2>4 DEF Built
  <2>6. Topological'
    <3>1. SUFFICES ASSUME NEW i \in 1..(Len(ordered) + 1)
                   PROVE  /\ Deps(ordered'[i]) \subseteq {ordered'[j] : j \in 1..(i - 1)}
                          /\ \A j \in 1..(Len(ordered) + 1) : ordered'[i] = ordered'[j] => i = j
      BY <1>6, <2>3 DEF Topological
    <3>2. \A j \in 1..Len(ordered) : ordered[j] # n
      BY <1>7, <2>1, <2>3 DEF Built
    <3>3. CASE i \in 1..Len(ordered)
      <4>1. Deps(ordered[i]) \subseteq {ordered[j] : j \in 1..(i - 1)}
        BY <2>1, <2>3, <3>3 DEF Topological
      <4>2. \A j \in 1..(i - 1) : j \in 1..Len(ordered)
        BY <2>3, <3>3
      <4>3. {ordered[j] : j \in 1..(i - 1)} = {ordered'[j] : j \in 1..(i - 1)}
        BY <2>2, <4>2
      <4>4. \A j \in 1..Len(ordered) : ordered[i] = ordered[j] => i = j
        BY <2>1, <2>3, <3>3 DEF Topological
      <4>5. QED
        BY <2>2, <2>4, <3>2, <3>3, <4>1, <4>3, <4>4
    <3>4. CASE i = Len(ordered) + 1
      <4>1. Len(ordered) + 1 - 1 = Len(ordered)
        BY <2>3
      <4>2. Deps(n) \subseteq {ordered'[j] : j \in 1..Len(ordered)}
        BY <1>9, <2>1, <2>2, <2>3 DEF Built
      <4>3. QED
        BY <2>2, <2>4, <3>2, <3>4, <4>1, <4>2
    <3>5. QED
      BY <2>4, <3>3, <3>4
  <2>7. NoCircle'
    <3>1. SUFFICES ASSUME NEW S, S \subseteq done \cup {n}, S # {}
                   PROVE  \E m \in S : Deps(m) \cap S = {}
      BY <1>2, <1>6 DEF NoCircle
    <3>2. CASE S = {n}
      BY <1>7, <1>9, <3>2
    <3>3. CASE S # {n}
      <4>1. S \ {n} # {} /\ S \ {n} \subseteq done
        BY <3>1, <3>3
      <4>2. PICK m \in S \ {n} : Deps(m) \cap (S \ {n}) = {}
        BY <2>1, <4>1 DEF NoCircle
      <4>3. Deps(m) \subseteq done
        BY <4>1, <4>2, DoneIsClosed DEF DataformInv
      <4>4. QED
        BY <1>7, <4>2, <4>3
    <3>4. QED
      BY <3>2, <3>3
  <2>8. QED
    BY <1>6, <2>2, <2>5, <2>6, <2>7 DEF DoneInv, Built
<1>13. PhaseInv'
  <2>1. executed = 0 /\ Len(ordered') \in Nat
    <3>1. ordered' \in Seq(Actions)
      BY <1>2, <1>7 DEF DataformInv, DoneInv
    <3>2. QED
      BY <1>1, <3>1 DEF DataformInv, PhaseInv
  <2>2. QED
    BY <1>1, <1>3, <2>1 DEF PhaseInv
<1>14. QED
  BY <1>10, <1>11, <1>12, <1>13 DEF DataformInv

-----------------------------------------------------------------------------
(* The other steps.                                                        *)

(* A process starts with no frames and nothing done.                       *)
LEMMA NothingDone ==
    ASSUME stack = <<>>, visiting = {}, done = {}, ordered = <<>>, executed = 0,
           dpc \notin {"cycle", "executing"}
    PROVE  DataformInv
<1>1. stack \in Seq(Frame) /\ ordered \in Seq(Actions)
  OBVIOUS
<1>2. Depth = 0 /\ Len(ordered) = 0 /\ DOMAIN ordered = 1..0
  BY DEF Depth
<1>3. StackInv /\ LookedAt
  BY <1>1, <1>2 DEF StackInv, LookedAt
<1>4. DoneInv
  BY <1>1, <1>2 DEF DoneInv, Built, Topological, NoCircle
<1>5. PhaseInv
  BY <1>2 DEF PhaseInv
<1>6. QED
  BY <1>3, <1>4, <1>5 DEF DataformInv

LEMMA QuietStep ==
    ASSUME DataformInv, UNCHANGED <<graph, stack, visiting, done, ordered>>, PhaseInv'
    PROVE  DataformInv'
<1>1. Actions' = Actions /\ Frame' = Frame /\ Depth' = Depth
  BY DEF Actions, Frame, AllDeps, Depth
<1>2. \A m : Deps(m)' = Deps(m)
  BY DEF Deps, Actions
<1>3. StackInv' /\ LookedAt'
  BY <1>1, <1>2 DEF DataformInv, StackInv, LookedAt
<1>4. DoneInv'
  BY DEF DataformInv, DoneInv, Built, Topological, NoCircle, Deps, Actions
<1>5. QED
  BY <1>3, <1>4 DEF DataformInv

LEMMA ExecuteStep ==
    ASSUME DataformInv, ExecuteNext
    PROVE  DataformInv'
<1> DEFINE n == ordered[executed + 1]
<1>1. /\ dpc = "executing" /\ executed < Len(ordered) /\ executed' = executed + 1
      /\ fresh' = IF Deps(n) \subseteq fresh THEN fresh \cup {n} ELSE fresh \ {n}
      /\ UNCHANGED <<graph, stack, visiting, done, ordered, dpc>>
  BY DEF ExecuteNext
<1>2. executed \in Nat /\ Len(ordered) \in Nat /\ DOMAIN ordered = 1..Len(ordered)
  BY DEF DataformInv, PhaseInv, DoneInv
<1>3. executed + 1 \in DOMAIN ordered /\ executed + 1 - 1 = executed
  BY <1>1, <1>2
<1>4. \A m \in Deps(n) : \E j \in 1..executed : m = ordered[j]
  <2>1. \A i \in DOMAIN ordered : \A m \in Deps(ordered[i]) : \E j \in 1..(i - 1) : m = ordered[j]
    BY DEF DataformInv, DoneInv, Topological
  <2>2. 1..((executed + 1) - 1) = 1..executed
    BY <1>2
  <2>3. \A m \in Deps(ordered[executed + 1]) : \E j \in 1..((executed + 1) - 1) : m = ordered[j]
    BY <1>3, <2>1
  <2>4. QED
    BY <2>2, <2>3
<1>5. Deps(n) \subseteq fresh
  BY <1>4 DEF DataformInv, PhaseInv
<1>6. \A i \in 1..(executed + 1) : ordered[i] \in fresh'
  <2>1. 1..(executed + 1) = 1..executed \cup {executed + 1}
    BY <1>2
  <2>2. QED
    BY <1>1, <1>5, <2>1 DEF DataformInv, PhaseInv
<1>7. Actions' = Actions
  BY <1>1 DEF Actions
<1>8. PhaseInv'
  BY <1>1, <1>2, <1>6, <1>7 DEF DataformInv, PhaseInv
<1>9. QED
  BY <1>1, <1>8, QuietStep

LEMMA DataformInvInit == DataformInit => DataformInv
  BY NothingDone DEF DataformInit

LEMMA DataformInvStep == DataformInv /\ [DataformNext]_dformVars => DataformInv'
<1> SUFFICES ASSUME DataformInv, [DataformNext]_dformVars
             PROVE  DataformInv'
  OBVIOUS
<1>1. CASE Compile
  <2>1. /\ stack' = <<>> /\ visiting' = {} /\ done' = {} /\ ordered' = <<>> /\ executed' = 0
        /\ dpc' \notin {"cycle", "executing"}
    BY <1>1 DEF Compile
  <2>2. QED
    <3>1. (stack = <<>> /\ visiting = {} /\ done = {} /\ ordered = <<>> /\ executed = 0
           /\ dpc \notin {"cycle", "executing"})' => DataformInv'
      BY NothingDone, PTL
    <3>2. QED
      BY <2>1, <3>1
<1>2. CASE \E n \in Actions : VisitRoot(n)
  BY <1>2, RootStep
<1>3. CASE \E d \in UNION {graph[n].deps : n \in Actions} : VisitDependency(d)
  BY <1>3, DependencyStep
<1>4. CASE LeaveVisit
  BY <1>4, LeaveStep
<1>5. CASE EndOrdering
  <2>1. /\ dpc' = "executing" /\ done = Actions
        /\ UNCHANGED <<graph, stack, visiting, done, ordered, executed, fresh>>
    BY <1>5 DEF EndOrdering
  <2>2. PhaseInv'
    BY <2>1 DEF DataformInv, PhaseInv, Actions
  <2>3. QED
    BY <2>1, <2>2, QuietStep
<1>6. CASE ExecuteNext
  BY <1>6, ExecuteStep
<1>7. CASE ExecuteFails
  <2>1. dpc' = "failed" /\ UNCHANGED <<graph, stack, visiting, done, ordered, executed, fresh>>
    BY <1>7 DEF ExecuteFails
  <2>2. PhaseInv'
    BY <2>1 DEF DataformInv, PhaseInv
  <2>3. QED
    BY <2>1, <2>2, QuietStep
<1>8. CASE EndExecution
  <2>1. /\ dpc = "executing" /\ dpc' = "finished" /\ graph' = NoGraph
        /\ visiting' = {} /\ done' = {} /\ ordered' = <<>> /\ executed' = 0 /\ stack' = stack
    BY <1>8 DEF EndExecution
  <2>2. stack = <<>>
    <3>1. stack \in Seq(Frame) /\ visiting = {stack[i].name : i \in 1..Depth}
          /\ visiting \cap done = {} /\ done = Actions
      BY <2>1 DEF DataformInv, StackInv, PhaseInv
    <3>2. \A i \in 1..Depth : stack[i].name \in Actions
      BY <3>1, NamesAreActions
    <3>3. Depth \in Nat /\ 1..Depth = {}
      BY <3>1, <3>2 DEF Depth
    <3>4. QED
      BY <3>1, <3>3 DEF Depth
  <2>3. (stack = <<>> /\ visiting = {} /\ done = {} /\ ordered = <<>> /\ executed = 0
         /\ dpc \notin {"cycle", "executing"})' => DataformInv'
    BY NothingDone, PTL
  <2>4. QED
    BY <2>1, <2>2, <2>3
<1>9. CASE UNCHANGED dformVars
  <2>1. UNCHANGED <<graph, stack, visiting, done, ordered, executed, fresh, dpc>>
    BY <1>9 DEF dformVars
  <2>2. PhaseInv'
    BY <2>1 DEF DataformInv, PhaseInv, Cyclic, Deps, Actions
  <2>3. QED
    BY <2>1, <2>2, QuietStep
<1>10. QED
  BY <1>1, <1>2, <1>3, <1>4, <1>5, <1>6, <1>7, <1>8, <1>9 DEF DataformNext

LEMMA DataformInvImplies == DataformInv => BuiltInOrder
<1> SUFFICES ASSUME DataformInv PROVE BuiltInOrder
  OBVIOUS
<1>1. dpc = "executing" => ~Cyclic /\ {ordered[i] : i \in DOMAIN ordered} = Actions
  <2>1. SUFFICES ASSUME dpc = "executing" PROVE ~Cyclic /\ Built = Actions
    BY DEF Built
  <2>2. done = Actions /\ Built = done /\ NoCircle
    BY <2>1 DEF DataformInv, PhaseInv, DoneInv
  <2>3. QED
    BY <2>2 DEF NoCircle, Cyclic
<1>2. QED
  BY <1>1 DEF DataformInv, DoneInv, PhaseInv, BuiltInOrder

(* For every project, whatever its tables depend on and in whatever order  *)
(* the compiler lists them, order_actions either raises about a circle     *)
(* that is there or gives every table once, after what it reads, and the   *)
(* executor builds each from tables of this run.                           *)
THEOREM DataformBuiltInOrder == DataformSpec => []BuiltInOrder
<1>1. DataformSpec => []DataformInv
  BY DataformInvInit, DataformInvStep, PTL DEF DataformSpec
<1>2. QED
  BY <1>1, DataformInvImplies, PTL
=============================================================================
