---------------------------- MODULE RootRunProofs ---------------------------
(***************************************************************************)
(* Proofs that root plans are in order and that runs respect them, for any *)
(* tasks and any configurations.                                           *)
(***************************************************************************)
EXTENDS RootRun, TLAPS

CallOf == [op : {"collect", "finish"}, task : Tasks, from : Tasks \cup {NoTask}]

(***************************************************************************)
(* The dependencies of t in a configuration c, direct and all of them.     *)
(***************************************************************************)
Direct(c, t) == ToSet(c.dependsOn[t])

Below(c, t) ==
  {u \in Tasks : \A S \in SUBSET Tasks :
     Direct(c, t) \subseteq S /\ (\A s \in S : Direct(c, s) \subseteq S) => u \in S}

Reached(c) == {Target} \cup Below(c, Target)

\* A root task depends on root tasks only.
Allowed(c, t, u) == t \in c.root => u \in c.root

Earlier(plan, i) == {plan[j] : j \in 1 .. i - 1}

-----------------------------------------------------------------------------

PlanTypes ==
  /\ IsConfiguration(conf)
  /\ pc \in {"collect", "planned", "cycle", "invalid"}
  /\ stack \in Seq(CallOf)
  /\ visiting \subseteq Tasks /\ completed \subseteq Tasks /\ visiting \cap completed = {}
  /\ rootPlan \in Seq(Tasks)

(***************************************************************************)
(* The tasks being visited are those with a finish call, one each; what is *)
(* above it on the stack is below the task, and what the task waits for is *)
(* above it or completed.                                                  *)
(***************************************************************************)
StackShape ==
  /\ \A t \in visiting : \E k \in DOMAIN stack : stack[k].op = "finish" /\ stack[k].task = t
  /\ \A k \in DOMAIN stack : stack[k].op = "finish" => stack[k].task \in visiting
  /\ \A j, k \in DOMAIN stack :
       stack[j].op = "finish" /\ stack[k].op = "finish" /\ stack[j].task = stack[k].task => j = k
  /\ \A j, k \in DOMAIN stack :
       j < k /\ stack[k].op = "finish" => stack[j].task \in Below(conf, stack[k].task)

StackWaits ==
  \A k \in DOMAIN stack : stack[k].op = "finish" =>
    \A u \in Direct(conf, stack[k].task) :
      \/ u \in completed /\ Allowed(conf, stack[k].task, u)
      \/ \E j \in DOMAIN stack :
           /\ j < k /\ stack[j].task = u
           /\ IF stack[j].op = "finish" THEN Allowed(conf, stack[k].task, u)
              ELSE stack[j].from = stack[k].task

CompletedClosed ==
  \A t \in completed : \A u \in Direct(conf, t) : u \in completed /\ Allowed(conf, t, u)

PlanFromTarget ==
  /\ ToSet(rootPlan) = completed \cap conf.root
  /\ completed \subseteq Reached(conf)
  /\ \A k \in DOMAIN stack : stack[k].task \in Reached(conf)
  /\ stack # <<>> \/ completed # {} =>
       Target \in completed \/ \E k \in DOMAIN stack : stack[k].task = Target

PlanOrdered ==
  \A i \in DOMAIN rootPlan :
    LET t == rootPlan[i]
    IN  /\ t \notin Earlier(rootPlan, i)
        /\ Direct(conf, t) \subseteq Earlier(rootPlan, i)
        /\ conf.references[t] \cup ({conf.condition[t]} \ {NoTask})
             \subseteq Earlier(rootPlan, i) \cap conf.produces \cap Below(conf, t)

PlanEnds ==
  /\ pc = "planned" => stack = <<>>
  /\ pc = "cycle" => stack # <<>> /\ stack[1].task \in Below(conf, stack[1].task)

PlanInv ==
  /\ PlanTypes /\ StackShape /\ StackWaits /\ CompletedClosed
  /\ PlanFromTarget /\ PlanOrdered /\ PlanEnds

-----------------------------------------------------------------------------

(***************************************************************************)
(* Facts about dependencies                                                *)
(***************************************************************************)
LEMMA SameDependencies ==
  /\ \A t : DependsOn(t) = Direct(conf, t)
  /\ \A t : TransitiveDependencies(t) = Below(conf, t)
BY DEF DependsOn, TransitiveDependencies, Direct, Below

LEMMA DirectAreTasks ==
  ASSUME NEW c, IsConfiguration(c), NEW t \in Tasks
  PROVE  Direct(c, t) \subseteq Tasks
<1>1. c.dependsOn[t] \in Seq(Tasks)
  BY DEF IsConfiguration
<1>. QED
  BY <1>1 DEF Direct, ToSet

LEMMA DirectAreBelow ==
  ASSUME NEW c, IsConfiguration(c), NEW t \in Tasks
  PROVE  Direct(c, t) \subseteq Below(c, t)
BY DirectAreTasks DEF Below

LEMMA BelowIsClosed ==
  ASSUME NEW c, IsConfiguration(c), NEW t \in Tasks, NEW u \in Below(c, t)
  PROVE  u \in Tasks /\ Direct(c, u) \subseteq Below(c, t)
<1>1. u \in Tasks
  BY DEF Below
<1>2. Direct(c, u) \subseteq Tasks
  BY <1>1, DirectAreTasks
<1>3. ASSUME NEW v \in Direct(c, u), NEW S \in SUBSET Tasks,
             Direct(c, t) \subseteq S, \A s \in S : Direct(c, s) \subseteq S
      PROVE  v \in S
  <2>1. u \in S
    BY <1>3 DEF Below
  <2>. QED
    BY <1>3, <2>1
<1>. QED
  BY <1>1, <1>2, <1>3 DEF Below

(***************************************************************************)
(* A set with the direct dependencies of t, and with those of whatever is  *)
(* in it, has all that t depends on.                                       *)
(***************************************************************************)
LEMMA BelowIsLeast ==
  ASSUME NEW c, NEW t, NEW S \in SUBSET Tasks,
         Direct(c, t) \subseteq S, \A s \in S : Direct(c, s) \subseteq S
  PROVE  Below(c, t) \subseteq S
BY DEF Below

LEMMA ReachedIsClosed ==
  ASSUME NEW c, IsConfiguration(c), NEW t \in Reached(c)
  PROVE  t \in Tasks /\ Direct(c, t) \subseteq Reached(c)
<1>1. t \in Tasks
  BY TasksAssumption DEF Reached, Below
<1>2. CASE t = Target
  BY <1>1, <1>2, DirectAreBelow DEF Reached
<1>3. CASE t \in Below(c, Target)
  BY <1>1, <1>3, BelowIsClosed, TasksAssumption DEF Reached
<1>. QED
  BY <1>1, <1>2, <1>3 DEF Reached

(***************************************************************************)
(* What is where when the head of b gives way to a and x.                  *)
(***************************************************************************)
Entered(a, x, b) == a \o <<x>> \o Tail(b)

Joins(S, a, x, b, new) ==
  /\ new \in Seq(S) /\ Len(new) = Len(a) + Len(b)
  /\ \A i \in 1 .. Len(a) : new[i] = a[i]
  /\ new[Len(a) + 1] = x
  /\ \A k \in 2 .. Len(b) : new[Len(a) + k] = b[k]

LEMMA EnteredJoins ==
  ASSUME NEW S, NEW a \in Seq(S), NEW x \in S, NEW b \in Seq(S), b # <<>>
  PROVE  Joins(S, a, x, b, Entered(a, x, b))
<1>. DEFINE front == a \o <<x>>
            new   == front \o Tail(b)
<1>1. /\ front \in Seq(S) /\ Len(front) = Len(a) + 1
      /\ \A i \in 1 .. Len(a) : front[i] = a[i]
      /\ front[Len(a) + 1] = x
  OBVIOUS
<1>2. /\ Tail(b) \in Seq(S) /\ Len(Tail(b)) = Len(b) - 1 /\ Len(b) >= 1
      /\ \A k \in 1 .. Len(b) - 1 : Tail(b)[k] = b[k + 1]
  OBVIOUS
<1>. HIDE DEF front
<1>3. new \in Seq(S) /\ Len(new) = Len(a) + Len(b)
  BY <1>1, <1>2
<1>4. \A i \in 1 .. Len(a) + 1 : new[i] = front[i]
  BY <1>1, <1>2
<1>5. ASSUME NEW k \in 2 .. Len(b) PROVE new[Len(a) + k] = b[k]
  <2>1. Len(a) + k = Len(front) + (k - 1) /\ k - 1 \in 1 .. Len(b) - 1
    BY <1>1
  <2>2. new[Len(front) + (k - 1)] = Tail(b)[k - 1]
    BY <1>1, <1>2, <2>1
  <2>. QED
    BY <1>2, <2>1, <2>2
<1>6. new = Entered(a, x, b)
  BY DEF front, Entered
<1>. HIDE DEF new
<1>. QED
  BY <1>1, <1>3, <1>4, <1>5, <1>6 DEF Joins

(***************************************************************************)
(* The stack after a task was entered.                                     *)
(***************************************************************************)
LEMMA EnteredStack ==
  ASSUME PlanTypes, stack # <<>>, NEW t \in Tasks,
         stack' = [i \in DOMAIN conf.dependsOn[t] |-> CollectCall(conf.dependsOn[t][i], t)]
                    \o <<FinishCall(t)>> \o Tail(stack)
  PROVE  \E n \in Nat :
           /\ stack' \in Seq(CallOf) /\ Len(stack') = n + Len(stack)
           /\ DOMAIN conf.dependsOn[t] = 1 .. n
           /\ \A i \in 1 .. n : stack'[i] = CollectCall(conf.dependsOn[t][i], t)
           /\ stack'[n + 1] = FinishCall(t)
           /\ \A k \in 2 .. Len(stack) : stack'[n + k] = stack[k]
<1>. DEFINE on    == conf.dependsOn[t]
            calls == [i \in DOMAIN on |-> CollectCall(on[i], t)]
            S     == CallOf
            b     == stack
            x     == FinishCall(t)
<1>1. on \in Seq(Tasks)
  BY DEF PlanTypes, IsConfiguration
<1>2. stack' = calls \o <<x>> \o Tail(b)
  OBVIOUS
<1>3. b \in Seq(S) /\ b # <<>> /\ x \in S
  BY DEF PlanTypes, FinishCall, CallOf
<1>. HIDE DEF on, b
<1>4. /\ Len(on) \in Nat /\ DOMAIN on = 1 .. Len(on)
      /\ \A i \in 1 .. Len(on) : on[i] \in Tasks
  BY <1>1
<1>5. \A i \in 1 .. Len(on) : CollectCall(on[i], t) \in S
  BY <1>4 DEF CollectCall, CallOf
<1>. HIDE DEF S, x
<1>6. /\ calls \in Seq(S) /\ Len(calls) = Len(on)
      /\ \A i \in 1 .. Len(on) : calls[i] = CollectCall(on[i], t)
  BY <1>4, <1>5
<1>. HIDE DEF calls
<1>7. /\ stack' \in Seq(S) /\ Len(stack') = Len(calls) + Len(b)
      /\ \A i \in 1 .. Len(calls) : stack'[i] = calls[i]
      /\ stack'[Len(calls) + 1] = x
      /\ \A k \in 2 .. Len(b) : stack'[Len(calls) + k] = b[k]
  <2>1. Joins(S, calls, x, b, Entered(calls, x, b))
    BY <1>3, <1>6, EnteredJoins
  <2>2. stack' = Entered(calls, x, b)
    BY <1>2 DEF Entered
  <2>. QED
    BY <2>1, <2>2 DEF Joins
<1>8. /\ stack' \in Seq(S) /\ Len(stack') = Len(on) + Len(b)
      /\ \A i \in 1 .. Len(on) : stack'[i] = CollectCall(on[i], t)
      /\ stack'[Len(on) + 1] = x
      /\ \A k \in 2 .. Len(b) : stack'[Len(on) + k] = b[k]
  BY <1>4, <1>6, <1>7
<1>. QED
  BY <1>4, <1>8 DEF on, b, S, x


-----------------------------------------------------------------------------

(***************************************************************************)
(* Planning keeps the invariant.                                           *)
(***************************************************************************)
LEMMA PlanInit == Init => PlanInv
<1>. SUFFICES ASSUME Init PROVE PlanInv
  OBVIOUS
<1>1. /\ stack = <<[op |-> "collect", task |-> Target, from |-> NoTask]>>
      /\ DOMAIN stack = {1} /\ visiting = {} /\ completed = {} /\ rootPlan = <<>>
  BY DEF Init, CollectCall
<1>2. stack \in Seq(CallOf)
  BY <1>1, TasksAssumption DEF CallOf
<1>3. PlanTypes
  BY <1>1, <1>2, ConfigurationsAssumption DEF PlanTypes, Init
<1>4. StackShape /\ StackWaits /\ CompletedClosed /\ PlanOrdered
  BY <1>1 DEF StackShape, StackWaits, CompletedClosed, PlanOrdered
<1>5. PlanFromTarget
  BY <1>1 DEF PlanFromTarget, Reached, ToSet
<1>6. PlanEnds
  BY DEF Init, PlanEnds
<1>. QED
  BY <1>3, <1>4, <1>5, <1>6 DEF PlanInv

LEMMA CollectCompletedKeeps == PlanInv /\ CollectCompleted => PlanInv'
<1>. SUFFICES ASSUME PlanInv, CollectCompleted PROVE PlanInv'
  OBVIOUS
<1>1. /\ stack # <<>> /\ stack \in Seq(CallOf) /\ stack[1].op = "collect"
      /\ stack[1].task \in completed
      /\ DependencyValid(stack[1].from, stack[1].task)
      /\ stack' = Tail(stack) /\ pc = "collect"
      /\ UNCHANGED <<conf, pc, visiting, completed, rootPlan>>
  BY DEF PlanInv, PlanTypes, CollectCompleted, Top
<1>2. /\ Len(stack) \in Nat /\ Len(stack) >= 1 /\ DOMAIN stack = 1 .. Len(stack)
      /\ stack' \in Seq(CallOf) /\ DOMAIN stack' = 1 .. Len(stack) - 1
      /\ \A k \in 1 .. Len(stack) - 1 : stack'[k] = stack[k + 1]
  BY <1>1
<1>3. \A k \in DOMAIN stack : stack[k] \in CallOf
  BY <1>1
<1>4. PlanTypes'
  BY <1>1, <1>2 DEF PlanInv, PlanTypes
<1>5. StackShape'
  <2>1. ASSUME NEW t \in visiting
        PROVE  \E k \in DOMAIN stack' : stack'[k].op = "finish" /\ stack'[k].task = t
    <3>1. PICK k \in DOMAIN stack : stack[k].op = "finish" /\ stack[k].task = t
      BY DEF PlanInv, StackShape
    <3>2. k - 1 \in DOMAIN stack' /\ stack'[k - 1] = stack[k]
      BY <1>1, <1>2, <3>1
    <3>. QED
      BY <3>1, <3>2
  <2>2. \A k \in DOMAIN stack' : k + 1 \in DOMAIN stack /\ stack'[k] = stack[k + 1]
    BY <1>2
  <2>. QED
    BY <1>1, <1>2, <2>1, <2>2 DEF PlanInv, StackShape
<1>6. StackWaits'
  <2>. SUFFICES ASSUME NEW k \in DOMAIN stack', stack'[k].op = "finish",
                       NEW u \in Direct(conf, stack'[k].task)
                PROVE  \/ u \in completed /\ Allowed(conf, stack'[k].task, u)
                       \/ \E j \in DOMAIN stack' :
                            /\ j < k /\ stack'[j].task = u
                            /\ IF stack'[j].op = "finish" THEN Allowed(conf, stack'[k].task, u)
                               ELSE stack'[j].from = stack'[k].task
    BY <1>1 DEF StackWaits
  <2>1. k + 1 \in DOMAIN stack /\ stack'[k] = stack[k + 1]
    BY <1>2
  <2>2. CASE \E j \in DOMAIN stack :
               /\ j < k + 1 /\ stack[j].task = u
               /\ IF stack[j].op = "finish" THEN Allowed(conf, stack[k + 1].task, u)
                  ELSE stack[j].from = stack[k + 1].task
    <3>1. PICK j \in DOMAIN stack :
               /\ j < k + 1 /\ stack[j].task = u
               /\ IF stack[j].op = "finish" THEN Allowed(conf, stack[k + 1].task, u)
                  ELSE stack[j].from = stack[k + 1].task
      BY <2>2
    <3>2. CASE j = 1
      <4>1. stack[k + 1].task \in Tasks /\ stack[k + 1].task # NoTask
        BY <1>3, <2>1, TasksAssumption DEF CallOf
      <4>. QED
        BY <1>1, <2>1, <3>1, <3>2, <4>1 DEF DependencyValid, Allowed
    <3>3. CASE j # 1
      <4>1. j - 1 \in DOMAIN stack' /\ stack'[j - 1] = stack[j] /\ j - 1 < k
        BY <1>2, <3>1, <3>3
      <4>. QED
        BY <2>1, <3>1, <4>1
    <3>. QED
      BY <3>2, <3>3
  <2>. QED
    BY <2>1, <2>2 DEF PlanInv, StackWaits
<1>7. CompletedClosed' /\ PlanOrdered' /\ PlanEnds'
  BY <1>1 DEF PlanInv, CompletedClosed, PlanOrdered, PlanEnds
<1>8. PlanFromTarget'
  <2>1. \A k \in DOMAIN stack' : k + 1 \in DOMAIN stack /\ stack'[k] = stack[k + 1]
    BY <1>2
  <2>2. ASSUME Target \notin completed
        PROVE  \E k \in DOMAIN stack' : stack'[k].task = Target
    <3>1. PICK k \in DOMAIN stack : stack[k].task = Target
      BY <1>1, <2>2 DEF PlanInv, PlanFromTarget
    <3>2. k # 1
      BY <1>1, <2>2, <3>1
    <3>3. k - 1 \in DOMAIN stack' /\ stack'[k - 1] = stack[k]
      BY <1>2, <3>1, <3>2
    <3>. QED
      BY <3>1, <3>3
  <2>. QED
    BY <1>1, <2>1, <2>2 DEF PlanInv, PlanFromTarget
<1>. QED
  BY <1>4, <1>5, <1>6, <1>7, <1>8 DEF PlanInv

LEMMA CollectTaskKeeps == PlanInv /\ CollectTask => PlanInv'
<1>. SUFFICES ASSUME PlanInv, CollectTask PROVE PlanInv'
  OBVIOUS
<1>. DEFINE t == stack[1].task
<1>0. stack # <<>> /\ stack \in Seq(CallOf) /\ Head(stack) = stack[1]
  <2>1. stack # <<>> /\ stack \in Seq(CallOf)
    BY DEF PlanInv, PlanTypes, CollectTask, Top
  <2>. QED
    BY <2>1
<1>1. /\ stack # <<>> /\ stack \in Seq(CallOf) /\ stack[1].op = "collect"
      /\ DependencyValid(stack[1].from, t) /\ t \notin visiting \cup completed
      /\ visiting' = visiting \cup {t} /\ pc = "collect"
      /\ UNCHANGED <<conf, pc, completed, rootPlan>>
  BY <1>0 DEF CollectTask, Top
<1>2. stack' = [i \in DOMAIN conf.dependsOn[t] |-> CollectCall(conf.dependsOn[t][i], t)]
                 \o <<FinishCall(t)>> \o Tail(stack)
  BY <1>0 DEF CollectTask
<1>3. /\ Len(stack) \in Nat /\ Len(stack) >= 1 /\ DOMAIN stack = 1 .. Len(stack)
      /\ \A k \in DOMAIN stack : stack[k].task \in Tasks
      /\ t \in Tasks
  <2>1. Len(stack) \in Nat /\ Len(stack) >= 1 /\ DOMAIN stack = 1 .. Len(stack)
    BY <1>1
  <2>2. \A k \in DOMAIN stack : stack[k] \in CallOf
    BY <1>1
  <2>. QED
    BY <2>1, <2>2 DEF CallOf
<1>4. PICK n \in Nat :
        /\ stack' \in Seq(CallOf) /\ Len(stack') = n + Len(stack)
        /\ DOMAIN conf.dependsOn[t] = 1 .. n
        /\ \A i \in 1 .. n : stack'[i] = CollectCall(conf.dependsOn[t][i], t)
        /\ stack'[n + 1] = FinishCall(t)
        /\ \A k \in 2 .. Len(stack) : stack'[n + k] = stack[k]
  BY <1>1, <1>2, <1>3, EnteredStack DEF PlanInv
<1>5. /\ DOMAIN stack' = 1 .. n + Len(stack)
      /\ n + 1 \in DOMAIN stack'
      /\ \A k \in 2 .. Len(stack) : n + k \in DOMAIN stack'
  BY <1>3, <1>4
\* The direct dependencies are on top, then t itself, then what was below it.
<1>6. \A u \in Direct(conf, t) : \E i \in 1 .. n : conf.dependsOn[t][i] = u
  BY <1>4 DEF Direct, ToSet
<1>7. \A i \in 1 .. n : /\ i \in DOMAIN stack' /\ stack'[i].op = "collect"
                       /\ stack'[i].task = conf.dependsOn[t][i] /\ stack'[i].from = t
                       /\ stack'[i].task \in Direct(conf, t)
  <2>1. \A i \in 1 .. n : i \in DOMAIN stack'
    BY <1>3, <1>5
  <2>2. \A i \in 1 .. n : conf.dependsOn[t][i] \in Direct(conf, t)
    BY <1>4 DEF Direct, ToSet
  <2>. SUFFICES ASSUME NEW i \in 1 .. n
                PROVE  /\ i \in DOMAIN stack' /\ stack'[i].op = "collect"
                       /\ stack'[i].task = conf.dependsOn[t][i] /\ stack'[i].from = t
                       /\ stack'[i].task \in Direct(conf, t)
    OBVIOUS
  <2>. DEFINE u == conf.dependsOn[t][i]
  <2>3. u \in Direct(conf, t)
    BY <2>2
  <2>4. stack'[i] = CollectCall(u, t)
    BY <1>4
  <2>. HIDE DEF t, u
  <2>5. stack'[i] = [op |-> "collect", task |-> u, from |-> t]
    BY <2>4 DEF CollectCall
  <2>6. stack'[i].op = "collect" /\ stack'[i].task = u /\ stack'[i].from = t
    BY <2>5
  <2>. QED
    BY <2>1, <2>3, <2>6 DEF u
<1>8. stack'[n + 1].op = "finish" /\ stack'[n + 1].task = t
  BY <1>4 DEF FinishCall
<1>9. \A m \in DOMAIN stack' :
         \/ m \in 1 .. n
         \/ m = n + 1
         \/ \E k \in 2 .. Len(stack) : m = n + k /\ stack'[m] = stack[k]
  <2>. SUFFICES ASSUME NEW m \in DOMAIN stack', m \notin 1 .. n, m # n + 1
                PROVE  m - n \in 2 .. Len(stack) /\ m = n + (m - n)
    BY <1>4
  <2>. QED
    BY <1>3, <1>5
<1>10. PlanTypes'
  BY <1>1, <1>3, <1>4 DEF PlanInv, PlanTypes
<1>11. StackShape'
  <2>1. ASSUME NEW v \in visiting'
        PROVE  \E k \in DOMAIN stack' : stack'[k].op = "finish" /\ stack'[k].task = v
    <3>1. CASE v = t
      BY <1>5, <1>8, <3>1
    <3>2. CASE v \in visiting
      <4>1. PICK k \in DOMAIN stack : stack[k].op = "finish" /\ stack[k].task = v
        BY <3>2 DEF PlanInv, StackShape
      <4>2. k \in 2 .. Len(stack)
        BY <1>1, <1>3, <4>1
      <4>. QED
        BY <1>4, <1>5, <4>1, <4>2
    <3>. QED
      BY <1>1, <3>1, <3>2
  <2>2. \A m \in DOMAIN stack' : stack'[m].op = "finish" =>
          \/ m = n + 1
          \/ \E k \in 2 .. Len(stack) : /\ m = n + k /\ stack'[m] = stack[k] /\ k \in DOMAIN stack
                                      /\ stack[k].task \in visiting
    BY <1>3, <1>7, <1>9 DEF PlanInv, StackShape
  <2>3. \A k \in DOMAIN stack' : stack'[k].op = "finish" => stack'[k].task \in visiting'
    BY <1>1, <1>8, <2>2
  <2>4. \A j, k \in DOMAIN stack' :
          stack'[j].op = "finish" /\ stack'[k].op = "finish" /\ stack'[j].task = stack'[k].task => j = k
    BY <1>1, <1>8, <2>2 DEF PlanInv, StackShape
  <2>5. ASSUME NEW j \in DOMAIN stack', NEW m \in DOMAIN stack', j < m, stack'[m].op = "finish"
        PROVE  stack'[j].task \in Below(conf, stack'[m].task)
    <3>0. IsConfiguration(conf)
      BY DEF PlanInv, PlanTypes
    <3>1. CASE m = n + 1
      <4>1. j \in 1 .. n
        BY <1>5, <2>5, <3>1
      <4>. QED
        BY <1>3, <1>7, <1>8, <3>0, <3>1, <4>1, DirectAreBelow
    <3>2. CASE m # n + 1
      <4>1. PICK k \in 2 .. Len(stack) : /\ m = n + k /\ stack'[m] = stack[k] /\ k \in DOMAIN stack
        BY <2>2, <2>5, <3>2
      <4>2. 1 \in DOMAIN stack /\ 1 < k
        BY <1>3, <4>1
      <4>3. t \in Below(conf, stack[k].task) /\ stack[k].task \in Tasks
        BY <1>3, <2>5, <4>1, <4>2 DEF PlanInv, StackShape
      <4>4. Direct(conf, t) \subseteq Below(conf, stack[k].task)
        BY <3>0, <4>3, BelowIsClosed
      <4>5. CASE j \in 1 .. n
        BY <1>7, <4>1, <4>4, <4>5
      <4>6. CASE j = n + 1
        BY <1>8, <4>1, <4>3, <4>6
      <4>7. ASSUME NEW i \in 2 .. Len(stack), j = n + i, stack'[j] = stack[i]
            PROVE  stack'[j].task \in Below(conf, stack'[m].task)
        <5>1. i \in DOMAIN stack /\ i < k
          BY <1>3, <2>5, <4>1, <4>7
        <5>. QED
          BY <2>5, <4>1, <4>7, <5>1 DEF PlanInv, StackShape
      <4>. QED
        BY <1>9, <4>5, <4>6, <4>7
    <3>. QED
      BY <3>1, <3>2
  <2>. QED
    BY <1>1, <2>1, <2>3, <2>4, <2>5 DEF StackShape
<1>12. StackWaits'
  <2>. SUFFICES ASSUME NEW m \in DOMAIN stack', stack'[m].op = "finish",
                       NEW u \in Direct(conf, stack'[m].task)
                PROVE  \/ u \in completed /\ Allowed(conf, stack'[m].task, u)
                       \/ \E j \in DOMAIN stack' :
                            /\ j < m /\ stack'[j].task = u
                            /\ IF stack'[j].op = "finish" THEN Allowed(conf, stack'[m].task, u)
                               ELSE stack'[j].from = stack'[m].task
    BY <1>1 DEF StackWaits
  <2>1. CASE m = n + 1
    <3>1. PICK i \in 1 .. n : conf.dependsOn[t][i] = u
      BY <1>6, <1>8, <2>1
    <3>. QED
      BY <1>7, <1>8, <2>1, <3>1
  <2>2. CASE m # n + 1
    <3>1. PICK k \in 2 .. Len(stack) : m = n + k /\ stack'[m] = stack[k]
      BY <1>7, <1>9, <2>2
    <3>2. k \in DOMAIN stack
      BY <1>3
    <3>3. ASSUME NEW j \in DOMAIN stack, j < k, stack[j].task = u,
                 IF stack[j].op = "finish" THEN Allowed(conf, stack[k].task, u)
                 ELSE stack[j].from = stack[k].task
          PROVE  \E i \in DOMAIN stack' :
                   /\ i < m /\ stack'[i].task = u
                   /\ IF stack'[i].op = "finish" THEN Allowed(conf, stack'[m].task, u)
                      ELSE stack'[i].from = stack'[m].task
      <4>1. CASE j = 1
        <5>1. stack[k].task # NoTask
          BY <1>3, <3>2, TasksAssumption
        <5>2. Allowed(conf, stack[k].task, u)
          BY <1>1, <3>3, <4>1, <5>1 DEF DependencyValid, Allowed
        <5>3. n + 1 < m
          BY <1>3, <3>1
        <5>. QED
          BY <1>5, <1>8, <3>1, <3>3, <4>1, <5>2, <5>3
      <4>2. CASE j # 1
        <5>1. j \in 2 .. Len(stack) /\ n + j < m
          BY <1>3, <3>1, <3>3, <4>2
        <5>2. n + j \in DOMAIN stack' /\ stack'[n + j] = stack[j]
          BY <1>4, <1>5, <5>1
        <5>. QED
          BY <3>1, <3>3, <5>1, <5>2
      <4>. QED
        BY <4>1, <4>2
    <3>. QED
      BY <3>1, <3>2, <3>3 DEF PlanInv, StackWaits
  <2>. QED
    BY <2>1, <2>2
<1>13. CompletedClosed' /\ PlanOrdered' /\ PlanEnds'
  BY <1>1 DEF PlanInv, CompletedClosed, PlanOrdered, PlanEnds
<1>14. PlanFromTarget'
  <2>0. IsConfiguration(conf)
    BY DEF PlanInv, PlanTypes
  <2>1. t \in Reached(conf)
    BY <1>3 DEF PlanInv, PlanFromTarget
  <2>2. Direct(conf, t) \subseteq Reached(conf)
    BY <2>0, <2>1, ReachedIsClosed
  <2>3. ASSUME NEW m \in DOMAIN stack' PROVE stack'[m].task \in Reached(conf)
    <3>1. ASSUME NEW k \in 2 .. Len(stack), stack'[m] = stack[k] PROVE stack'[m].task \in Reached(conf)
      BY <1>3, <3>1 DEF PlanInv, PlanFromTarget
    <3>. QED
      BY <1>7, <1>8, <1>9, <2>1, <2>2, <3>1
  <2>4. ASSUME Target \notin completed
        PROVE  \E k \in DOMAIN stack' : stack'[k].task = Target
    <3>1. PICK k \in DOMAIN stack : stack[k].task = Target
      BY <1>1, <2>4 DEF PlanInv, PlanFromTarget
    <3>2. CASE k = 1
      BY <1>5, <1>8, <3>1, <3>2
    <3>3. CASE k # 1
      <4>1. k \in 2 .. Len(stack)
        BY <1>3, <3>3
      <4>. QED
        BY <1>4, <1>5, <3>1, <4>1
    <3>. QED
      BY <3>2, <3>3
  <2>. QED
    BY <1>1, <2>3, <2>4 DEF PlanInv, PlanFromTarget
<1>. QED
  BY <1>10, <1>11, <1>12, <1>13, <1>14 DEF PlanInv

LEMMA FinishTaskKeeps == PlanInv /\ FinishTask => PlanInv'
<1>. SUFFICES ASSUME PlanInv, FinishTask PROVE PlanInv'
  OBVIOUS
<1>. DEFINE t == stack[1].task
<1>0. stack # <<>> /\ stack \in Seq(CallOf) /\ Head(stack) = stack[1]
  <2>1. stack # <<>> /\ stack \in Seq(CallOf)
    BY DEF PlanInv, PlanTypes, FinishTask, Top
  <2>. QED
    BY <2>1
<1>1. /\ stack[1].op = "finish" /\ pc = "collect" /\ ExitValid(t)
      /\ visiting' = visiting \ {t} /\ completed' = completed \cup {t}
      /\ rootPlan' = IF t \in conf.root THEN Append(rootPlan, t) ELSE rootPlan
      /\ stack' = Tail(stack) /\ conf' = conf /\ pc' = pc
  BY <1>0 DEF FinishTask, Top
<1>2. /\ Len(stack) \in Nat /\ Len(stack) >= 1 /\ DOMAIN stack = 1 .. Len(stack) /\ 1 \in DOMAIN stack
      /\ stack' \in Seq(CallOf) /\ DOMAIN stack' = 1 .. Len(stack) - 1
      /\ \A k \in 1 .. Len(stack) - 1 : stack'[k] = stack[k + 1]
  BY <1>0, <1>1
<1>3. t \in Tasks
  <2>1. stack[1] \in CallOf
    BY <1>0, <1>2
  <2>. QED
    BY <2>1 DEF CallOf
<1>4. \A k \in DOMAIN stack' : k + 1 \in DOMAIN stack /\ stack'[k] = stack[k + 1]
  BY <1>2
<1>5. t \in visiting /\ t \notin completed
  BY <1>1, <1>2 DEF PlanInv, PlanTypes, StackShape
<1>. HIDE DEF t
<1>6. \A u \in Direct(conf, t) : u \in completed /\ Allowed(conf, t, u)
  <2>1. ~ \E j \in DOMAIN stack : j < 1
    BY <1>2
  <2>. QED
    BY <1>1, <1>2, <2>1 DEF PlanInv, StackWaits, t
<1>7. PlanTypes'
  <2>1. rootPlan' \in Seq(Tasks)
    BY <1>1, <1>3 DEF PlanInv, PlanTypes
  <2>. QED
    BY <1>1, <1>2, <1>3, <2>1 DEF PlanInv, PlanTypes
<1>8. StackShape'
  <2>1. ASSUME NEW v \in visiting'
        PROVE  \E k \in DOMAIN stack' : stack'[k].op = "finish" /\ stack'[k].task = v
    <3>1. PICK k \in DOMAIN stack : stack[k].op = "finish" /\ stack[k].task = v
      BY <1>1, <2>1 DEF PlanInv, StackShape
    <3>2. k # 1
      BY <1>1, <2>1, <3>1 DEF t
    <3>3. k - 1 \in DOMAIN stack' /\ stack'[k - 1] = stack[k]
      BY <1>2, <3>1, <3>2
    <3>. QED
      BY <3>1, <3>3
  <2>2. ASSUME NEW k \in DOMAIN stack', stack'[k].op = "finish"
        PROVE  stack'[k].task \in visiting'
    <3>1. k + 1 \in DOMAIN stack /\ stack'[k] = stack[k + 1] /\ k + 1 # 1
      BY <1>2
    <3>2. stack[k + 1].task # t
      BY <1>1, <1>2, <2>2, <3>1 DEF PlanInv, StackShape, t
    <3>. QED
      BY <1>1, <2>2, <3>1, <3>2 DEF PlanInv, StackShape
  <2>3. \A j, k \in DOMAIN stack' :
          stack'[j].op = "finish" /\ stack'[k].op = "finish" /\ stack'[j].task = stack'[k].task => j = k
    BY <1>2, <1>4 DEF PlanInv, StackShape
  <2>4. \A j, k \in DOMAIN stack' :
          j < k /\ stack'[k].op = "finish" => stack'[j].task \in Below(conf, stack'[k].task)
    BY <1>2, <1>4 DEF PlanInv, StackShape
  <2>. QED
    BY <1>1, <2>1, <2>2, <2>3, <2>4 DEF StackShape
<1>9. StackWaits'
  <2>. SUFFICES ASSUME NEW k \in DOMAIN stack', stack'[k].op = "finish",
                       NEW u \in Direct(conf, stack'[k].task)
                PROVE  \/ u \in completed' /\ Allowed(conf, stack'[k].task, u)
                       \/ \E j \in DOMAIN stack' :
                            /\ j < k /\ stack'[j].task = u
                            /\ IF stack'[j].op = "finish" THEN Allowed(conf, stack'[k].task, u)
                               ELSE stack'[j].from = stack'[k].task
    BY <1>1 DEF StackWaits
  <2>1. k + 1 \in DOMAIN stack /\ stack'[k] = stack[k + 1]
    BY <1>2
  <2>2. ASSUME NEW j \in DOMAIN stack, j < k + 1, stack[j].task = u,
               IF stack[j].op = "finish" THEN Allowed(conf, stack[k + 1].task, u)
               ELSE stack[j].from = stack[k + 1].task
        PROVE  \/ u \in completed' /\ Allowed(conf, stack'[k].task, u)
               \/ \E i \in DOMAIN stack' :
                    /\ i < k /\ stack'[i].task = u
                    /\ IF stack'[i].op = "finish" THEN Allowed(conf, stack'[k].task, u)
                       ELSE stack'[i].from = stack'[k].task
    <3>1. CASE j = 1
      BY <1>1, <2>1, <2>2, <3>1 DEF t
    <3>2. CASE j # 1
      <4>1. j - 1 \in DOMAIN stack' /\ stack'[j - 1] = stack[j] /\ j - 1 < k
        BY <1>2, <2>2, <3>2
      <4>. QED
        BY <2>1, <2>2, <4>1
    <3>. QED
      BY <3>1, <3>2
  <2>. QED
    BY <1>1, <2>1, <2>2 DEF PlanInv, StackWaits
<1>10. CompletedClosed'
  BY <1>1, <1>6 DEF PlanInv, CompletedClosed
<1>11. t \in conf.root =>
         /\ Len(rootPlan) \in Nat /\ DOMAIN rootPlan = 1 .. Len(rootPlan)
         /\ DOMAIN rootPlan' = 1 .. Len(rootPlan) + 1
         /\ rootPlan'[Len(rootPlan) + 1] = t
         /\ \A i \in 1 .. Len(rootPlan) : rootPlan'[i] = rootPlan[i]
  BY <1>1, <1>3 DEF PlanInv, PlanTypes
<1>12. PlanFromTarget'
  <2>1. ToSet(rootPlan') = completed' \cap conf.root
    <3>1. CASE t \in conf.root
      <4>1. ToSet(rootPlan') = ToSet(rootPlan) \cup {t}
        BY <1>11, <3>1 DEF ToSet
      <4>. QED
        BY <1>1, <3>1, <4>1 DEF PlanInv, PlanFromTarget
    <3>2. CASE t \notin conf.root
      BY <1>1, <3>2 DEF PlanInv, PlanFromTarget
    <3>. QED
      BY <3>1, <3>2
  <2>2. completed' \subseteq Reached(conf)
    BY <1>1, <1>2 DEF PlanInv, PlanFromTarget, t
  <2>3. \A k \in DOMAIN stack' : stack'[k].task \in Reached(conf)
    BY <1>4 DEF PlanInv, PlanFromTarget
  <2>4. ASSUME Target \notin completed'
        PROVE  \E k \in DOMAIN stack' : stack'[k].task = Target
    <3>1. PICK k \in DOMAIN stack : stack[k].task = Target
      BY <1>0, <1>1, <2>4 DEF PlanInv, PlanFromTarget
    <3>2. k # 1
      BY <1>1, <2>4, <3>1 DEF t
    <3>3. k - 1 \in DOMAIN stack' /\ stack'[k - 1] = stack[k]
      BY <1>2, <3>1, <3>2
    <3>. QED
      BY <3>1, <3>3
  <2>. QED
    BY <1>1, <2>1, <2>2, <2>3, <2>4 DEF PlanFromTarget
<1>13. PlanOrdered'
  <2>1. CASE t \notin conf.root
    BY <1>1, <2>1 DEF PlanInv, PlanOrdered, Earlier
  <2>2. CASE t \in conf.root
    <3>. DEFINE n == Len(rootPlan)
    <3>1. \A i \in 1 .. n : Earlier(rootPlan', i) = Earlier(rootPlan, i)
      BY <1>11, <2>2 DEF Earlier
    <3>2. Earlier(rootPlan', n + 1) = completed \cap conf.root
      <4>1. Earlier(rootPlan', n + 1) = ToSet(rootPlan)
        BY <1>11, <2>2 DEF Earlier, ToSet
      <4>. QED
        BY <4>1 DEF PlanInv, PlanFromTarget
    <3>3. Direct(conf, t) \subseteq completed \cap conf.root
      BY <1>6, <2>2 DEF Allowed
    <3>4. Below(conf, t) \subseteq completed \cap conf.root
      <4>1. completed \cap conf.root \in SUBSET Tasks
        BY DEF PlanInv, PlanTypes
      <4>2. \A s \in completed \cap conf.root : Direct(conf, s) \subseteq completed \cap conf.root
        BY DEF PlanInv, CompletedClosed, Allowed
      <4>. QED
        BY <3>3, <4>1, <4>2, BelowIsLeast
    <3>5. conf.references[t] \cup ({conf.condition[t]} \ {NoTask})
            \subseteq completed \cap conf.root \cap conf.produces \cap Below(conf, t)
      <4>1. \A u \in conf.references[t] \cup ({conf.condition[t]} \ {NoTask}) :
               u \in Below(conf, t) /\ u \in conf.produces
        BY <1>1, <2>2, SameDependencies DEF ExitValid, ReferenceValid
      <4>. QED
        BY <3>4, <4>1
    <3>6. \A i \in DOMAIN rootPlan' : (i \in 1 .. n /\ i \in DOMAIN rootPlan) \/ i = n + 1
      BY <1>11, <2>2
    <3>. HIDE DEF n
    <3>7. ASSUME NEW i \in DOMAIN rootPlan'
          PROVE  LET v == rootPlan'[i]
                 IN  /\ v \notin Earlier(rootPlan', i)
                     /\ Direct(conf, v) \subseteq Earlier(rootPlan', i)
                     /\ conf.references[v] \cup ({conf.condition[v]} \ {NoTask})
                          \subseteq Earlier(rootPlan', i) \cap conf.produces \cap Below(conf, v)
      <4>1. CASE i = n + 1
        BY <1>5, <1>11, <2>2, <3>2, <3>3, <3>5, <4>1 DEF n
      <4>2. CASE i \in 1 .. n /\ i \in DOMAIN rootPlan
        <5>1. rootPlan'[i] = rootPlan[i] /\ Earlier(rootPlan', i) = Earlier(rootPlan, i)
          BY <1>11, <2>2, <3>1, <4>2 DEF n
        <5>. QED
          BY <4>2, <5>1 DEF PlanInv, PlanOrdered
      <4>. QED
        BY <3>6, <4>1, <4>2
    <3>. QED
      BY <1>1, <3>7 DEF PlanOrdered
  <2>. QED
    BY <2>1, <2>2
<1>14. PlanEnds'
  BY <1>1 DEF PlanEnds
<1>. QED
  BY <1>7, <1>8, <1>9, <1>10, <1>12, <1>13, <1>14 DEF PlanInv

LEMMA CollectKeeps == PlanInv /\ Collect => PlanInv'
<1>. SUFFICES ASSUME PlanInv, Collect PROVE PlanInv'
  OBVIOUS
<1>1. CASE CollectCycle
  <2>1. /\ pc' = "cycle" /\ stack # <<>> /\ stack \in Seq(CallOf) /\ Head(stack).op = "collect"
        /\ Head(stack).task \in visiting
        /\ UNCHANGED <<conf, stack, visiting, completed, rootPlan>>
    BY <1>1 DEF PlanInv, PlanTypes, CollectCycle, Fail, Top
  <2>2. Head(stack) = stack[1] /\ DOMAIN stack = 1 .. Len(stack) /\ Len(stack) \in Nat /\ 1 \in DOMAIN stack
    BY <2>1
  <2>3. PICK k \in DOMAIN stack : stack[k].op = "finish" /\ stack[k].task = stack[1].task
    BY <2>1, <2>2 DEF PlanInv, StackShape
  <2>4. 1 < k
    <3>1. k # 1
      BY <2>1, <2>2, <2>3
    <3>. QED
      BY <2>2, <3>1
  <2>5. stack[1].task \in Below(conf, stack[1].task)
    BY <2>2, <2>3, <2>4 DEF PlanInv, StackShape
  <2>. QED
    BY <2>1, <2>5 DEF PlanInv, PlanTypes, StackShape, StackWaits, CompletedClosed,
                      PlanFromTarget, PlanOrdered, PlanEnds
<1>2. CASE CollectInvalid \/ FinishInvalid \/ Planned
  <2>1. /\ pc' \in {"invalid", "planned"} /\ (pc' = "planned" => stack = <<>>)
        /\ UNCHANGED <<conf, stack, visiting, completed, rootPlan>>
    BY <1>2 DEF CollectInvalid, FinishInvalid, Planned, Fail
  <2>. QED
    BY <2>1 DEF PlanInv, PlanTypes, StackShape, StackWaits, CompletedClosed,
                PlanFromTarget, PlanOrdered, PlanEnds
<1>. QED
  BY <1>1, <1>2, CollectCompletedKeeps, CollectTaskKeeps, FinishTaskKeeps DEF Collect

LEMMA SkipRootPlanKeeps == PlanInv /\ SkipRootPlan => PlanInv'
<1>. SUFFICES ASSUME PlanInv, SkipRootPlan PROVE PlanInv'
  OBVIOUS
<1>1. /\ pc' = "planned" /\ stack' = <<>> /\ completed = {} /\ visiting = {}
      /\ UNCHANGED <<conf, visiting, completed, rootPlan>>
  BY DEF SkipRootPlan
<1>2. stack' \in Seq(CallOf) /\ DOMAIN stack' = {}
  BY <1>1
<1>. QED
  BY <1>1, <1>2 DEF PlanInv, PlanTypes, StackShape, StackWaits, CompletedClosed,
                    PlanFromTarget, PlanOrdered, PlanEnds

LEMMA PlanUnchanged == PlanInv /\ UNCHANGED vars => PlanInv'
BY DEF PlanInv, PlanTypes, StackShape, StackWaits, CompletedClosed,
       PlanFromTarget, PlanOrdered, PlanEnds, vars

(***************************************************************************)
(* What the invariant says of the whole plan.                              *)
(***************************************************************************)
LEMMA BeforeIsEarlier == PlanInv => \A i \in DOMAIN rootPlan : Before(i) = Earlier(rootPlan, i)
<1>. SUFFICES ASSUME PlanInv, NEW i \in DOMAIN rootPlan PROVE Before(i) = Earlier(rootPlan, i)
  OBVIOUS
<1>1. rootPlan \in Seq(Tasks)
  BY DEF PlanInv, PlanTypes
<1>2. /\ DOMAIN SubSeq(rootPlan, 1, i - 1) = 1 .. i - 1
      /\ \A j \in 1 .. i - 1 : SubSeq(rootPlan, 1, i - 1)[j] = rootPlan[j]
  BY <1>1
<1>. QED
  BY <1>2 DEF Before, Earlier, ToSet

LEMMA PlanFollows == PlanInv => PlanIsOrderedClosure
<1>. SUFFICES ASSUME PlanInv PROVE PlanIsOrderedClosure
  OBVIOUS
<1>1. \A i \in DOMAIN rootPlan :
        LET t == rootPlan[i]
        IN  /\ t \notin Before(i)
            /\ DependsOn(t) \subseteq Before(i)
            /\ conf.references[t] \cup ({conf.condition[t]} \ {NoTask})
                 \subseteq Before(i) \cap conf.produces
  BY BeforeIsEarlier, SameDependencies DEF PlanInv, PlanOrdered
<1>2. ASSUME pc = "planned", completed # {}
      PROVE  ToSet(rootPlan) = conf.root \cap ({Target} \cup TransitiveDependencies(Target))
  <2>1. Target \in completed
    <3>1. stack = <<>>
      BY <1>2 DEF PlanInv, PlanEnds
    <3>2. DOMAIN stack = {}
      BY <3>1
    <3>. QED
      BY <1>2, <3>2 DEF PlanInv, PlanFromTarget
  <2>2. Below(conf, Target) \subseteq completed
    <3>1. completed \in SUBSET Tasks /\ \A s \in completed : Direct(conf, s) \subseteq completed
      BY DEF PlanInv, PlanTypes, CompletedClosed
    <3>. QED
      BY <2>1, <3>1, BelowIsLeast
  <2>. QED
    BY <2>1, <2>2, SameDependencies DEF PlanInv, PlanFromTarget, Reached
<1>3. ASSUME pc = "cycle"
      PROVE  Head(stack).task \in TransitiveDependencies(Head(stack).task)
  <2>1. stack # <<>> /\ stack \in Seq(CallOf) /\ stack[1].task \in Below(conf, stack[1].task)
    BY <1>3 DEF PlanInv, PlanTypes, PlanEnds
  <2>2. Head(stack) = stack[1]
    BY <2>1
  <2>. QED
    BY <2>1, <2>2, SameDependencies
<1>. QED
  BY <1>1, <1>2, <1>3 DEF PlanIsOrderedClosure

-----------------------------------------------------------------------------

(***************************************************************************)
(* The run.  The tasks before the position are decided; one that completed *)
(* has all its dependencies completed, and so has the one at hand once it  *)
(* executes.  Planning is over by then, and nothing is reported before the *)
(* last task is decided.                                                   *)
(***************************************************************************)
Planning  == stage \in {"planning", "failed planning"}
Reporting == stage \in {"report", "failed: report", "done"}

Succeeded == {t \in DOMAIN outcomes : outcomes[t] = "completed"}

RunOrder ==
  /\ IF Planning THEN position = 1 ELSE pc = "planned"
  /\ position \in Nat \ {0}
  /\ stage = "execute" => Left
  /\ DOMAIN outcomes = Earlier(rootPlan, position)
  /\ Left \/ position = Len(rootPlan) + 1

RunOutcomes ==
  /\ \A t \in DOMAIN outcomes : outcomes[t] \in {"completed", "skipped"}
  /\ \A t \in Succeeded : Direct(conf, t) \subseteq Succeeded
  /\ stage = "execute" => Direct(conf, Current) \subseteq Succeeded
  /\ Succeeded \cap conf.produces \subseteq DOMAIN outputs
  /\ stage # "failed: missing output"

RunReport ==
  /\ ~ Reporting => report = "none" /\ reportFile = conf.reportFile
  /\ report # "none" /\ Target \in ToSet(rootPlan) => report = outcomes[Target]
  /\ reportFile \in {conf.reportFile, "absent", report}
  /\ stage = "done" => reportFile \in {"unwanted", report}

RunInv == PlanInv /\ RunOrder /\ RunOutcomes /\ RunReport

(***************************************************************************)
(* What a task depends on, however far, succeeded if its dependencies did. *)
(***************************************************************************)
LEMMA AllBelowSucceeded ==
  ASSUME RunInv, NEW t \in Tasks, Direct(conf, t) \subseteq Succeeded
  PROVE  Below(conf, t) \subseteq Succeeded
<1>1. rootPlan \in Seq(Tasks) /\ position \in Nat /\ position <= Len(rootPlan) + 1
  BY DEF RunInv, PlanInv, PlanTypes, RunOrder, Left
<1>2. Succeeded \in SUBSET Tasks
  BY <1>1 DEF Succeeded, RunInv, RunOrder, Earlier
<1>. QED
  BY <1>2, BelowIsLeast DEF RunInv, RunOutcomes

LEMMA CurrentInPlan ==
  ASSUME RunInv, Left
  PROVE  /\ position \in DOMAIN rootPlan /\ Current \in Tasks /\ Current \notin DOMAIN outcomes
         /\ Direct(conf, Current) \subseteq DOMAIN outcomes
         /\ conf.references[Current] \subseteq conf.produces \cap Below(conf, Current)
         /\ Earlier(rootPlan, position + 1) = DOMAIN outcomes \cup {Current}
         /\ position + 1 <= Len(rootPlan) \/ position + 1 = Len(rootPlan) + 1
<1>1. rootPlan \in Seq(Tasks) /\ position \in Nat \ {0} /\ position <= Len(rootPlan)
  BY DEF RunInv, PlanInv, PlanTypes, RunOrder, Left
<1>2. position \in DOMAIN rootPlan /\ Current \in Tasks
  BY <1>1 DEF Current
<1>3. DOMAIN outcomes = Earlier(rootPlan, position)
  BY DEF RunInv, RunOrder
<1>4. Earlier(rootPlan, position + 1) = Earlier(rootPlan, position) \cup {Current}
  BY <1>1 DEF Earlier, Current
<1>5. position + 1 <= Len(rootPlan) \/ position + 1 = Len(rootPlan) + 1
  BY <1>1
<1>. QED
  BY <1>2, <1>3, <1>4, <1>5 DEF RunInv, PlanInv, PlanOrdered, Current

LEMMA RunInit == InitRun => RunInv
<1>. SUFFICES ASSUME InitRun PROVE RunInv
  OBVIOUS
<1>1. PlanInv
  BY PlanInit DEF InitRun
<1>2. rootPlan = <<>> /\ position = 1 /\ outcomes = <<>> /\ stage = "planning" /\ Len(rootPlan) = 0
  BY DEF InitRun, Init
<1>3. DOMAIN outcomes = {} /\ Earlier(rootPlan, position) = {}
  BY <1>2 DEF Earlier
<1>4. RunOrder
  BY <1>2, <1>3 DEF RunOrder, Planning
<1>5. RunOutcomes
  BY <1>2, <1>3 DEF RunOutcomes, Succeeded
<1>6. RunReport
  BY <1>2 DEF RunReport, InitRun, Reporting
<1>. QED
  BY <1>1, <1>4, <1>5, <1>6 DEF RunInv

LEMMA PlanKeepsRun == RunInv /\ (Plan \/ SkipRootPlan) => RunInv'
<1>. SUFFICES ASSUME RunInv, Plan \/ SkipRootPlan PROVE RunInv'
  OBVIOUS
<1>1. /\ stage = "planning" /\ stage' \in {"planning", "failed planning"}
      /\ conf' = conf
      /\ UNCHANGED <<position, outcomes, outputs, report, fileVars>>
  BY DEF Plan, SkipRootPlan, runVars, Collect, CollectCompleted, CollectCycle, CollectTask,
         CollectInvalid, FinishTask, FinishInvalid, Planned, Fail
<1>2. PlanInv'
  BY CollectKeeps, SkipRootPlanKeeps DEF RunInv, Plan
<1>3. position = 1 /\ report = "none" /\ reportFile = conf.reportFile
  BY <1>1 DEF RunInv, RunOrder, RunReport, Planning, Reporting
<1>4. Len(rootPlan') \in Nat /\ Earlier(rootPlan', 1) = {} /\ Earlier(rootPlan, 1) = {}
  BY <1>2 DEF PlanInv, PlanTypes, Earlier
<1>5. RunOrder'
  <2>1. position' = 1 /\ DOMAIN outcomes' = Earlier(rootPlan', position')
    BY <1>1, <1>3, <1>4 DEF RunInv, RunOrder
  <2>2. position' <= Len(rootPlan') \/ position' = Len(rootPlan') + 1
    BY <1>4, <2>1
  <2>3. Planning' /\ stage' # "execute"
    BY <1>1 DEF Planning
  <2>. QED
    BY <2>1, <2>2, <2>3 DEF RunOrder, Left
<1>6. RunOutcomes'
  BY <1>1, <1>3, <1>4 DEF RunInv, RunOutcomes, RunOrder, Succeeded
<1>7. RunReport'
  BY <1>1, <1>3 DEF RunReport, Reporting, fileVars
<1>. QED
  BY <1>2, <1>5, <1>6, <1>7 DEF RunInv

(***************************************************************************)
(* Deciding the task at hand, whatever the outcome.                        *)
(***************************************************************************)
LEMMA DecideKeepsOrder ==
  ASSUME RunInv, Left, stage \in {"next", "execute"}, stage' = "next",
         NEW outcome, Decide(Current, outcome),
         position' = position + 1, UNCHANGED vars
  PROVE  /\ RunOrder'
         /\ Current \in DOMAIN outcomes' /\ outcomes'[Current] = outcome
         /\ DOMAIN outcomes' = DOMAIN outcomes \cup {Current}
         /\ \A t \in DOMAIN outcomes : outcomes'[t] = outcomes[t]
<1>1. /\ Current \in DOMAIN outcomes' /\ outcomes'[Current] = outcome
      /\ DOMAIN outcomes' = DOMAIN outcomes \cup {Current}
      /\ \A t \in DOMAIN outcomes : outcomes'[t] = outcomes[t]
  BY CurrentInPlan DEF Decide
<1>2. RunOrder'
  <2>1. pc' = "planned" /\ rootPlan' = rootPlan /\ position \in Nat
    BY DEF RunInv, RunOrder, Planning, vars
  <2>2. DOMAIN outcomes' = Earlier(rootPlan', position')
    BY <1>1, <2>1, CurrentInPlan
  <2>3. position' <= Len(rootPlan') \/ position' = Len(rootPlan') + 1
    BY <2>1, CurrentInPlan
  <2>4. ~ Planning' /\ stage' # "execute" /\ position' \in Nat \ {0}
    BY <2>1 DEF Planning
  <2>. QED
    BY <2>1, <2>2, <2>3, <2>4 DEF RunOrder, Left
<1>. QED
  BY <1>1, <1>2

LEMMA SkipTaskKeeps == RunInv /\ SkipTask => RunInv'
<1>. SUFFICES ASSUME RunInv, SkipTask PROVE RunInv'
  OBVIOUS
<1>1. /\ stage = "next" /\ stage' = "next" /\ Left /\ Decide(Current, "skipped")
      /\ position' = position + 1 /\ UNCHANGED <<vars, outputs, report, fileVars>>
  BY DEF SkipTask
<1>2. PlanInv'
  BY <1>1, PlanUnchanged DEF RunInv
<1>3. /\ RunOrder'
      /\ Current \in DOMAIN outcomes' /\ outcomes'[Current] = "skipped"
      /\ DOMAIN outcomes' = DOMAIN outcomes \cup {Current}
      /\ \A t \in DOMAIN outcomes : outcomes'[t] = outcomes[t]
  BY <1>1, DecideKeepsOrder
<1>4. Succeeded' = Succeeded
  BY <1>3, CurrentInPlan, <1>1 DEF Succeeded
<1>5. RunOutcomes'
  BY <1>1, <1>3, <1>4 DEF RunInv, RunOutcomes, vars
<1>6. RunReport'
  BY <1>1 DEF RunInv, RunReport, Reporting, vars, fileVars
<1>. QED
  BY <1>2, <1>3, <1>5, <1>6 DEF RunInv

LEMMA StartTaskKeeps == RunInv /\ StartTask => RunInv'
<1>. SUFFICES ASSUME RunInv, StartTask PROVE RunInv'
  OBVIOUS
<1>1. /\ stage = "next" /\ Left /\ ~ DependencySkipped(Current)
      /\ UNCHANGED <<vars, position, outcomes, outputs, report, fileVars>>
  BY DEF StartTask
<1>2. Direct(conf, Current) \subseteq Succeeded
  <2>1. Direct(conf, Current) \subseteq DOMAIN outcomes
    BY <1>1, CurrentInPlan
  <2>. QED
    BY <1>1, <2>1, SameDependencies DEF DependencySkipped, Succeeded, RunInv, RunOutcomes
<1>3. conf.references[Current] \subseteq DOMAIN outputs
  <2>1. Below(conf, Current) \subseteq Succeeded
    BY <1>1, <1>2, CurrentInPlan, AllBelowSucceeded
  <2>. QED
    BY <1>1, <2>1, CurrentInPlan DEF RunInv, RunOutcomes
<1>4. stage' \in {"execute", "failed: cache", "failed: no hit"}
  BY <1>3 DEF StartTask
<1>5. PlanInv'
  BY <1>1, PlanUnchanged DEF RunInv
<1>6. Current' = Current /\ Succeeded' = Succeeded
  BY <1>1 DEF Current, Succeeded, vars
<1>7. RunOrder'
  BY <1>1, <1>4 DEF RunInv, RunOrder, Left, Planning, vars
<1>8. RunOutcomes'
  BY <1>1, <1>2, <1>4, <1>6 DEF RunInv, RunOutcomes, vars
<1>9. RunReport'
  BY <1>1, <1>4 DEF RunInv, RunReport, Reporting, vars, fileVars
<1>. QED
  BY <1>5, <1>7, <1>8, <1>9 DEF RunInv

LEMMA FinishRootTaskKeeps == RunInv /\ FinishRootTask => RunInv'
<1>. SUFFICES ASSUME RunInv, FinishRootTask PROVE RunInv'
  OBVIOUS
<1>1. stage = "execute" /\ UNCHANGED <<vars, report, fileVars>>
  BY DEF FinishRootTask
<1>2. Left /\ Direct(conf, Current) \subseteq Succeeded
  BY <1>1 DEF RunInv, RunOrder, RunOutcomes
<1>3. PlanInv'
  BY <1>1, PlanUnchanged DEF RunInv
<1>4. stage' \in {"next", "failed: cache"}
  BY DEF FinishRootTask
<1>5. RunReport'
  <2>1. report' = "none" /\ reportFile' = conf'.reportFile
    BY <1>1 DEF RunInv, RunReport, Reporting, vars, fileVars
  <2>. QED
    BY <1>4, <2>1 DEF RunReport, Reporting
<1>6. CASE stage' = "failed: cache"
  <2>1. UNCHANGED <<position, outcomes, outputs>>
    BY <1>6 DEF FinishRootTask
  <2>2. RunOrder' /\ RunOutcomes'
    BY <1>1, <1>6, <2>1 DEF RunInv, RunOrder, RunOutcomes, Left, Planning, Succeeded, vars
  <2>. QED
    BY <1>3, <1>5, <2>2 DEF RunInv
<1>7. CASE stage' = "next"
  <2>1. position' = position + 1 /\ Decide(Current, "completed")
    BY <1>7 DEF FinishRootTask
  <2>2. /\ RunOrder'
        /\ Current \in DOMAIN outcomes' /\ outcomes'[Current] = "completed"
        /\ DOMAIN outcomes' = DOMAIN outcomes \cup {Current}
        /\ \A t \in DOMAIN outcomes : outcomes'[t] = outcomes[t]
    BY <1>1, <1>2, <1>7, <2>1, DecideKeepsOrder
  <2>3. Succeeded' = Succeeded \cup {Current}
    BY <2>2 DEF Succeeded
  <2>4. Succeeded' \cap conf.produces \subseteq DOMAIN outputs'
    <3>1. CASE Current \in conf.produces
      <4>1. DOMAIN outputs' = DOMAIN outputs \cup {Current}
        BY <1>7, <3>1 DEF FinishRootTask
      <4>. QED
        BY <2>3, <4>1 DEF RunInv, RunOutcomes
    <3>2. CASE Current \notin conf.produces
      <4>1. outputs' = outputs
        BY <1>7, <3>2 DEF FinishRootTask
      <4>. QED
        BY <2>3, <3>2, <4>1 DEF RunInv, RunOutcomes
    <3>. QED
      BY <3>1, <3>2
  <2>5. \A t \in Succeeded' : Direct(conf, t) \subseteq Succeeded'
    BY <1>2, <2>3 DEF RunInv, RunOutcomes
  <2>6. conf' = conf
    BY <1>1 DEF vars
  <2>7. \A t \in DOMAIN outcomes' : outcomes'[t] \in {"completed", "skipped"}
    BY <2>2 DEF RunInv, RunOutcomes
  <2>8. RunOutcomes'
    BY <1>7, <2>4, <2>5, <2>6, <2>7 DEF RunOutcomes
  <2>. QED
    BY <1>3, <1>5, <2>2, <2>8 DEF RunInv
<1>. QED
  BY <1>4, <1>6, <1>7

(***************************************************************************)
(* A task that was skipped is one the target depends on, or the target.    *)
(***************************************************************************)
LEMMA FinishRunKeeps == RunInv /\ FinishRun => RunInv'
<1>. SUFFICES ASSUME RunInv, FinishRun PROVE RunInv'
  OBVIOUS
<1>1. /\ stage = "next" /\ ~ Left
      /\ stage' = IF reportFile = "unwanted" THEN "done" ELSE "report"
      /\ report' = IF AnySkipped \/ (rootPlan = <<>> /\ ~ packages) THEN "skipped" ELSE "completed"
      /\ UNCHANGED <<vars, position, outcomes, outputs, fileVars>>
  BY DEF FinishRun
<1>2. PlanInv'
  BY <1>1, PlanUnchanged DEF RunInv
<1>3. RunOrder' /\ RunOutcomes'
  BY <1>1 DEF RunInv, RunOrder, RunOutcomes, Left, Planning, Succeeded, Current, vars
<1>4. DOMAIN outcomes = ToSet(rootPlan)
  <2>1. rootPlan \in Seq(Tasks) /\ position = Len(rootPlan) + 1 /\ DOMAIN outcomes = Earlier(rootPlan, position)
    BY <1>1 DEF RunInv, PlanInv, PlanTypes, RunOrder
  <2>. QED
    BY <2>1 DEF Earlier, ToSet
<1>5. ASSUME Target \in ToSet(rootPlan)
      PROVE  report' = outcomes[Target]
  <2>1. rootPlan # <<>>
    BY <1>5 DEF ToSet
  <2>2. CASE ~ AnySkipped
    BY <1>1, <1>4, <1>5, <2>1, <2>2 DEF AnySkipped, RunInv, RunOutcomes
  <2>3. CASE AnySkipped
    <3>1. PICK t \in DOMAIN outcomes : outcomes[t] = "skipped"
      BY <2>3 DEF AnySkipped
    <3>2. t \in Reached(conf)
      BY <1>4, <3>1 DEF RunInv, PlanInv, PlanFromTarget
    <3>3. ASSUME outcomes[Target] = "completed" PROVE FALSE
      <4>1. Target \in Succeeded
        BY <1>4, <1>5, <3>3 DEF Succeeded
      <4>2. Below(conf, Target) \subseteq Succeeded
        BY <4>1, AllBelowSucceeded, TasksAssumption DEF RunInv, RunOutcomes
      <4>3. t \in Succeeded
        BY <3>2, <4>1, <4>2 DEF Reached
      <4>. QED
        BY <3>1, <4>3 DEF Succeeded
    <3>. QED
      BY <1>1, <1>4, <1>5, <2>3, <3>3 DEF RunInv, RunOutcomes
  <2>. QED
    BY <2>2, <2>3
<1>6. RunReport'
  <2>1. reportFile = conf.reportFile
    BY <1>1 DEF RunInv, RunReport, Reporting
  <2>. QED
    BY <1>1, <1>5, <2>1 DEF RunReport, Reporting, vars, fileVars
<1>. QED
  BY <1>2, <1>3, <1>6 DEF RunInv

LEMMA WorkKeepsRun == RunInv /\ Work => RunInv'
<1>. SUFFICES ASSUME RunInv, Work PROVE RunInv'
  OBVIOUS
<1>1. CASE StartRun \/ CommandFails \/ PackageTaskFails
  <2>1. /\ stage \in {"planning", "next", "execute"}
        /\ stage' \in {"failed: no cached task", "next", "failed: command"}
        /\ pc = "planned"
        /\ UNCHANGED <<vars, position, outcomes, outputs, report, fileVars>>
    BY <1>1 DEF StartRun, CommandFails, PackageTaskFails, RunInv, RunOrder, Planning
  <2>2. PlanInv'
    BY <2>1, PlanUnchanged DEF RunInv
  <2>3. RunOrder'
    BY <2>1 DEF RunInv, RunOrder, Left, Planning, vars
  <2>4. RunOutcomes'
    BY <2>1 DEF RunInv, RunOutcomes, Succeeded, vars
  <2>5. RunReport'
    BY <2>1 DEF RunInv, RunReport, Reporting, vars, fileVars
  <2>. QED
    BY <2>2, <2>3, <2>4, <2>5 DEF RunInv
<1>2. CASE WriteTemp \/ RemoveReport \/ RenameReport \/ KilledWhileReporting
  <2>1. /\ stage = "report" /\ stage' \in {"report", "failed: report", "done"}
        /\ \/ UNCHANGED reportFile /\ stage' # "done"
           \/ reportFile' = "absent" /\ stage' # "done"
           \/ reportFile' = report
        /\ UNCHANGED <<vars, position, outcomes, outputs, report>>
    BY <1>2 DEF WriteTemp, RemoveReport, RenameReport, KilledWhileReporting, fileVars
  <2>2. PlanInv'
    BY <2>1, PlanUnchanged DEF RunInv
  <2>3. RunOrder'
    BY <2>1 DEF RunInv, RunOrder, Left, Planning, vars
  <2>4. RunOutcomes'
    BY <2>1 DEF RunInv, RunOutcomes, Succeeded, vars
  <2>5. RunReport'
    BY <2>1 DEF RunInv, RunReport, Reporting, vars
  <2>. QED
    BY <2>2, <2>3, <2>4, <2>5 DEF RunInv
<1>. QED
  BY <1>1, <1>2, PlanKeepsRun, SkipTaskKeeps, StartTaskKeeps, FinishRootTaskKeeps, FinishRunKeeps DEF Work

(***************************************************************************)
(* The invariant of a run: the planner's, and that what completed stands   *)
(* on what completed.                                                      *)
(***************************************************************************)
THEOREM RunInvariance == SpecRun => []RunInv
<1>1. RunInv /\ [Work \/ Over]_allVars => RunInv'
  <2>. SUFFICES ASSUME RunInv, [Work \/ Over]_allVars PROVE RunInv'
    OBVIOUS
  <2>1. CASE Work
    BY <2>1, WorkKeepsRun
  <2>2. CASE UNCHANGED allVars
    <3>1. UNCHANGED <<vars, runVars>>
      BY <2>2 DEF allVars
    <3>2. PlanInv'
      BY <3>1, PlanUnchanged DEF RunInv
    <3>. QED
      BY <3>1, <3>2 DEF RunInv, RunOrder, RunOutcomes, RunReport, Planning, Reporting, Succeeded,
                        Left, Current, vars, runVars, fileVars
  <2>. QED
    BY <2>1, <2>2 DEF Over
<1>. QED
  BY <1>1, RunInit, PTL DEF SpecRun

(***************************************************************************)
(* No task is collected within its own collection, so that planning is     *)
(* never deeper than there are tasks: the safety half of RunEnds           *)
(* (collect_root_tasks).                                                   *)
(***************************************************************************)
THEOREM CollectionIsBounded == SpecRun => [][NoTaskWithinItself']_vars
<1>1. RunInv => NoTaskWithinItself
  BY DEF RunInv, PlanInv, StackShape, NoTaskWithinItself
<1>. QED
  BY <1>1, RunInvariance, PTL

(***************************************************************************)
(* A plan holds the root tasks that the target reaches, each once and      *)
(* after all it depends on, and a cycle is reported only where there is    *)
(* one (root_task_plan).                                                   *)
(***************************************************************************)
THEOREM PlanOrderedClosure == SpecRun => []PlanIsOrderedClosure
<1>1. RunInv => PlanIsOrderedClosure
  BY PlanFollows DEF RunInv
<1>. QED
  BY <1>1, RunInvariance, PTL

(***************************************************************************)
(* A task that runs never lacks an output it substitutes.                  *)
(***************************************************************************)
THEOREM OutputsThere == SpecRun => []OutputsAvailable
<1>1. RunInv => OutputsAvailable
  BY DEF RunInv, RunOutcomes, OutputsAvailable
<1>. QED
  BY <1>1, RunInvariance, PTL

(***************************************************************************)
(* No command starts below a skipped task, however far.                    *)
(***************************************************************************)
THEOREM SkipsSpread == SpecRun => []SkipSpreads
<1>1. RunInv => SkipSpreads
  <2>. SUFFICES ASSUME RunInv, stage = "execute"
                PROVE  \A t \in TransitiveDependencies(Current) \cap DOMAIN outcomes : outcomes[t] = "completed"
    BY DEF SkipSpreads
  <2>1. Left /\ Direct(conf, Current) \subseteq Succeeded
    BY DEF RunInv, RunOrder, RunOutcomes
  <2>2. Below(conf, Current) \subseteq Succeeded
    BY <2>1, CurrentInPlan, AllBelowSucceeded
  <2>. QED
    BY <2>2, SameDependencies DEF Succeeded
<1>. QED
  BY <1>1, RunInvariance, PTL

(***************************************************************************)
(* The outcome reported is the target's, and the report file is the old    *)
(* one, none, or the whole new one.                                        *)
(***************************************************************************)
THEOREM ReportRight == SpecRun => []ReportIsTargetOutcome
<1>1. RunInv => ReportIsTargetOutcome
  BY DEF RunInv, RunReport, ReportIsTargetOutcome, Reporting
<1>. QED
  BY <1>1, RunInvariance, PTL

=============================================================================
