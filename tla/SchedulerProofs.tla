-------------------------- MODULE SchedulerProofs ---------------------------
(***************************************************************************)
(* Proofs that the batch scheduler keeps its promises for every set of     *)
(* task indices, every set of keys and every plan, and that the package    *)
(* phase keeps them and does not swallow the failure of a task its package *)
(* asked for.                                                              *)
(***************************************************************************)
EXTENDS PackageRun, WellFoundedInduction, TLAPS

(***************************************************************************)
(* A non-empty set of naturals has a least element.  This is also how the  *)
(* proofs do induction: the least counterexample of a claim is refuted.    *)
(***************************************************************************)
LEMMA LeastElement ==
  ASSUME NEW S \in SUBSET Nat, S # {}
  PROVE  \E x \in S : \A y \in S : x <= y
<1>. DEFINE R == {ss \in Nat \X Nat : ss[1] < ss[2]}
<1>1. IsWellFoundedOn(R, Nat)
  <2>1. R = OpToRel(<, Nat)
    BY DEF OpToRel
  <2>. QED
    BY <2>1, NatLessThanWellFounded, Zenon
<1>2. PICK x \in S : \A y \in S : ~ (<<y, x>> \in R)
  <2>. HIDE DEF R
  <2>. QED
    BY <1>1, WFMin, Zenon
<1>3. ASSUME NEW y \in S PROVE x <= y
  <2>1. <<y, x>> \in Nat \X Nat
    OBVIOUS
  <2>2. ~ (y < x)
    BY <1>2, <2>1
  <2>. QED
    BY <2>2
<1>. QED
  BY <1>3

-----------------------------------------------------------------------------

(***************************************************************************)
(* What is left of the scheduler's state by pc, and what a cohort member   *)
(* may wait for.                                                           *)
(***************************************************************************)
CohortShape ==
  /\ completed = Tasks \ pending
  /\ cohort \subseteq pending
  /\ unscanned \subseteq pending
  /\ pc # "scan" => unscanned = {}
  /\ pc \in {"select", "done", "cycle"} => cohort = {}
  /\ pc \in {"scan", "commit"} => cohort # {}
  /\ pc = "scan" => \A i \in cohort : Key(i) # NoKey
  /\ pc = "done" => pending = {}

CohortSound ==
  /\ \A i, j \in cohort : Key(i) = Key(j)
  /\ \A i \in cohort : \A q \in Prereqs(i) :
       \/ q \in completed
       \/ q \in cohort /\ q \in Absorbable(i) /\ Key(i) # NoKey

CompletedClosed == \A i \in completed : Prereqs(i) \subseteq completed

(***************************************************************************)
(* What a pass that has not grown the cohort has ruled out so far.         *)
(***************************************************************************)
ScannedRuledOut ==
  /\ pc = "scan" /\ ~ changed => \A i \in pending \ unscanned : ~ Joins(i)
  /\ pc = "commit" => \A i \in pending : (\E s \in cohort : Key(s) # NoKey) => ~ Joins(i)

CycleShape == pc = "cycle" => pending # {} /\ Ready = {}

IInv ==
  /\ TypeOK
  /\ CohortShape
  /\ CohortSound
  /\ CompletedClosed
  /\ ScannedRuledOut
  /\ CycleShape
  /\ ScheduledIsAcyclic
  /\ EachTaskInOneUnit
  /\ UnitsRespectPrerequisites

-----------------------------------------------------------------------------

LEMMA InitType == Init => TypeOK
<1>. SUFFICES ASSUME Init PROVE TypeOK
  OBVIOUS
<1>1. IsPlan(plan)
  BY PlansAssumption DEF Init
<1>2. units \in Seq(SUBSET Tasks)
  BY DEF Init
<1>. QED
  BY <1>1, <1>2 DEF Init, TypeOK

LEMMA NextType == TypeOK /\ [Next]_vars => TypeOK'
<1>. SUFFICES ASSUME TypeOK, [Next]_vars PROVE TypeOK'
  OBVIOUS
<1>. USE DEF TypeOK, IsPlan
<1>1. CASE SelectSeed
  BY <1>1 DEF SelectSeed, Ready, Smallest
<1>2. CASE NothingReady
  BY <1>2 DEF NothingReady
<1>3. CASE ScanIndex
  BY <1>3 DEF ScanIndex, Smallest
<1>4. CASE EndPass
  BY <1>4 DEF EndPass
<1>5. CASE Commit
  BY <1>5 DEF Commit
<1>6. CASE Finish
  BY <1>6 DEF Finish
<1>7. CASE UNCHANGED vars
  BY <1>7 DEF vars
<1>. QED
  BY <1>1, <1>2, <1>3, <1>4, <1>5, <1>6, <1>7 DEF Next, Schedule, Terminated

(***************************************************************************)
(* The state keeps its types for every plan.                               *)
(***************************************************************************)
THEOREM TypeCorrect == Spec => []TypeOK
BY InitType, NextType, PTL DEF Spec

-----------------------------------------------------------------------------

(***************************************************************************)
(* Adding to a set of scheduled tasks one whose prerequisites are in it,   *)
(* and which none of them waits for, closes no cycle.                      *)
(***************************************************************************)
LEMMA GrowAcyclic ==
  ASSUME NEW A, NEW i,
         i \notin A, i \notin Prereqs(i),
         \A t \in A : i \notin Prereqs(t),
         \A S \in SUBSET A : S # {} => HasSource(S)
  PROVE  \A S \in SUBSET (A \cup {i}) : S # {} => HasSource(S)
<1>. SUFFICES ASSUME NEW S \in SUBSET (A \cup {i}), S # {} PROVE HasSource(S)
  OBVIOUS
<1>1. CASE S \ {i} = {}
  <2>1. S = {i}
    BY <1>1
  <2>. QED
    BY <2>1 DEF HasSource
<1>2. CASE S \ {i} # {}
  <2>1. PICK t \in S \ {i} : Prereqs(t) \cap (S \ {i}) = {}
    BY <1>2 DEF HasSource
  <2>2. i \notin Prereqs(t)
    BY <2>1
  <2>. QED
    BY <2>1, <2>2 DEF HasSource
<1>. QED
  BY <1>1, <1>2

(***************************************************************************)
(* Everything a completed or cohort task waits for is completed or in the  *)
(* cohort.                                                                 *)
(***************************************************************************)
LEMMA ScheduledClosed ==
  ASSUME CohortSound, CompletedClosed, NEW t \in completed \cup cohort
  PROVE  Prereqs(t) \subseteq completed \cup cohort
BY DEF CohortSound, CompletedClosed

LEMMA InitIInv == Init => IInv
<1>. SUFFICES ASSUME Init PROVE IInv
  OBVIOUS
<1>1. TypeOK
  BY InitType
<1>2. completed = {} /\ cohort = {} /\ units = <<>> /\ pc = "select" /\ pending = Tasks
      /\ unscanned = {}
  BY DEF Init
<1>3. CohortShape /\ CohortSound /\ CompletedClosed /\ ScannedRuledOut /\ CycleShape
  BY <1>2 DEF CohortShape, CohortSound, CompletedClosed, ScannedRuledOut, CycleShape
<1>4. ScheduledIsAcyclic
  BY <1>2 DEF ScheduledIsAcyclic
<1>5. EachTaskInOneUnit /\ UnitsRespectPrerequisites
  BY <1>2 DEF EachTaskInOneUnit, UnitsRespectPrerequisites
<1>. QED
  BY <1>1, <1>3, <1>4, <1>5 DEF IInv

(***************************************************************************)
(* Only Commit changes the units and what is completed; the conjuncts that *)
(* speak of them alone hold after every other step.                        *)
(***************************************************************************)
LEMMA UnitsStable ==
  ASSUME IInv, UNCHANGED <<plan, pending, completed, units>>,
         pc' = "done" => pending = {}
  PROVE  CompletedClosed' /\ EachTaskInOneUnit' /\ UnitsRespectPrerequisites'
<1>1. CompletedClosed'
  BY DEF IInv, CompletedClosed, Prereqs
<1>2. EachTaskInOneUnit'
  BY DEF IInv, EachTaskInOneUnit, TypeOK
<1>3. UnitsRespectPrerequisites'
  BY DEF IInv, UnitsRespectPrerequisites, Prereqs, Absorbable, Key
<1>. QED
  BY <1>1, <1>2, <1>3

LEMMA SelectSeedStep == IInv /\ SelectSeed => IInv'
<1>. SUFFICES ASSUME IInv, SelectSeed PROVE IInv'
  OBVIOUS
<1>1. PICK seed \in Ready :
        /\ cohort' = {seed}
        /\ IF Key(seed) = NoKey
           THEN pc' = "commit" /\ unscanned' = {}
           ELSE pc' = "scan" /\ unscanned' = pending
  BY DEF SelectSeed
<1>2. UNCHANGED <<plan, pending, completed, units>> /\ changed' = FALSE /\ cohort = {}
  BY DEF SelectSeed, IInv, CohortShape
<1>3. seed \in pending /\ Prereqs(seed) \subseteq completed /\ seed \notin completed
  BY DEF Ready, IInv, CohortShape
<1>4. TypeOK'
  BY NextType DEF IInv, Next, Schedule
<1>5. CohortShape'
  BY <1>1, <1>2, <1>3 DEF IInv, CohortShape, Key
<1>6. CohortSound'
  BY <1>1, <1>2, <1>3 DEF CohortSound, Key, Prereqs, Absorbable
<1>7. ScannedRuledOut'
  BY <1>1, <1>2 DEF ScannedRuledOut, Key
<1>8. CycleShape'
  BY <1>1 DEF CycleShape
<1>9. ScheduledIsAcyclic'
  <2>1. \A S \in SUBSET completed : S # {} => HasSource(S)
    BY <1>2 DEF IInv, ScheduledIsAcyclic
  <2>2. \A t \in completed : seed \notin Prereqs(t)
    BY <1>3 DEF IInv, CompletedClosed
  <2>3. \A S \in SUBSET (completed \cup {seed}) : S # {} => HasSource(S)
    BY <1>3, <2>1, <2>2, GrowAcyclic
  <2>. QED
    BY <1>1, <1>2, <2>3 DEF ScheduledIsAcyclic, HasSource, Prereqs
<1>10. CompletedClosed' /\ EachTaskInOneUnit' /\ UnitsRespectPrerequisites'
  BY <1>1, <1>2, UnitsStable
<1>. QED
  BY <1>4, <1>5, <1>6, <1>7, <1>8, <1>9, <1>10 DEF IInv

LEMMA ScanIndexStep == IInv /\ ScanIndex => IInv'
<1>. SUFFICES ASSUME IInv, ScanIndex PROVE IInv'
  OBVIOUS
<1>1. PICK i \in unscanned :
        /\ unscanned' = unscanned \ {i}
        /\ IF Joins(i)
           THEN cohort' = cohort \cup {i} /\ changed' = TRUE
           ELSE UNCHANGED <<cohort, changed>>
  BY DEF ScanIndex
<1>2. UNCHANGED <<plan, pc, pending, completed, units>> /\ pc = "scan"
  BY DEF ScanIndex
<1>3. i \in pending /\ i \notin completed
  BY DEF IInv, CohortShape
<1>4. TypeOK'
  BY NextType DEF IInv, Next, Schedule
<1>5. CompletedClosed' /\ EachTaskInOneUnit' /\ UnitsRespectPrerequisites'
  BY <1>2, UnitsStable
<1>6. CycleShape'
  BY <1>2 DEF CycleShape
<1>7. CASE Joins(i)
  <2>1. cohort' = cohort \cup {i} /\ changed' = TRUE
    BY <1>1, <1>7
  <2>2. /\ i \notin cohort
        /\ \A s \in cohort : Key(i) = Key(s)
        /\ Key(i) # NoKey
        /\ \A q \in Prereqs(i) : q \in completed \/ (q \in cohort /\ q \in Absorbable(i))
    BY <1>2, <1>7 DEF Joins, IInv, CohortSound, CohortShape
  <2>3. CohortShape'
    BY <1>1, <1>2, <1>3, <2>1, <2>2 DEF IInv, CohortShape, Key
  <2>4. CohortSound'
    BY <1>2, <2>1, <2>2 DEF IInv, CohortSound, Key, Prereqs, Absorbable
  <2>5. ScannedRuledOut'
    BY <1>2, <2>1 DEF ScannedRuledOut
  <2>6. ScheduledIsAcyclic'
    <3>1. i \notin completed \cup cohort /\ i \notin Prereqs(i)
      BY <1>3, <2>2
    <3>2. \A t \in completed \cup cohort : i \notin Prereqs(t)
      BY <3>1, ScheduledClosed DEF IInv
    <3>3. \A S \in SUBSET ((completed \cup cohort) \cup {i}) : S # {} => HasSource(S)
      BY <3>1, <3>2, GrowAcyclic DEF IInv, ScheduledIsAcyclic
    <3>4. (completed \cup cohort)' = (completed \cup cohort) \cup {i}
      BY <1>2, <2>1
    <3>. QED
      BY <1>2, <3>3, <3>4 DEF ScheduledIsAcyclic, HasSource, Prereqs
  <2>. QED
    BY <1>4, <1>5, <1>6, <2>3, <2>4, <2>5, <2>6 DEF IInv
<1>8. CASE ~ Joins(i)
  <2>1. UNCHANGED <<cohort, changed>>
    BY <1>1, <1>8
  <2>2. CohortShape' /\ CohortSound'
    BY <1>1, <1>2, <2>1 DEF IInv, CohortShape, CohortSound, Key, Prereqs, Absorbable
  <2>3. ScannedRuledOut'
    BY <1>1, <1>2, <1>8, <2>1
       DEF IInv, ScannedRuledOut, Joins, Key, Prereqs, Absorbable
  <2>4. ScheduledIsAcyclic'
    BY <1>2, <2>1 DEF IInv, ScheduledIsAcyclic, HasSource, Prereqs
  <2>. QED
    BY <1>4, <1>5, <1>6, <2>2, <2>3, <2>4 DEF IInv
<1>. QED
  BY <1>7, <1>8

LEMMA EndPassStep == IInv /\ EndPass => IInv'
<1>. SUFFICES ASSUME IInv, EndPass PROVE IInv'
  OBVIOUS
<1>1. /\ UNCHANGED <<plan, pending, completed, cohort, units>>
      /\ pc = "scan" /\ unscanned = {} /\ changed' = FALSE
      /\ IF changed THEN unscanned' = pending /\ pc' = pc
                    ELSE pc' = "commit" /\ unscanned' = unscanned
  BY DEF EndPass
<1>2. TypeOK'
  BY NextType DEF IInv, Next, Schedule
<1>3. CompletedClosed' /\ EachTaskInOneUnit' /\ UnitsRespectPrerequisites'
  BY <1>1, UnitsStable
<1>4. CohortShape' /\ CohortSound' /\ CycleShape'
  BY <1>1 DEF IInv, CohortShape, CohortSound, CycleShape, Key, Prereqs, Absorbable
<1>5. ScannedRuledOut'
  BY <1>1 DEF IInv, ScannedRuledOut, Joins, Key, Prereqs, Absorbable
<1>6. ScheduledIsAcyclic'
  BY <1>1 DEF IInv, ScheduledIsAcyclic, HasSource, Prereqs
<1>. QED
  BY <1>2, <1>3, <1>4, <1>5, <1>6 DEF IInv

LEMMA CommitStep == IInv /\ Commit => IInv'
<1>. SUFFICES ASSUME IInv, Commit PROVE IInv'
  OBVIOUS
<1>1. /\ units' = Append(units, cohort)
      /\ pending' = pending \ cohort
      /\ completed' = completed \cup cohort
      /\ cohort' = {} /\ pc = "commit" /\ pc' = "select"
      /\ UNCHANGED <<plan, unscanned>>
  BY DEF Commit
<1>2. TypeOK'
  BY NextType DEF IInv, Next, Schedule
<1>3. /\ units \in Seq(SUBSET Tasks) /\ Len(units) \in Nat
      /\ DOMAIN units = 1 .. Len(units)
      /\ DOMAIN units' = 1 .. Len(units) + 1
      /\ \A u \in DOMAIN units : units'[u] = units[u]
      /\ units'[Len(units) + 1] = cohort
  BY <1>1 DEF IInv, TypeOK
<1>4. /\ cohort \subseteq Tasks /\ cohort \cap completed = {}
      /\ \A i \in cohort : \A q \in Prereqs(i) :
           \/ q \in completed
           \/ q \in cohort /\ q \in Absorbable(i) /\ Key(q) = Key(i) /\ Key(i) # NoKey
  BY DEF IInv, TypeOK, CohortShape, CohortSound
<1>5. CohortShape'
  BY <1>1, <1>4 DEF IInv, CohortShape, TypeOK
<1>6. CohortSound' /\ CycleShape' /\ ScannedRuledOut'
  BY <1>1 DEF CohortSound, CycleShape, ScannedRuledOut
<1>7. CompletedClosed'
  BY <1>1, <1>4 DEF IInv, CompletedClosed, Prereqs
<1>8. ScheduledIsAcyclic'
  <2>1. (completed \cup cohort)' = completed \cup cohort
    BY <1>1
  <2>. QED
    BY <1>1, <2>1 DEF IInv, ScheduledIsAcyclic, HasSource, Prereqs
<1>9. EachTaskInOneUnit'
  <2>1. \A u, v \in DOMAIN units' : u # v => units'[u] \cap units'[v] = {}
    <3>1. \A u \in DOMAIN units : units[u] \subseteq completed
      BY DEF IInv, EachTaskInOneUnit
    <3>2. \A u, v \in DOMAIN units : u # v => units[u] \cap units[v] = {}
      BY DEF IInv, EachTaskInOneUnit
    <3>3. DOMAIN units' = DOMAIN units \cup {Len(units) + 1}
      BY <1>3
    <3>. QED
      BY <1>3, <1>4, <3>1, <3>2, <3>3
  <2>2. completed' = UNION {units'[u] : u \in DOMAIN units'}
    <3>1. completed = UNION {units[u] : u \in DOMAIN units}
      BY DEF IInv, EachTaskInOneUnit
    <3>2. DOMAIN units' = DOMAIN units \cup {Len(units) + 1}
      BY <1>3
    <3>3. {units'[u] : u \in DOMAIN units'} = {units[u] : u \in DOMAIN units} \cup {cohort}
      BY <1>3, <3>2
    <3>. QED
      BY <1>1, <3>1, <3>3
  <2>3. completed' = Tasks \ pending'
    BY <1>1, <1>4 DEF IInv, CohortShape, TypeOK
  <2>. QED
    BY <1>1, <2>1, <2>2, <2>3 DEF EachTaskInOneUnit
<1>10. UnitsRespectPrerequisites'
  <2>. SUFFICES ASSUME NEW u \in DOMAIN units', NEW i \in units'[u], NEW q \in Prereqs(i)
                PROVE  \/ \E e \in DOMAIN units' : e < u /\ q \in units'[e]
                       \/ /\ q \in units'[u] /\ q \in Absorbable(i)
                          /\ Key(q) = Key(i) /\ Key(i) # NoKey
    BY <1>1 DEF UnitsRespectPrerequisites, Prereqs, Absorbable, Key
  <2>1. CASE u \in DOMAIN units
    <3>1. \/ \E e \in DOMAIN units : e < u /\ q \in units[e]
          \/ q \in units[u] /\ q \in Absorbable(i) /\ Key(q) = Key(i) /\ Key(i) # NoKey
      BY <1>3, <2>1 DEF IInv, UnitsRespectPrerequisites
    <3>. QED
      BY <1>3, <2>1, <3>1
  <2>2. CASE u = Len(units) + 1
    <3>1. i \in cohort
      BY <1>3, <2>2
    <3>2. CASE q \in completed
      <4>1. PICK e \in DOMAIN units : q \in units[e]
        BY <3>2 DEF IInv, EachTaskInOneUnit
      <4>2. e \in DOMAIN units' /\ e < u /\ q \in units'[e]
        BY <1>3, <2>2, <4>1
      <4>. QED
        BY <4>2
    <3>3. CASE q \notin completed
      BY <1>3, <1>4, <2>2, <3>1, <3>3
    <3>. QED
      BY <3>2, <3>3
  <2>. QED
    BY <1>3, <2>1, <2>2
<1>. QED
  BY <1>2, <1>5, <1>6, <1>7, <1>8, <1>9, <1>10 DEF IInv

LEMMA NextIInv == IInv /\ [Next]_vars => IInv'
<1>. SUFFICES ASSUME IInv, [Next]_vars PROVE IInv'
  OBVIOUS
<1>1. CASE NothingReady \/ Finish
  <2>1. /\ UNCHANGED <<plan, pending, completed, cohort, unscanned, changed, units>>
        /\ pc = "select"
        /\ \/ pc' = "cycle" /\ pending # {} /\ Ready = {}
           \/ pc' = "done" /\ pending = {}
    BY <1>1 DEF NothingReady, Finish
  <2>2. TypeOK'
    BY <1>1, NextType DEF IInv, Next, Schedule
  <2>3. CompletedClosed' /\ EachTaskInOneUnit' /\ UnitsRespectPrerequisites'
    BY <2>1, UnitsStable
  <2>4. CohortShape' /\ CohortSound' /\ CycleShape' /\ ScannedRuledOut'
    BY <2>1 DEF IInv, CohortShape, CohortSound, CycleShape, ScannedRuledOut, Ready,
                Key, Prereqs, Absorbable
  <2>5. ScheduledIsAcyclic'
    BY <2>1 DEF IInv, ScheduledIsAcyclic, HasSource, Prereqs
  <2>. QED
    BY <2>2, <2>3, <2>4, <2>5 DEF IInv
<1>2. CASE UNCHANGED vars
  BY <1>2 DEF vars, IInv, TypeOK, CohortShape, CohortSound, CompletedClosed,
              ScannedRuledOut, CycleShape, ScheduledIsAcyclic, EachTaskInOneUnit,
              UnitsRespectPrerequisites, Ready, Joins, HasSource, Key, Prereqs, Absorbable
<1>. QED
  BY <1>1, <1>2, SelectSeedStep, ScanIndexStep, EndPassStep, CommitStep
     DEF Next, Schedule, Terminated

(***************************************************************************)
(* The inductive invariant holds in every reachable state.                 *)
(***************************************************************************)
THEOREM Invariance == Spec => []IInv
BY InitIInv, NextIInv, PTL DEF Spec
-----------------------------------------------------------------------------

(***************************************************************************)
(* Every prerequisite of a unit's task is in an earlier unit, or absorbed  *)
(* in the same unit under the same key: batching keeps the plan's order.   *)
(***************************************************************************)
THEOREM PrerequisitesRespected == Spec => []UnitsRespectPrerequisites
<1>1. IInv => UnitsRespectPrerequisites
  BY DEF IInv
<1>. QED
  BY <1>1, Invariance, PTL

(***************************************************************************)
(* Units are disjoint, and together they are all the tasks at the end.     *)
(***************************************************************************)
THEOREM NoTaskLostOrRepeated == Spec => []EachTaskInOneUnit
<1>1. IInv => EachTaskInOneUnit
  BY DEF IInv
<1>. QED
  BY <1>1, Invariance, PTL

(***************************************************************************)
(* No set of scheduled tasks waits in a circle, in one unit or across.     *)
(***************************************************************************)
THEOREM NoCycleScheduled == Spec => []ScheduledIsAcyclic
<1>1. IInv => ScheduledIsAcyclic
  BY DEF IInv
<1>. QED
  BY <1>1, Invariance, PTL

(***************************************************************************)
(* The cycle error is raised exactly for plans with a cycle.               *)
(***************************************************************************)
THEOREM CycleErrorExact == Spec => []CycleErrorIsExact
<1>1. IInv => CycleErrorIsExact
  <2>. SUFFICES ASSUME IInv PROVE CycleErrorIsExact
    OBVIOUS
  <2>1. ASSUME pc = "cycle" PROVE pending # {} /\ ~ HasSource(pending)
    <3>1. pending # {} /\ Ready = {} /\ pending \subseteq Tasks
      BY <2>1 DEF IInv, CycleShape, TypeOK
    <3>2. ASSUME NEW i \in pending, Prereqs(i) \cap pending = {} PROVE FALSE
      <4>1. Prereqs(i) \subseteq Tasks \ pending
        BY <3>1, <3>2 DEF IInv, TypeOK, IsPlan, Prereqs
      <4>2. i \in Ready
        BY <4>1 DEF IInv, CohortShape, Ready
      <4>. QED
        BY <3>1, <4>2
    <3>. QED
      BY <3>1, <3>2 DEF HasSource
  <2>2. ASSUME pc = "done" PROVE \A S \in SUBSET Tasks : S # {} => HasSource(S)
    BY <2>2 DEF IInv, CohortShape, ScheduledIsAcyclic
  <2>. QED
    BY <2>1, <2>2 DEF CycleErrorIsExact
<1>. QED
  BY <1>1, Invariance, PTL

(***************************************************************************)
(* A cohort is never smaller than it could be.                             *)
(***************************************************************************)
THEOREM CohortMaximal == Spec => []CohortIsMaximal
<1>1. IInv => CohortIsMaximal
  BY DEF IInv, ScannedRuledOut, CohortIsMaximal
<1>. QED
  BY <1>1, Invariance, PTL

(***************************************************************************)
(* A topologically ordered plan, which is all the planner makes, never     *)
(* meets the cycle error: the least pending task is always ready.          *)
(***************************************************************************)
THEOREM TopologicalNeverStuck == Spec => []NeverStuck
<1>1. IInv => NeverStuck
  <2>. SUFFICES ASSUME IInv, Topological(plan), pc = "cycle" PROVE FALSE
    BY DEF NeverStuck
  <2>1. pending \in SUBSET Nat /\ pending # {} /\ Ready = {}
    BY TasksAssumption DEF IInv, TypeOK, CycleShape
  <2>2. PICK i \in pending : \A j \in pending : i <= j
    BY <2>1, LeastElement
  <2>3. Prereqs(i) \subseteq completed
    <3>. SUFFICES ASSUME NEW q \in Prereqs(i), q \notin completed PROVE FALSE
      OBVIOUS
    <3>1. i \in Tasks /\ q \in Tasks
      BY DEF IInv, TypeOK, IsPlan, Prereqs
    <3>2. q < i
      BY <3>1 DEF Topological, Prereqs
    <3>3. q \in pending
      BY <3>1 DEF IInv, CohortShape
    <3>. QED
      BY <2>1, <2>2, <3>2, <3>3
  <2>. QED
    BY <2>1, <2>3 DEF Ready
<1>. QED
  BY <1>1, Invariance, PTL

-----------------------------------------------------------------------------

(***************************************************************************)
(* A schedule of units is a run of the task graph: only Commit is visible, *)
(* and the cohort it commits is a group that DagRun may take.              *)
(***************************************************************************)
THEOREM Refinement == Spec => ImplementsDagRun
<1>1. Init => DR!Init
  BY PlansAssumption DEF Init, IsPlan, DR!Init
<1>2. IInv /\ [Next]_vars => [DR!Next]_(DR!vars)
  <2>. SUFFICES ASSUME IInv, [Next]_vars PROVE [DR!Next]_(DR!vars)
    OBVIOUS
  <2>1. CASE Commit
    <3>1. /\ cohort \in SUBSET Tasks /\ cohort # {} /\ cohort \cap completed = {}
          /\ \A i \in cohort :
               plan.prerequisites[i] \subseteq completed \cup (cohort \cap plan.absorbable[i])
      BY <2>1 DEF Commit, IInv, TypeOK, CohortShape, CohortSound, Prereqs, Absorbable
    <3>2. DR!Orderable(cohort)
      BY DEF IInv, ScheduledIsAcyclic, HasSource, Prereqs, DR!Orderable
    <3>3. DR!Take(cohort)
      BY <2>1, <3>1, <3>2 DEF Commit, DR!Take
    <3>. QED
      BY <3>1, <3>3 DEF DR!Next
  <2>2. CASE UNCHANGED <<plan, completed>>
    BY <2>2 DEF DR!vars
  <2>. QED
    BY <2>1, <2>2
       DEF Next, Schedule, Terminated, SelectSeed, NothingReady, ScanIndex, EndPass, Finish, vars
<1>. QED
  BY <1>1, <1>2, Invariance, PTL DEF Spec, ImplementsDagRun, DR!Spec

-----------------------------------------------------------------------------

(* The package phase *)

(***************************************************************************)
(* Nothing is executed before everything is scheduled; what has started    *)
(* are the units before the position; and while the run has not failed, no *)
(* explicit task has.                                                      *)
(***************************************************************************)
RunShape ==
  /\ explicit \subseteq Tasks
  /\ status \in {"running", "finished", "aborted", "failed"}
  /\ position \in Nat /\ position <= Len(units)
  /\ pc # "done" => position = 0
  /\ DOMAIN result = Tasks
  /\ Started = UNION {units[u] : u \in 1 .. position}
  /\ status \in {"running", "finished"} => \A i \in explicit \cap Started : result[i] = "ok"
  /\ status = "finished" => pc = "done" /\ position = Len(units)

RunInv == IInv /\ RunShape

(***************************************************************************)
(* The run takes the scheduler's steps and, for it, no others: what is     *)
(* proved of the scheduler holds in a run.                                 *)
(***************************************************************************)
THEOREM RunSchedules == SpecRun => Spec
<1>1. InitRun => Init
  BY DEF InitRun
<1>2. [NextRun]_<<vars, runVars>> => [Next]_vars
  BY DEF NextRun, Work, Over, Plan, ScheduleFails, ExecuteUnit, EndRun, Next
<1>. QED
  BY <1>1, <1>2, PTL DEF SpecRun, Spec

-----------------------------------------------------------------------------

LEMMA RunShapeInit == InitRun => RunShape
<1>. SUFFICES ASSUME InitRun PROVE RunShape
  OBVIOUS
<1>1. /\ position = 0 /\ result = [i \in Tasks |-> "none"] /\ status = "running"
      /\ explicit \subseteq Tasks /\ units = <<>> /\ Len(units) = 0
  BY DEF InitRun, Init
<1>2. Started = {} /\ 1 .. position = {}
  BY <1>1 DEF Started
<1>. QED
  BY <1>1, <1>2 DEF RunShape

LEMMA PlanStep == RunInv /\ Plan => RunShape'
<1>. SUFFICES ASSUME RunInv, Plan PROVE RunShape'
  OBVIOUS
<1>1. pc # "done" /\ UNCHANGED runVars
  BY DEF Plan, Schedule, SelectSeed, NothingReady, ScanIndex, EndPass, Commit, Finish
<1>2. position = 0 /\ position' = 0 /\ 1 .. position = {} /\ 1 .. position' = {}
  BY <1>1 DEF RunInv, RunShape, runVars
<1>3. Len(units') \in Nat
  <2>1. TypeOK /\ [Next]_vars
    BY DEF RunInv, IInv, Plan, Next
  <2>2. units' \in Seq(SUBSET Tasks)
    BY <2>1, NextType DEF TypeOK
  <2>. QED
    BY <2>2
<1>4. Started' = Started /\ Started = {}
  BY <1>1, <1>2 DEF Started, RunInv, RunShape, runVars
<1>5. status # "finished"
  BY <1>1 DEF RunInv, RunShape
<1>. QED
  BY <1>1, <1>2, <1>3, <1>4, <1>5 DEF RunInv, RunShape, runVars

LEMMA ExecuteUnitStep == RunInv /\ ExecuteUnit => RunShape'
<1>. SUFFICES ASSUME RunInv, ExecuteUnit PROVE RunShape'
  OBVIOUS
<1>. DEFINE unit == units[position + 1]
<1>1. /\ pc = "done" /\ status = "running" /\ position < Len(units) /\ position' = position + 1
      /\ UNCHANGED <<vars, explicit>>
  BY DEF ExecuteUnit
<1>2. PICK r \in ProcessResults(unit) :
        /\ result' = [i \in Tasks |-> IF i \in unit THEN r[i] ELSE result[i]]
        /\ status' = IF ExplicitlyOptedIn(unit) /\ \E i \in unit : r[i] = "failed"
                     THEN "aborted" ELSE status
  BY DEF ExecuteUnit
<1>3. /\ units \in Seq(SUBSET Tasks) /\ Len(units) \in Nat /\ position \in Nat
      /\ position + 1 \in DOMAIN units /\ unit \subseteq Tasks
  <2>1. units \in Seq(SUBSET Tasks) /\ position \in Nat
    BY DEF RunInv, RunShape, IInv, TypeOK
  <2>2. position + 1 \in DOMAIN units
    BY <1>1, <2>1
  <2>. QED
    BY <2>1, <2>2
<1>4. units' = units /\ pc' = pc
  BY <1>1 DEF vars
<1>. HIDE DEF unit
<1>5. \A i \in unit : r[i] \in {"ok", "failed", "cut"}
  BY DEF ProcessResults
<1>6. Started' = Started \cup unit
  <2>1. DOMAIN result = Tasks
    BY DEF RunInv, RunShape
  <2>2. \A i \in Tasks : result'[i] # "none" <=> i \in unit \/ result[i] # "none"
    BY <1>2, <1>5
  <2>. QED
    BY <1>3, <2>2 DEF Started
<1>7. UNION {units[u] : u \in 1 .. position + 1} = (UNION {units[u] : u \in 1 .. position}) \cup unit
  <2>1. 1 .. position + 1 = (1 .. position) \cup {position + 1}
    BY <1>3
  <2>. QED
    BY <2>1 DEF unit
<1>8. ASSUME status' = "running", NEW i \in explicit \cap Started'
      PROVE  result'[i] = "ok"
  <2>1. CASE i \in unit
    <3>1. \A j \in unit : r[j] # "failed"
      BY <1>1, <1>2, <1>8, <2>1 DEF ExplicitlyOptedIn
    <3>2. r[i] = "ok"
      BY <1>5, <2>1, <3>1 DEF ProcessResults
    <3>. QED
      BY <1>2, <1>3, <2>1, <3>2
  <2>2. CASE i \notin unit
    <3>1. i \in Started /\ i \in Tasks
      BY <1>6, <1>8, <2>2 DEF Started
    <3>. QED
      BY <1>1, <1>2, <1>8, <2>2, <3>1 DEF RunInv, RunShape
  <2>. QED
    BY <2>1, <2>2
<1>9. DOMAIN result' = Tasks
  BY <1>2
<1>10. status' \in {"running", "aborted"}
  BY <1>1, <1>2
<1>11. position' \in Nat /\ position' <= Len(units')
  BY <1>1, <1>3, <1>4
<1>12. Started' = UNION {units'[u] : u \in 1 .. position'}
  BY <1>1, <1>4, <1>6, <1>7 DEF RunInv, RunShape
<1>. QED
  BY <1>1, <1>4, <1>8, <1>9, <1>10, <1>11, <1>12 DEF RunInv, RunShape

LEMMA RunStep == RunInv /\ [NextRun]_<<vars, runVars>> => RunInv'
<1>. SUFFICES ASSUME RunInv, [NextRun]_<<vars, runVars>> PROVE RunInv'
  OBVIOUS
<1>1. IInv'
  <2>1. [Next]_vars
    BY DEF NextRun, Work, Over, Plan, ScheduleFails, ExecuteUnit, EndRun, Next
  <2>. QED
    BY <2>1, NextIInv DEF RunInv
<1>2. RunShape'
  <2>1. CASE ScheduleFails \/ EndRun
    <3>1. /\ UNCHANGED <<vars, explicit, position, result>>
          /\ status' = "failed" \/ (status' = "finished" /\ pc = "done" /\ position = Len(units))
          /\ status = "running"
      BY <2>1 DEF ScheduleFails, EndRun
    <3>. QED
      BY <3>1 DEF RunInv, RunShape, Started, vars
  <2>2. CASE UNCHANGED <<vars, runVars>>
    BY <2>2 DEF RunInv, RunShape, Started, vars, runVars
  <2>. QED
    BY <2>1, <2>2, PlanStep, ExecuteUnitStep DEF NextRun, Work, Over
<1>. QED
  BY <1>1, <1>2 DEF RunInv

(***************************************************************************)
(* A run that finishes has executed every task, and every task its package *)
(* asked for succeeded, alone or in a batch (handle_unit_failure).         *)
(***************************************************************************)
THEOREM ExplicitFailuresEndRuns == SpecRun => []ExplicitFailureEndsRun
<1>1. InitRun => RunInv
  BY InitIInv, RunShapeInit DEF InitRun, RunInv
<1>2. RunInv => ExplicitFailureEndsRun
  <2>. SUFFICES ASSUME RunInv, status = "finished"
                PROVE  Started = Tasks /\ \A i \in explicit : result[i] = "ok"
    BY DEF ExplicitFailureEndsRun
  <2>1. units \in Seq(SUBSET Tasks) /\ pc = "done" /\ position = Len(units)
    BY DEF RunInv, RunShape, IInv, TypeOK
  <2>2. DOMAIN units = 1 .. position
    BY <2>1
  <2>3. Started = Tasks
    BY <2>1, <2>2 DEF RunInv, RunShape, IInv, EachTaskInOneUnit
  <2>. QED
    BY <2>3 DEF RunInv, RunShape
<1>. QED
  BY <1>1, <1>2, RunStep, PTL DEF SpecRun

=============================================================================
