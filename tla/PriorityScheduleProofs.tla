----------------------- MODULE PriorityScheduleProofs -----------------------
(***************************************************************************)
(* Proofs that priority_schedule keeps its promises for every finite set   *)
(* of nodes and every prerequisite relation, circular ones included.       *)
(***************************************************************************)
EXTENDS PrioritySchedule, WellFoundedInduction, FiniteSetTheorems, TLAPS

(***************************************************************************)
(* A non-empty set of naturals has a least element.  This is also how the  *)
(* proofs do induction: the least counterexample of a claim is refuted.    *)
(***************************************************************************)
LEMMA LeastElement ==
  ASSUME NEW S \in SUBSET Nat, S # {}
  PROVE  \E x \in S : \A y \in S : x <= y
<1>. DEFINE R == {ss \in Nat \X Nat : ss[1] < ss[2]}
<1>1. IsWellFoundedOn(R, Nat)
  <2>1. R = OpToRel(<, Nat)
    BY DEF OpToRel
  <2>. QED
    BY <2>1, NatLessThanWellFounded, Zenon
<1>2. PICK x \in S : \A y \in S : ~ (<<y, x>> \in R)
  <2>. HIDE DEF R
  <2>. QED
    BY <1>1, WFMin, Zenon
<1>3. ASSUME NEW y \in S PROVE x <= y
  <2>1. <<y, x>> \in Nat \X Nat
    OBVIOUS
  <2>2. ~ (y < x)
    BY <1>2, <2>1
  <2>. QED
    BY <2>2
<1>. QED
  BY <1>3

OneToOne(s) == \A i, j \in DOMAIN s : s[i] = s[j] => i = j

(***************************************************************************)
(* A node is in one place at a time: in the heap, in the round, or listed. *)
(***************************************************************************)
PlacedOnce ==
  /\ OneToOne(current)
  /\ \A n \in Elements(current) : n \notin Elements(ordered)
  /\ \A n \in ready : n \notin Elements(current) /\ n \notin Elements(ordered)

(***************************************************************************)
(* What is listed: as many nodes as the list is long, each after what it   *)
(* waits for.                                                              *)
(***************************************************************************)
ListedInOrder ==
  /\ Cardinality(Elements(ordered)) = Len(ordered)
  /\ \A i \in DOMAIN ordered : \A q \in prerequisites[ordered[i]] :
       \E j \in DOMAIN ordered : j < i /\ ordered[j] = q

(***************************************************************************)
(* Why it stopped.                                                         *)
(***************************************************************************)
StopShape ==
  /\ pc \in {"done", "cycle"} => ready = {} /\ current = <<>>
  /\ pc = "done" => Elements(ordered) = Nodes
  /\ pc = "cycle" => Elements(ordered) # Nodes

(***************************************************************************)
(* While the heap is emptied, the round is in the heap's order and comes   *)
(* before all that is left in the heap.                                    *)
(***************************************************************************)
RoundSorted ==
  pc = "pop" =>
    /\ \A i, j \in DOMAIN current : i < j => Before(current[i], current[j])
    /\ \A i \in DOMAIN current : \A m \in ready : Before(current[i], m)

(***************************************************************************)
(* What is listed came with some round; the nodes left of a round are in   *)
(* the last group; and what has become ready since that group began waits  *)
(* for one of its nodes.                                                   *)
(***************************************************************************)
LastRound ==
  /\ \A q \in Elements(ordered) : \E e \in DOMAIN groups : q \in Elements(groups[e])
  /\ pc = "process" =>
       groups # <<>> /\ \A n \in Elements(current) : n \in Elements(groups[Len(groups)])
  /\ groups # <<>> => \A m \in ready :
       \E q \in prerequisites[m] : q \in Elements(groups[Len(groups)])
  /\ groups # <<>> /\ pc = "pop" => \A m \in Elements(current) :
       \E q \in prerequisites[m] : q \in Elements(groups[Len(groups)])

IInv ==
  /\ TypeOK
  /\ IndegreeIsOutstanding
  /\ PlacedOnce
  /\ ListedInOrder
  /\ StopShape
  /\ RoundSorted
  /\ LastRound
  /\ RoundsAreLevels

-----------------------------------------------------------------------------

(***************************************************************************)
(* What the queue operations do to the elements of a sequence.             *)
(***************************************************************************)
LEMMA AppendElements ==
  ASSUME NEW S, NEW s \in Seq(S), NEW x \in S
  PROVE  /\ Append(s, x) \in Seq(S)
         /\ Len(Append(s, x)) = Len(s) + 1
         /\ DOMAIN Append(s, x) = DOMAIN s \cup {Len(s) + 1}
         /\ \A i \in DOMAIN s : Append(s, x)[i] = s[i] /\ i < Len(s) + 1
         /\ Append(s, x)[Len(s) + 1] = x
         /\ Elements(Append(s, x)) = Elements(s) \cup {x}
<1>1. /\ Append(s, x) \in Seq(S)
      /\ Len(Append(s, x)) = Len(s) + 1
      /\ DOMAIN Append(s, x) = DOMAIN s \cup {Len(s) + 1}
      /\ \A i \in DOMAIN s : Append(s, x)[i] = s[i] /\ i < Len(s) + 1
      /\ Append(s, x)[Len(s) + 1] = x
  OBVIOUS
<1>2. Elements(Append(s, x)) = Elements(s) \cup {x}
  BY <1>1 DEF Elements
<1>. QED
  BY <1>1, <1>2

LEMMA TailElements ==
  ASSUME NEW S, NEW s \in Seq(S), s # <<>>, OneToOne(s)
  PROVE  /\ Head(s) \in S
         /\ Tail(s) \in Seq(S)
         /\ Elements(s) = Elements(Tail(s)) \cup {Head(s)}
         /\ Head(s) \notin Elements(Tail(s))
         /\ OneToOne(Tail(s))
<1>1. /\ Head(s) \in S /\ Tail(s) \in Seq(S)
      /\ Head(s) = s[1] /\ Len(s) \in Nat \ {0}
      /\ DOMAIN s = 1 .. Len(s)
      /\ DOMAIN Tail(s) = 1 .. Len(s) - 1
      /\ \A i \in 1 .. Len(s) - 1 : Tail(s)[i] = s[i + 1]
  OBVIOUS
<1>2. OneToOne(Tail(s))
  BY <1>1 DEF OneToOne
<1>3. Head(s) \notin Elements(Tail(s))
  BY <1>1 DEF OneToOne, Elements
<1>4. ASSUME NEW x \in Elements(s) PROVE x \in Elements(Tail(s)) \cup {Head(s)}
  <2>1. PICK i \in 1 .. Len(s) : s[i] = x
    BY <1>1 DEF Elements
  <2>2. CASE i = 1
    BY <1>1, <2>1, <2>2
  <2>3. CASE i # 1
    <3>1. i - 1 \in 1 .. Len(s) - 1 /\ Tail(s)[i - 1] = x
      BY <1>1, <2>1, <2>3
    <3>. QED
      BY <1>1, <3>1 DEF Elements
  <2>. QED
    BY <2>2, <2>3
<1>5. ASSUME NEW x \in Elements(Tail(s)) \cup {Head(s)} PROVE x \in Elements(s)
  BY <1>1 DEF Elements
<1>. QED
  BY <1>1, <1>2, <1>3, <1>4, <1>5

(***************************************************************************)
(* Any set of prerequisites is finite, and its size tells if it is empty.  *)
(***************************************************************************)
LEMMA SizeOfNodes ==
  ASSUME NEW S \in SUBSET Nodes
  PROVE  /\ IsFiniteSet(S)
         /\ Cardinality(S) \in Nat
         /\ Cardinality(S) = 0 <=> S = {}
         /\ \A x : Cardinality(S \ {x}) = IF x \in S THEN Cardinality(S) - 1
                                                     ELSE Cardinality(S)
         /\ \A x : x \notin S => Cardinality(S \cup {x}) = Cardinality(S) + 1
<1>1. IsFiniteSet(S)
  BY NodesAssumption, FS_Subset
<1>2. Cardinality(S) \in Nat
  BY <1>1, FS_CardinalityType
<1>3. Cardinality(S) = 0 <=> S = {}
  BY <1>1, FS_EmptySet
<1>4. ASSUME NEW x
      PROVE  Cardinality(S \ {x}) = IF x \in S THEN Cardinality(S) - 1 ELSE Cardinality(S)
  BY <1>1, FS_RemoveElement
<1>5. ASSUME NEW x, x \notin S PROVE Cardinality(S \cup {x}) = Cardinality(S) + 1
  BY <1>1, <1>5, FS_AddElement
<1>. QED
  BY <1>1, <1>2, <1>3, <1>4, <1>5

LEMMA ElementsOfNodes ==
  ASSUME NEW s \in Seq(Nodes) PROVE Elements(s) \subseteq Nodes
BY DEF Elements

-----------------------------------------------------------------------------

LEMMA InitType == Init => TypeOK
<1>. SUFFICES ASSUME Init PROVE TypeOK
  OBVIOUS
<1>1. prerequisites \in [Nodes -> SUBSET Nodes]
  BY GraphsAssumption DEF Init
<1>2. \A n \in Nodes : Cardinality(prerequisites[n]) \in Int
  <2>. TAKE n \in Nodes
  <2>1. Cardinality(prerequisites[n]) \in Nat
    BY <1>1, SizeOfNodes
  <2>. QED
    BY <2>1
<1>3. indegree \in [Nodes -> Int]
  BY <1>2 DEF Init
<1>. QED
  BY <1>1, <1>3 DEF Init, TypeOK

LEMMA NextType == TypeOK /\ [Next]_vars => TypeOK'
<1>. SUFFICES ASSUME TypeOK, [Next]_vars PROVE TypeOK'
  OBVIOUS
<1>. USE DEF TypeOK
<1>1. CASE PopReady
  BY <1>1 DEF PopReady
<1>2. CASE StartRound
  BY <1>2 DEF StartRound
<1>3. CASE ProcessNode
  <2>1. Head(current) \in Nodes /\ Tail(current) \in Seq(Nodes)
    BY <1>3 DEF ProcessNode
  <2>. QED
    BY <1>3, <2>1 DEF ProcessNode, Outgoing
<1>4. CASE EndRound
  BY <1>4 DEF EndRound
<1>5. CASE Finish
  BY <1>5 DEF Finish
<1>6. CASE UNCHANGED vars
  BY <1>6 DEF vars
<1>. QED
  BY <1>1, <1>2, <1>3, <1>4, <1>5, <1>6 DEF Next, Step, Terminated

LEMMA InitIInv == Init => IInv
<1>. SUFFICES ASSUME Init PROVE IInv
  OBVIOUS
<1>1. TypeOK
  BY InitType
<1>2. /\ current = <<>> /\ ordered = <<>> /\ groups = <<>> /\ pc = "pop"
      /\ indegree = [n \in Nodes |-> Cardinality(prerequisites[n])]
      /\ ready = {n \in Nodes : prerequisites[n] = {}}
  BY DEF Init
<1>3. Elements(current) = {} /\ Elements(ordered) = {}
  BY <1>2 DEF Elements
<1>4. IndegreeIsOutstanding
  <2>. SUFFICES ASSUME NEW n \in Nodes
                PROVE  /\ indegree[n] = Cardinality(prerequisites[n] \ Elements(ordered))
                       /\ n \in ready \cup Elements(current) \cup Elements(ordered)
                          <=> indegree[n] = 0
    BY DEF IndegreeIsOutstanding
  <2>1. prerequisites[n] \ Elements(ordered) = prerequisites[n]
    BY <1>3
  <2>2. Cardinality(prerequisites[n]) = 0 <=> prerequisites[n] = {}
    BY <1>1, SizeOfNodes DEF TypeOK
  <2>. QED
    BY <1>2, <1>3, <2>1, <2>2
<1>5. PlacedOnce /\ StopShape /\ RoundSorted
  BY <1>2, <1>3 DEF PlacedOnce, StopShape, RoundSorted, OneToOne
<1>6. ListedInOrder
  BY <1>2, <1>3, FS_EmptySet DEF ListedInOrder
<1>7. LastRound /\ RoundsAreLevels
  BY <1>2, <1>3 DEF LastRound, RoundsAreLevels
<1>. QED
  BY <1>1, <1>4, <1>5, <1>6, <1>7 DEF IInv

(***************************************************************************)
(* The heap's order is a matter of the graph alone.                        *)
(***************************************************************************)
LEMMA BeforeStable ==
  ASSUME UNCHANGED prerequisites, NEW n, NEW m
  PROVE  Before(n, m)' <=> Before(n, m)
BY DEF Before, BlockedCount, Descendants, Outgoing

(***************************************************************************)
(* The facts about an unchanged list, and about unchanged groups.          *)
(***************************************************************************)
LEMMA ListStable ==
  ASSUME IInv, UNCHANGED <<prerequisites, ordered>>
  PROVE  ListedInOrder'
BY DEF IInv, ListedInOrder, Elements

LEMMA GroupsStable ==
  ASSUME IInv, UNCHANGED <<prerequisites, groups>>
  PROVE  RoundsAreLevels'
<1>1. /\ \A g \in DOMAIN groups : \A i \in DOMAIN groups[g] :
           /\ \A q \in prerequisites[groups[g][i]] :
                \E e \in DOMAIN groups : e < g /\ q \in Elements(groups[e])
           /\ g > 1 => \E q \in prerequisites[groups[g][i]] : q \in Elements(groups[g - 1])
           /\ \A j \in DOMAIN groups[g] : i < j => Before(groups[g][i], groups[g][j])
  BY DEF IInv, RoundsAreLevels
<1>2. \A n, m : Before(n, m)' <=> Before(n, m)
  BY BeforeStable
<1>. QED
  BY <1>1, <1>2 DEF RoundsAreLevels, Elements

(***************************************************************************)
(* A node of the heap or of the round waits for listed nodes only.         *)
(***************************************************************************)
LEMMA ReadyMeansListed ==
  ASSUME IInv, NEW n \in ready \cup Elements(current)
  PROVE  n \in Nodes /\ \A q \in prerequisites[n] : q \in Elements(ordered)
<1>1. n \in Nodes
  BY ElementsOfNodes DEF IInv, TypeOK
<1>2. prerequisites[n] \ Elements(ordered) \in SUBSET Nodes
  BY <1>1 DEF IInv, TypeOK
<1>3. indegree[n] = Cardinality(prerequisites[n] \ Elements(ordered)) /\ indegree[n] = 0
  BY <1>1 DEF IInv, IndegreeIsOutstanding
<1>4. prerequisites[n] \ Elements(ordered) = {}
  BY <1>2, <1>3, SizeOfNodes
<1>. QED
  BY <1>1, <1>4

-----------------------------------------------------------------------------

LEMMA PopReadyStep == IInv /\ PopReady => IInv'
<1>. SUFFICES ASSUME IInv, PopReady PROVE IInv'
  OBVIOUS
<1>1. PICK n \in ready :
        /\ \A m \in ready \ {n} : Before(n, m)
        /\ ready' = ready \ {n}
        /\ current' = Append(current, n)
  BY DEF PopReady
<1>2. UNCHANGED <<prerequisites, indegree, ordered, groups, pc>> /\ pc = "pop"
  BY DEF PopReady
<1>3. TypeOK'
  BY NextType DEF IInv, Next, Step
<1>4. n \in Nodes /\ current \in Seq(Nodes) /\ Len(current) \in Nat
  BY <1>1 DEF IInv, TypeOK
<1>5. /\ DOMAIN current' = DOMAIN current \cup {Len(current) + 1}
      /\ \A i \in DOMAIN current : current'[i] = current[i] /\ i < Len(current) + 1
      /\ current'[Len(current) + 1] = n
  BY <1>1, <1>4, AppendElements
<1>6. Elements(current)' = Elements(current) \cup {n} /\ Elements(ordered)' = Elements(ordered)
  <2>1. Elements(Append(current, n)) = Elements(current) \cup {n}
    BY <1>4, AppendElements
  <2>. QED
    BY <1>1, <1>2, <2>1 DEF Elements
<1>7. n \notin Elements(current) /\ n \notin Elements(ordered)
  BY <1>1 DEF IInv, PlacedOnce
<1>8. IndegreeIsOutstanding'
  <2>1. (ready \cup Elements(current))' = ready \cup Elements(current)
    BY <1>1, <1>6
  <2>. QED
    BY <1>2, <1>6, <2>1 DEF IInv, IndegreeIsOutstanding
<1>9. PlacedOnce'
  <2>1. \A i \in DOMAIN current : current[i] # n
    BY <1>7 DEF Elements
  <2>2. OneToOne(current)'
    BY <1>4, <1>5, <2>1 DEF IInv, PlacedOnce, OneToOne
  <2>. QED
    BY <1>1, <1>6, <1>7, <2>2 DEF IInv, PlacedOnce
<1>10. ListedInOrder'
  BY <1>2, ListStable
<1>11. StopShape'
  BY <1>2 DEF StopShape
<1>12. RoundSorted'
  <2>1. \A i, j \in DOMAIN current : i < j => Before(current[i], current[j])
    BY <1>2 DEF IInv, RoundSorted
  <2>2. \A i \in DOMAIN current : \A m \in ready : Before(current[i], m)
    BY <1>2 DEF IInv, RoundSorted
  <2>3. \A i, j \in DOMAIN current' : i < j => Before(current'[i], current'[j])
    <3>. SUFFICES ASSUME NEW i \in DOMAIN current', NEW j \in DOMAIN current', i < j
                  PROVE  Before(current'[i], current'[j])
      OBVIOUS
    <3>1. i \in DOMAIN current
      BY <1>4, <1>5
    <3>. QED
      BY <1>1, <1>5, <2>1, <2>2, <3>1
  <2>4. \A i \in DOMAIN current' : \A m \in ready' : Before(current'[i], m)
    BY <1>1, <1>5, <2>2
  <2>5. \A x, y : Before(x, y)' <=> Before(x, y)
    BY <1>2, BeforeStable
  <2>. QED
    BY <2>3, <2>4, <2>5 DEF RoundSorted
<1>13. LastRound'
  BY <1>1, <1>2, <1>6 DEF IInv, LastRound, Elements
<1>14. RoundsAreLevels'
  BY <1>2, GroupsStable
<1>. QED
  BY <1>3, <1>8, <1>9, <1>10, <1>11, <1>12, <1>13, <1>14 DEF IInv

LEMMA StartRoundStep == IInv /\ StartRound => IInv'
<1>. SUFFICES ASSUME IInv, StartRound PROVE IInv'
  OBVIOUS
<1>1. /\ groups' = Append(groups, current)
      /\ pc = "pop" /\ pc' = "process" /\ ready = {} /\ current # <<>>
      /\ UNCHANGED <<prerequisites, indegree, ready, current, ordered>>
  BY DEF StartRound
<1>2. TypeOK'
  BY NextType DEF IInv, Next, Step
<1>3. groups \in Seq(Seq(Nodes)) /\ Len(groups) \in Nat /\ current \in Seq(Nodes)
  BY DEF IInv, TypeOK
<1>4. /\ Len(groups') = Len(groups) + 1
      /\ DOMAIN groups' = DOMAIN groups \cup {Len(groups) + 1}
      /\ \A g \in DOMAIN groups : groups'[g] = groups[g] /\ g < Len(groups) + 1
      /\ groups'[Len(groups) + 1] = current
      /\ DOMAIN groups = 1 .. Len(groups)
  BY <1>1, <1>3, AppendElements
<1>5. Elements(current)' = Elements(current) /\ Elements(ordered)' = Elements(ordered)
  BY <1>1 DEF Elements
<1>6. IndegreeIsOutstanding' /\ PlacedOnce' /\ StopShape' /\ RoundSorted'
  BY <1>1, <1>5 DEF IInv, IndegreeIsOutstanding, PlacedOnce, OneToOne, StopShape, RoundSorted
<1>7. ListedInOrder'
  BY <1>1, ListStable
<1>8. LastRound'
  <2>1. \A q \in Elements(ordered) : \E e \in DOMAIN groups : q \in Elements(groups[e])
    BY DEF IInv, LastRound
  <2>2. \A q \in Elements(ordered) : \E e \in DOMAIN groups' : q \in Elements(groups'[e])
    BY <1>4, <2>1
  <2>3. groups' # <<>> /\ groups'[Len(groups')] = current
    BY <1>3, <1>4
  <2>. QED
    BY <1>1, <1>5, <2>2, <2>3 DEF LastRound, Elements
<1>9. RoundsAreLevels'
  <2>1. ASSUME NEW g \in DOMAIN groups', NEW i \in DOMAIN groups'[g]
        PROVE  /\ \A q \in prerequisites[groups'[g][i]] :
                    \E e \in DOMAIN groups' : e < g /\ q \in Elements(groups'[e])
               /\ g > 1 => \E q \in prerequisites[groups'[g][i]] :
                             q \in Elements(groups'[g - 1])
               /\ \A j \in DOMAIN groups'[g] : i < j => Before(groups'[g][i], groups'[g][j])
    <3>1. CASE g \in DOMAIN groups
      <4>1. groups'[g] = groups[g] /\ i \in DOMAIN groups[g]
        BY <1>4, <3>1
      <4>2. \A q \in prerequisites[groups[g][i]] :
              \E e \in DOMAIN groups : e < g /\ q \in Elements(groups[e])
        BY <3>1, <4>1 DEF IInv, RoundsAreLevels
      <4>3. g > 1 => \E q \in prerequisites[groups[g][i]] : q \in Elements(groups[g - 1])
        BY <3>1, <4>1 DEF IInv, RoundsAreLevels
      <4>4. \A j \in DOMAIN groups[g] : i < j => Before(groups[g][i], groups[g][j])
        BY <3>1, <4>1 DEF IInv, RoundsAreLevels
      <4>5. g > 1 => groups'[g - 1] = groups[g - 1]
        BY <1>3, <1>4, <3>1
      <4>6. \A e \in DOMAIN groups : e \in DOMAIN groups' /\ groups'[e] = groups[e]
        BY <1>4
      <4>. QED
        BY <4>1, <4>2, <4>3, <4>4, <4>5, <4>6
    <3>2. CASE g = Len(groups) + 1
      <4>1. groups'[g] = current /\ i \in DOMAIN current
        BY <1>4, <3>2
      <4>2. current[i] \in Elements(current)
        BY <4>1 DEF Elements
      <4>3. \A q \in prerequisites[current[i]] : q \in Elements(ordered)
        BY <4>2, ReadyMeansListed
      <4>4. \A q \in Elements(ordered) : \E e \in DOMAIN groups : q \in Elements(groups[e])
        BY DEF IInv, LastRound
      <4>5. \A q \in prerequisites[current[i]] :
              \E e \in DOMAIN groups' : e < g /\ q \in Elements(groups'[e])
        BY <1>4, <3>2, <4>3, <4>4
      <4>6. g > 1 => \E q \in prerequisites[current[i]] : q \in Elements(groups'[g - 1])
        <5>. SUFFICES ASSUME g > 1
                      PROVE  \E q \in prerequisites[current[i]] : q \in Elements(groups'[g - 1])
          OBVIOUS
        <5>1. groups # <<>> /\ groups'[g - 1] = groups[Len(groups)]
          BY <1>3, <1>4, <3>2
        <5>. QED
          BY <1>1, <4>2, <5>1 DEF IInv, LastRound
      <4>7. \A j \in DOMAIN current : i < j => Before(current[i], current[j])
        BY <1>1, <4>1 DEF IInv, RoundSorted
      <4>. QED
        BY <4>1, <4>5, <4>6, <4>7
    <3>. QED
      BY <1>4, <3>1, <3>2
  <2>2. \A x, y : Before(x, y)' <=> Before(x, y)
    BY <1>1, BeforeStable
  <2>3. \A g \in DOMAIN groups' : \A i \in DOMAIN groups'[g] :
          \A q \in prerequisites'[groups'[g][i]] :
            \E e \in DOMAIN groups' : e < g /\ q \in Elements(groups'[e])
    BY <1>1, <2>1
  <2>4. \A g \in DOMAIN groups' : \A i \in DOMAIN groups'[g] :
          g > 1 => \E q \in prerequisites'[groups'[g][i]] : q \in Elements(groups'[g - 1])
    BY <1>1, <2>1
  <2>5. \A g \in DOMAIN groups' : \A i, j \in DOMAIN groups'[g] :
          i < j => Before(groups[g][i], groups[g][j])'
    BY <2>1, <2>2
  <2>. QED
    BY <2>3, <2>4, <2>5 DEF RoundsAreLevels, Elements
<1>. QED
  BY <1>2, <1>6, <1>7, <1>8, <1>9 DEF IInv

(***************************************************************************)
(* What processing the head of the round does to the counts.               *)
(***************************************************************************)
LEMMA ProcessNodeCounts ==
  ASSUME IInv, ProcessNode, NEW n, n = Head(current)
  PROVE  /\ n \in Elements(current) /\ n \in Nodes /\ n \notin Outgoing(n)
         /\ current' \in Seq(Nodes) /\ OneToOne(current)'
         /\ Elements(current) = Elements(current)' \cup {n} /\ n \notin Elements(current)'
         /\ Elements(ordered)' = Elements(ordered) \cup {n}
         /\ \A m \in ready' \ ready : m \in Outgoing(n)
         /\ \A m \in Outgoing(n) : m \notin ready \cup Elements(current) \cup Elements(ordered)
         /\ IndegreeIsOutstanding'
<1>1. /\ pc = "process" /\ current # <<>>
      /\ ordered' = Append(ordered, n)
      /\ indegree' = [m \in Nodes |-> IF m \in Outgoing(n) THEN indegree[m] - 1 ELSE indegree[m]]
      /\ ready' = ready \cup {m \in Outgoing(n) : indegree[m] = 1}
      /\ current' = Tail(current)
      /\ UNCHANGED prerequisites
  BY DEF ProcessNode
<1>2. /\ current \in Seq(Nodes) /\ ordered \in Seq(Nodes) /\ OneToOne(current)
      /\ indegree \in [Nodes -> Int] /\ prerequisites \in [Nodes -> SUBSET Nodes]
  BY DEF IInv, TypeOK, PlacedOnce
<1>3. /\ n \in Nodes /\ Tail(current) \in Seq(Nodes) /\ OneToOne(Tail(current))
      /\ Elements(current) = Elements(Tail(current)) \cup {n}
      /\ n \notin Elements(Tail(current))
  BY <1>1, <1>2, TailElements
<1>4. /\ current' \in Seq(Nodes) /\ OneToOne(current)'
      /\ Elements(current) = Elements(current)' \cup {n} /\ n \notin Elements(current)'
  BY <1>1, <1>3 DEF Elements, OneToOne
<1>5. Elements(ordered)' = Elements(ordered) \cup {n}
  <2>1. Elements(Append(ordered, n)) = Elements(ordered) \cup {n}
    BY <1>2, <1>3, AppendElements
  <2>. QED
    BY <1>1, <2>1 DEF Elements
<1>6. n \in Elements(current) /\ n \notin Elements(ordered)
  BY <1>3 DEF IInv, PlacedOnce
<1>7. ASSUME NEW m \in Outgoing(n)
      PROVE  m \in Nodes /\ indegree[m] # 0
             /\ m \notin ready \cup Elements(current) \cup Elements(ordered)
  <2>1. m \in Nodes /\ n \in prerequisites[m] \ Elements(ordered)
    BY <1>6 DEF Outgoing
  <2>2. prerequisites[m] \ Elements(ordered) \in SUBSET Nodes
    BY <1>2, <2>1
  <2>3. indegree[m] # 0
    BY <2>1, <2>2, SizeOfNodes DEF IInv, IndegreeIsOutstanding
  <2>. QED
    BY <2>1, <2>3 DEF IInv, IndegreeIsOutstanding
<1>8. n \notin Outgoing(n)
  BY <1>6, <1>7
<1>9. \A m \in ready' \ ready : m \in Outgoing(n)
  BY <1>1
<1>10. ASSUME NEW m \in Nodes
       PROVE  /\ indegree'[m] = Cardinality(prerequisites[m] \ Elements(ordered)')
              /\ m \in (ready \cup Elements(current) \cup Elements(ordered))'
                 <=> indegree'[m] = 0
  <2>. DEFINE out == prerequisites[m] \ Elements(ordered)
  <2>1. out \in SUBSET Nodes /\ indegree[m] = Cardinality(out) /\ indegree[m] \in Int
    BY <1>2 DEF IInv, IndegreeIsOutstanding
  <2>2. prerequisites[m] \ Elements(ordered)' = out \ {n}
    BY <1>5
  <2>3. n \in out <=> m \in Outgoing(n)
    BY <1>6 DEF Outgoing
  <2>4. Cardinality(out \ {n}) = IF n \in out THEN Cardinality(out) - 1 ELSE Cardinality(out)
    <3>. HIDE DEF out
    <3>. QED
      BY <2>1, SizeOfNodes
  <2>5. indegree'[m] = IF m \in Outgoing(n) THEN indegree[m] - 1 ELSE indegree[m]
    BY <1>1
  <2>6. indegree'[m] = Cardinality(prerequisites[m] \ Elements(ordered)')
    <3>. HIDE DEF out
    <3>. QED
      BY <2>1, <2>2, <2>3, <2>4, <2>5
  <2>7. m \in (ready \cup Elements(current) \cup Elements(ordered))'
        <=> \/ m \in ready \cup Elements(current) \cup Elements(ordered)
            \/ m \in Outgoing(n) /\ indegree[m] = 1
    BY <1>1, <1>4, <1>5
  <2>8. m \in ready \cup Elements(current) \cup Elements(ordered) <=> indegree[m] = 0
    BY DEF IInv, IndegreeIsOutstanding
  <2>9. indegree'[m] = 0 <=> indegree[m] = 0 \/ (m \in Outgoing(n) /\ indegree[m] = 1)
    BY <1>7, <2>1, <2>5
  <2>. QED
    BY <2>6, <2>7, <2>8, <2>9
<1>11. IndegreeIsOutstanding'
  BY <1>1, <1>10 DEF IndegreeIsOutstanding
<1>. QED
  BY <1>3, <1>4, <1>5, <1>6, <1>7, <1>8, <1>9, <1>11

LEMMA ProcessNodeStep == IInv /\ ProcessNode => IInv'
<1>. SUFFICES ASSUME IInv, ProcessNode PROVE IInv'
  OBVIOUS
<1>1. PICK n : n = Head(current)
  OBVIOUS
<1>2. /\ pc = "process" /\ pc' = "process" /\ current # <<>>
      /\ ordered' = Append(ordered, n)
      /\ UNCHANGED <<prerequisites, groups>>
      /\ ready \subseteq ready'
  BY <1>1 DEF ProcessNode
<1>3. /\ n \in Elements(current) /\ n \in Nodes /\ n \notin Outgoing(n)
      /\ current' \in Seq(Nodes) /\ OneToOne(current)'
      /\ Elements(current) = Elements(current)' \cup {n} /\ n \notin Elements(current)'
      /\ Elements(ordered)' = Elements(ordered) \cup {n}
      /\ \A m \in ready' \ ready : m \in Outgoing(n)
      /\ \A m \in Outgoing(n) : m \notin ready \cup Elements(current) \cup Elements(ordered)
      /\ IndegreeIsOutstanding'
  BY <1>1, ProcessNodeCounts
<1>4. TypeOK'
  BY NextType DEF IInv, Next, Step
<1>5. PlacedOnce'
  <2>1. \A m \in Elements(current)' : m \notin Elements(ordered)'
    BY <1>3 DEF IInv, PlacedOnce
  <2>2. ASSUME NEW m \in ready'
        PROVE  m \notin Elements(current)' /\ m \notin Elements(ordered)'
    <3>1. m \notin Elements(current) /\ m \notin Elements(ordered)
      BY <1>3 DEF IInv, PlacedOnce
    <3>. QED
      BY <1>3, <3>1
  <2>. QED
    BY <1>3, <2>1, <2>2 DEF PlacedOnce
<1>6. ListedInOrder'
  <2>1. ordered \in Seq(Nodes) /\ Len(ordered) \in Nat
    BY DEF IInv, TypeOK
  <2>2. /\ Len(ordered') = Len(ordered) + 1
        /\ DOMAIN ordered' = DOMAIN ordered \cup {Len(ordered) + 1}
        /\ \A i \in DOMAIN ordered : ordered'[i] = ordered[i] /\ i < Len(ordered) + 1
        /\ ordered'[Len(ordered) + 1] = n
    BY <1>2, <1>3, <2>1, AppendElements
  <2>3. Cardinality(Elements(ordered))' = Len(ordered')
    <3>1. Elements(ordered) \in SUBSET Nodes /\ n \notin Elements(ordered)
      BY <1>3, <2>1, ElementsOfNodes DEF IInv, PlacedOnce
    <3>2. Cardinality(Elements(ordered) \cup {n}) = Cardinality(Elements(ordered)) + 1
      BY <3>1, SizeOfNodes
    <3>3. Cardinality(Elements(ordered)) = Len(ordered)
      BY DEF IInv, ListedInOrder
    <3>. QED
      BY <1>3, <2>2, <3>2, <3>3
  <2>4. ASSUME NEW i \in DOMAIN ordered', NEW q \in prerequisites[ordered'[i]]
        PROVE  \E j \in DOMAIN ordered' : j < i /\ ordered'[j] = q
    <3>1. CASE i \in DOMAIN ordered
      <4>1. \E j \in DOMAIN ordered : j < i /\ ordered[j] = q
        BY <2>2, <3>1 DEF IInv, ListedInOrder
      <4>. QED
        BY <2>2, <4>1
    <3>2. CASE i = Len(ordered) + 1
      <4>1. q \in Elements(ordered)
        BY <1>3, <2>2, <3>2, ReadyMeansListed
      <4>2. PICK j \in DOMAIN ordered : ordered[j] = q
        BY <4>1 DEF Elements
      <4>. QED
        BY <2>2, <3>2, <4>2
    <3>. QED
      BY <2>2, <3>1, <3>2
  <2>. QED
    BY <1>2, <2>3, <2>4 DEF ListedInOrder
<1>7. StopShape' /\ RoundSorted'
  BY <1>2 DEF StopShape, RoundSorted
<1>8. LastRound'
  <2>1. groups # <<>> /\ \A m \in Elements(current) : m \in Elements(groups[Len(groups)])
    BY <1>2 DEF IInv, LastRound
  <2>2. Len(groups) \in DOMAIN groups
    BY <2>1 DEF IInv, TypeOK
  <2>3. ASSUME NEW q \in Elements(ordered)'
        PROVE  \E e \in DOMAIN groups : q \in Elements(groups[e])
    <3>1. CASE q \in Elements(ordered)
      BY <3>1 DEF IInv, LastRound
    <3>2. CASE q = n
      BY <1>3, <2>1, <2>2, <3>2
    <3>. QED
      BY <1>3, <3>1, <3>2
  <2>4. ASSUME NEW m \in ready'
        PROVE  \E q \in prerequisites[m] : q \in Elements(groups[Len(groups)])
    <3>1. CASE m \in ready
      BY <2>1, <3>1 DEF IInv, LastRound
    <3>2. CASE m \notin ready
      <4>1. n \in prerequisites[m]
        BY <1>3, <3>2 DEF Outgoing
      <4>. QED
        BY <1>3, <2>1, <4>1
    <3>. QED
      BY <3>1, <3>2
  <2>5. \A m \in Elements(current)' : m \in Elements(groups[Len(groups)])
    BY <1>3, <2>1
  <2>6. Elements(groups[Len(groups)])' = Elements(groups[Len(groups)])
    BY <1>2 DEF Elements
  <2>7. \A e : Elements(groups[e])' = Elements(groups[e])
    BY <1>2 DEF Elements
  <2>. QED
    BY <1>2, <2>1, <2>3, <2>4, <2>5, <2>6, <2>7 DEF LastRound
<1>9. RoundsAreLevels'
  BY <1>2, GroupsStable
<1>. QED
  BY <1>3, <1>4, <1>5, <1>6, <1>7, <1>8, <1>9 DEF IInv

LEMMA NextIInv == IInv /\ [Next]_vars => IInv'
<1>. SUFFICES ASSUME IInv, [Next]_vars PROVE IInv'
  OBVIOUS
<1>1. CASE EndRound
  <2>1. /\ pc = "process" /\ pc' = "pop" /\ current = <<>>
        /\ UNCHANGED <<prerequisites, indegree, ready, current, ordered, groups>>
    BY <1>1 DEF EndRound
  <2>2. TypeOK' /\ ListedInOrder' /\ RoundsAreLevels'
    BY <1>1, <2>1, NextType, ListStable, GroupsStable DEF IInv
  <2>3. IndegreeIsOutstanding' /\ PlacedOnce' /\ StopShape' /\ RoundSorted'
    BY <2>1 DEF IInv, IndegreeIsOutstanding, PlacedOnce, StopShape, RoundSorted, Elements, OneToOne
  <2>4. LastRound'
    BY <2>1 DEF IInv, LastRound, Elements
  <2>. QED
    BY <2>2, <2>3, <2>4 DEF IInv
<1>2. CASE Finish
  <2>1. /\ pc = "pop" /\ ready = {} /\ current = <<>>
        /\ pc' = IF Len(ordered) = Cardinality(Nodes) THEN "done" ELSE "cycle"
        /\ UNCHANGED <<prerequisites, indegree, ready, current, ordered, groups>>
    BY <1>2 DEF Finish
  <2>2. TypeOK' /\ ListedInOrder' /\ RoundsAreLevels'
    BY <1>2, <2>1, NextType, ListStable, GroupsStable DEF IInv
  <2>3. IndegreeIsOutstanding' /\ PlacedOnce' /\ RoundSorted' /\ LastRound'
    BY <2>1 DEF IInv, IndegreeIsOutstanding, PlacedOnce, RoundSorted, LastRound, Elements, OneToOne
  <2>4. Len(ordered) = Cardinality(Nodes) <=> Elements(ordered) = Nodes
    <3>1. Elements(ordered) \in SUBSET Nodes
      BY ElementsOfNodes DEF IInv, TypeOK
    <3>2. Cardinality(Nodes) = Cardinality(Elements(ordered)) => Nodes = Elements(ordered)
      BY <3>1, NodesAssumption, FS_Subset
    <3>. QED
      BY <3>2 DEF IInv, ListedInOrder
  <2>5. StopShape'
    BY <2>1, <2>4 DEF StopShape, Elements
  <2>. QED
    BY <2>2, <2>3, <2>5 DEF IInv
<1>3. CASE UNCHANGED vars
  <2>1. UNCHANGED <<prerequisites, indegree, ready, current, ordered, groups, pc>>
    BY <1>3 DEF vars
  <2>2. TypeOK' /\ ListedInOrder' /\ RoundsAreLevels'
    BY <2>1, <1>3, NextType, ListStable, GroupsStable DEF IInv
  <2>3. IndegreeIsOutstanding' /\ PlacedOnce' /\ StopShape' /\ LastRound'
    BY <2>1 DEF IInv, IndegreeIsOutstanding, PlacedOnce, StopShape, LastRound, Elements, OneToOne
  <2>4. \A x, y : Before(x, y)' <=> Before(x, y)
    BY <2>1, BeforeStable
  <2>5. RoundSorted'
    BY <2>1, <2>4 DEF IInv, RoundSorted
  <2>. QED
    BY <2>2, <2>3, <2>5 DEF IInv
<1>. QED
  BY <1>1, <1>2, <1>3, PopReadyStep, StartRoundStep, ProcessNodeStep DEF Next, Step, Terminated

(***************************************************************************)
(* The inductive invariant holds in every reachable state.                 *)
(***************************************************************************)
THEOREM Invariance == Spec => []IInv
BY InitIInv, NextIInv, PTL DEF Spec

-----------------------------------------------------------------------------

(***************************************************************************)
(* No node of a circle is ever listed: the first one listed would follow   *)
(* another of the same circle.                                             *)
(***************************************************************************)
LEMMA CirclesUnlisted ==
  ASSUME IInv, NEW S \in SUBSET Nodes, Circular(S)
  PROVE  S \cap Elements(ordered) = {}
<1>. SUFFICES ASSUME S \cap Elements(ordered) # {} PROVE FALSE
  OBVIOUS
<1>. DEFINE places == {i \in DOMAIN ordered : ordered[i] \in S}
<1>1. places \in SUBSET Nat /\ places # {}
  BY DEF Elements, IInv, TypeOK
<1>2. PICK i \in places : \A j \in places : i <= j
  <2>. HIDE DEF places
  <2>. QED
    BY <1>1, LeastElement
<1>3. PICK q \in prerequisites[ordered[i]] : q \in S
  BY <1>2 DEF Circular
<1>4. PICK j \in DOMAIN ordered : j < i /\ ordered[j] = q
  BY <1>2, <1>3 DEF IInv, ListedInOrder
<1>5. j \in places
  BY <1>3, <1>4
<1>6. i \in Nat /\ j \in Nat
  BY <1>1, <1>2, <1>5
<1>. QED
  BY <1>2, <1>4, <1>5, <1>6

(***************************************************************************)
(* The cycle error is raised exactly for graphs with a circle, and the     *)
(* nodes left with an indegree, which the message names, hold every one.   *)
(***************************************************************************)
THEOREM CycleErrorExact == Spec => []CycleErrorIsExact
<1>1. IInv => CycleErrorIsExact
  <2>. SUFFICES ASSUME IInv PROVE CycleErrorIsExact
    OBVIOUS
  <2>. DEFINE left == {n \in Nodes : indegree[n] > 0}
  <2>1. ASSUME pc = "cycle"
        PROVE  Circular(left) /\ \A S \in SUBSET Nodes : Circular(S) => S \subseteq left
    <3>1. ready = {} /\ Elements(current) = {} /\ Elements(ordered) # Nodes
          /\ Elements(ordered) \subseteq Nodes
      BY <2>1, ElementsOfNodes DEF IInv, TypeOK, StopShape, Elements
    <3>2. ASSUME NEW n \in Nodes
          PROVE  /\ prerequisites[n] \ Elements(ordered) \in SUBSET Nodes
                 /\ n \in left <=> n \notin Elements(ordered)
                 /\ n \in left => prerequisites[n] \ Elements(ordered) # {}
      <4>1. prerequisites[n] \ Elements(ordered) \in SUBSET Nodes
        BY DEF IInv, TypeOK
      <4>2. /\ indegree[n] = Cardinality(prerequisites[n] \ Elements(ordered))
            /\ n \in Elements(ordered) <=> indegree[n] = 0
        BY <3>1 DEF IInv, IndegreeIsOutstanding
      <4>3. indegree[n] \in Nat /\ (indegree[n] = 0 <=> prerequisites[n] \ Elements(ordered) = {})
        BY <4>1, <4>2, SizeOfNodes
      <4>. QED
        BY <4>1, <4>2, <4>3
    <3>3. left # {}
      BY <3>1, <3>2
    <3>4. \A n \in left : prerequisites[n] \cap left # {}
      <4>. SUFFICES ASSUME NEW n \in left PROVE prerequisites[n] \cap left # {}
        OBVIOUS
      <4>1. PICK q \in prerequisites[n] \ Elements(ordered) : TRUE
        BY <3>2
      <4>2. q \in Nodes
        BY <3>2, <4>1
      <4>. QED
        BY <3>2, <4>1, <4>2
    <3>5. ASSUME NEW S \in SUBSET Nodes, Circular(S) PROVE S \subseteq left
      BY <3>2, <3>5, CirclesUnlisted
    <3>. QED
      BY <3>3, <3>4, <3>5 DEF Circular
  <2>2. ASSUME pc = "done", NEW S \in SUBSET Nodes, Circular(S) PROVE FALSE
    <3>1. Elements(ordered) = Nodes /\ S # {}
      BY <2>2 DEF IInv, StopShape, Circular
    <3>. QED
      BY <2>2, <3>1, CirclesUnlisted
  <2>. QED
    BY <2>1, <2>2 DEF CycleErrorIsExact
<1>. QED
  BY <1>1, Invariance, PTL

(***************************************************************************)
(* Every round is a level of the graph, in the heap's order.               *)
(***************************************************************************)
THEOREM RoundsLevelled == Spec => []RoundsAreLevels
<1>1. IInv => RoundsAreLevels
  BY DEF IInv
<1>. QED
  BY <1>1, Invariance, PTL

(***************************************************************************)
(* The schedule is a run of the task graph: only ProcessNode is visible,   *)
(* and it takes one node whose prerequisites have all been taken.          *)
(***************************************************************************)
THEOREM Refinement == Spec => ImplementsDagRun
<1>1. Init => DR!Init
  <2>1. Elements(<<>>) = {}
    BY DEF Elements
  <2>. QED
    BY <2>1, GraphsAssumption DEF Init, DR!Init
<1>2. IInv /\ [Next]_vars => [DR!Next]_(DR!vars)
  <2>. SUFFICES ASSUME IInv, [Next]_vars PROVE [DR!Next]_(DR!vars)
    OBVIOUS
  <2>1. CASE ProcessNode
    <3>1. PICK n : n = Head(current)
      OBVIOUS
    <3>2. /\ n \in Elements(current) /\ n \in Nodes
          /\ Elements(ordered)' = Elements(ordered) \cup {n}
          /\ n \notin Elements(ordered) /\ UNCHANGED prerequisites
      BY <2>1, <3>1, ProcessNodeCounts DEF IInv, PlacedOnce, ProcessNode
    <3>3. \A q \in prerequisites[n] : q \in Elements(ordered)
      BY <3>2, ReadyMeansListed
    <3>4. DR!Orderable({n})
      BY <3>2, <3>3 DEF DR!Orderable
    <3>5. DR!Take({n})
      BY <3>2, <3>3, <3>4 DEF DR!Take
    <3>. QED
      BY <3>2, <3>5 DEF DR!Next
  <2>2. CASE UNCHANGED <<prerequisites, ordered>>
    BY <2>2 DEF DR!vars, Elements
  <2>. QED
    BY <2>1, <2>2 DEF Next, Step, Terminated, PopReady, StartRound, EndRound, Finish, vars
<1>. QED
  BY <1>1, <1>2, Invariance, PTL DEF Spec, ImplementsDagRun, DR!Spec

=============================================================================
