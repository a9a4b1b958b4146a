----------------------------- MODULE PlanProofs -----------------------------
(***************************************************************************)
(* Proofs that a plan holds what the policies ask for and nothing else,    *)
(* that what it waits for is planned and that nothing waits in a circle,   *)
(* for any workspace and scope.                                            *)
(***************************************************************************)
EXTENDS TaskPlanner, FiniteSetTheorems, WellFoundedInduction, TLAPS

(***************************************************************************)
(* Sequences of calls, as the sets of their elements.                      *)
(***************************************************************************)
LEMMA Popped ==
  ASSUME NEW S, NEW s \in Seq(S), s # <<>>
  PROVE  /\ Head(s) \in S /\ Tail(s) \in Seq(S)
         /\ ToSet(s) = ToSet(Tail(s)) \cup {Head(s)}
<1>1. /\ Head(s) \in S /\ Tail(s) \in Seq(S)
      /\ Head(s) = s[1] /\ Len(s) \in Nat \ {0}
      /\ DOMAIN s = 1 .. Len(s)
      /\ DOMAIN Tail(s) = 1 .. Len(s) - 1
      /\ \A i \in 1 .. Len(s) - 1 : Tail(s)[i] = s[i + 1]
  OBVIOUS
<1>2. ASSUME NEW x \in ToSet(s) PROVE x \in ToSet(Tail(s)) \cup {Head(s)}
  <2>1. PICK i \in 1 .. Len(s) : s[i] = x
    BY <1>1 DEF ToSet
  <2>2. CASE i = 1
    BY <1>1, <2>1, <2>2
  <2>3. CASE i # 1
    <3>1. i - 1 \in 1 .. Len(s) - 1 /\ Tail(s)[i - 1] = x
      BY <1>1, <2>1, <2>3
    <3>. QED
      BY <1>1, <3>1 DEF ToSet
  <2>. QED
    BY <2>2, <2>3
<1>3. ASSUME NEW x \in ToSet(Tail(s)) \cup {Head(s)} PROVE x \in ToSet(s)
  BY <1>1 DEF ToSet
<1>. QED
  BY <1>1, <1>2, <1>3

LEMMA Joined ==
  ASSUME NEW S, NEW s \in Seq(S), NEW t \in Seq(S)
  PROVE  s \o t \in Seq(S) /\ ToSet(s \o t) = ToSet(s) \cup ToSet(t)
<1>1. /\ s \o t \in Seq(S) /\ Len(s) \in Nat /\ Len(t) \in Nat
      /\ DOMAIN s = 1 .. Len(s) /\ DOMAIN t = 1 .. Len(t)
      /\ DOMAIN (s \o t) = 1 .. Len(s) + Len(t)
      /\ \A i \in 1 .. Len(s) + Len(t) : (s \o t)[i] = IF i <= Len(s) THEN s[i] ELSE t[i - Len(s)]
  OBVIOUS
<1>. DEFINE u == s \o t
<1>2. \A i \in DOMAIN s : i \in DOMAIN u /\ u[i] = s[i]
  BY <1>1
<1>3. \A i \in DOMAIN t : i + Len(s) \in DOMAIN u /\ u[i + Len(s)] = t[i]
  BY <1>1
<1>4. \A i \in DOMAIN u : \/ i \in DOMAIN s
                          \/ i - Len(s) \in DOMAIN t /\ i = (i - Len(s)) + Len(s)
  BY <1>1
<1>5. ToSet(u) = ToSet(s) \cup ToSet(t)
  <2>. HIDE DEF u
  <2>. QED
    BY <1>2, <1>3, <1>4 DEF ToSet
<1>. QED
  BY <1>1, <1>5

LEMMA Mapped ==
  ASSUME NEW S, NEW T, NEW s \in Seq(S), NEW m \in [DOMAIN s -> T]
  PROVE  m \in Seq(T) /\ DOMAIN m = DOMAIN s
<1>1. Len(s) \in Nat /\ DOMAIN s = 1 .. Len(s) /\ DOMAIN m = DOMAIN s
  OBVIOUS
<1>. QED
  BY <1>1

LEMMA Single ==
  ASSUME NEW S, NEW x \in S
  PROVE  <<x>> \in Seq(S) /\ ToSet(<<x>>) = {x} /\ <<>> \in Seq(S) /\ ToSet(<<>>) = {}
BY DEF ToSet

(***************************************************************************)
(* InOrder lists a finite set of numbers: an element's place is the number *)
(* of smaller ones, and no place is left out.                              *)
(***************************************************************************)
LEMMA Listed ==
  ASSUME NEW S \in SUBSET Nat, IsFiniteSet(S)
  PROVE  InOrder(S) \in Seq(S) /\ ToSet(InOrder(S)) = S
<1>. DEFINE Lower(x) == {y \in S : y < x}
            n == Cardinality(S)
            rank == [x \in S |-> Cardinality(Lower(x)) + 1]
<1>1. n \in Nat /\ IsFiniteSet(1 .. n) /\ Cardinality(1 .. n) = n
  BY FS_CardinalityType, FS_Interval
<1>2. ASSUME NEW x \in S
      PROVE  /\ IsFiniteSet(Lower(x)) /\ Cardinality(Lower(x)) \in Nat
             /\ Cardinality(Lower(x)) < n
  <2>1. IsFiniteSet(Lower(x)) /\ Cardinality(Lower(x)) <= n
        /\ (Cardinality(S) = Cardinality(Lower(x)) => S = Lower(x))
    <3>1. Lower(x) \in SUBSET S
      OBVIOUS
    <3>. HIDE DEF Lower
    <3>. QED
      BY <3>1, FS_Subset
  <2>2. S # Lower(x)
    OBVIOUS
  <2>3. Cardinality(Lower(x)) \in Nat
    BY <2>1, FS_CardinalityType
  <2>. QED
    BY <1>1, <2>1, <2>2, <2>3
<1>3. ASSUME NEW x \in S, NEW y \in S, x < y
      PROVE  Cardinality(Lower(x)) < Cardinality(Lower(y))
  <2>1. Lower(x) \in SUBSET Lower(y) /\ Lower(x) # Lower(y)
    <3>1. x \in Lower(y) /\ x \notin Lower(x)
      BY <1>3
    <3>2. \A z \in Lower(x) : z \in Lower(y)
      BY <1>3
    <3>. QED
      BY <3>1, <3>2
  <2>. HIDE DEF Lower
  <2>. QED
    BY <1>2, <2>1, FS_Subset
<1>4. rank \in Injection(S, 1 .. n)
  <2>1. rank \in [S -> 1 .. n]
    BY <1>1, <1>2
  <2>2. ASSUME NEW x \in S, NEW y \in S, rank[x] = rank[y] PROVE x = y
    <3>. HIDE DEF Lower
    <3>1. ~ (x < y) /\ ~ (y < x)
      BY <1>2, <1>3, <2>2
    <3>. QED
      BY <3>1
  <2>. HIDE DEF rank
  <2>. QED
    BY <2>1, <2>2 DEF Injection, IsInjective
<1>5. rank \in Surjection(S, 1 .. n)
  <2>. HIDE DEF rank
  <2>. QED
    BY <1>1, <1>4, FS_Injection
<1>. DEFINE s == InOrder(S)
<1>6. ASSUME NEW i \in 1 .. n PROVE s[i] \in S /\ rank[s[i]] = i
  <2>1. \E x \in S : rank[x] = i
    <3>. HIDE DEF rank
    <3>. QED
      BY <1>5 DEF Surjection
  <2>2. PICK x \in S : rank[x] = i
    BY <2>1
  <2>3. Cardinality(Lower(x)) = i - 1
    <3>1. rank[x] = Cardinality(Lower(x)) + 1 /\ Cardinality(Lower(x)) \in Nat
      BY <1>2
    <3>. HIDE DEF rank, Lower
    <3>. QED
      BY <2>2, <3>1
  <2>4. s[i] = CHOOSE z \in S : Cardinality(Lower(z)) = i - 1
    BY DEF InOrder
  <2>5. s[i] \in S /\ Cardinality(Lower(s[i])) = i - 1
    <3>. HIDE DEF Lower, rank, s
    <3>. QED
      BY <2>3, <2>4
  <2>. QED
    BY <2>5
<1>7. s \in [1 .. n -> S]
  BY <1>6 DEF InOrder
<1>. HIDE DEF rank, s
<1>8. s \in Seq(S)
  BY <1>1, <1>7
<1>9. ASSUME NEW x \in S PROVE \E i \in 1 .. n : s[i] = x
  <2>1. rank[x] \in 1 .. n
    BY <1>4 DEF Injection
  <2>2. rank[s[rank[x]]] = rank[x] /\ s[rank[x]] \in S
    BY <1>6, <2>1
  <2>. QED
    BY <1>4, <2>1, <2>2 DEF Injection, IsInjective
<1>10. ToSet(s) = S
  BY <1>7, <1>9 DEF ToSet
<1>. QED
  BY <1>8, <1>10 DEF s

-----------------------------------------------------------------------------

Pending == ToSet(stack)
Rest    == ToSet(Tail(stack))

(***************************************************************************)
(* The types, of the sets of calls too.                                    *)
(***************************************************************************)
Typed ==
  /\ IsWorkspace(ws) /\ (scope = NoScope \/ scope \subseteq Packages)
  /\ pc \in {"collect", "planned"}
  /\ stack \in Seq(CallsMade)
  /\ \A c \in Pending : c.op = "walk" => c.walk \in DOMAIN visited
  /\ visited \in Seq(SUBSET Packages)
  /\ included \in SUBSET Nodes
  /\ restricted \in SUBSET included
  /\ DOMAIN expanded \subseteq Nodes
  /\ pc = "planned" => DOMAIN prerequisites = included

(***************************************************************************)
(* The calls a node, a bridge or a walk makes, as sets.                    *)
(***************************************************************************)
OnDependencies(p, t) ==
  {CollectCall(p, u, "dependency") : u \in ToSet(ws.dependsOn[t])}
  \cup {AimCall(p, d) : d \in ToSet(ws.targeted[t][ws.ecosystem[p]])}

OnBridges(p, t) == {BridgeCall(p, q, t) : q \in Bridged(ws, p)}

OnNatives(p, t) == {CollectCall(q, t, "native") : q \in Native(ws, p)}

OnSpread(p, t) ==
  IF CascadesNatively(ws, t) THEN OnNatives(p, t) \cup OnBridges(p, t) ELSE {FirstWalkCall(p, t)}

LEMMA WorkspaceFacts ==
  ASSUME NEW w, IsWorkspace(w)
  PROVE  /\ w.ecosystem \in [Packages -> Ecosystems]
         /\ \A p \in Packages : w.native[p] \in Seq(Packages) /\ w.bridges[p] \in Seq(Packages)
         /\ \A p \in Packages : Native(w, p) \subseteq Packages /\ Bridged(w, p) \subseteq Packages
         /\ \A t \in Tasks : w.dependsOn[t] \in Seq(Tasks) /\ ToSet(w.dependsOn[t]) \subseteq Tasks
         /\ \A t \in Tasks, e \in Ecosystems :
              /\ w.targeted[t][e] \in Seq(Ecosystems \X Tasks)
              /\ ToSet(w.targeted[t][e]) \subseteq Ecosystems \X Tasks
<1>1. ASSUME NEW T, NEW s \in Seq(T) PROVE ToSet(s) \subseteq T
  BY DEF ToSet
<1>2. /\ w.ecosystem \in [Packages -> Ecosystems]
      /\ \A p \in Packages : w.native[p] \in Seq(Packages) /\ w.bridges[p] \in Seq(Packages)
      /\ \A t \in Tasks : w.dependsOn[t] \in Seq(Tasks)
      /\ \A t \in Tasks, e \in Ecosystems : w.targeted[t][e] \in Seq(Ecosystems \X Tasks)
  BY DEF IsWorkspace
<1>3. \A p \in Packages : Native(w, p) \subseteq Packages /\ Bridged(w, p) \subseteq Packages
  BY <1>1, <1>2 DEF Native, Bridged
<1>4. \A t \in Tasks : ToSet(w.dependsOn[t]) \subseteq Tasks
  BY <1>1, <1>2
<1>5. \A t \in Tasks, e \in Ecosystems : ToSet(w.targeted[t][e]) \subseteq Ecosystems \X Tasks
  BY <1>1, <1>2
<1>. QED
  BY <1>2, <1>3, <1>4, <1>5

LEMMA CallFacts ==
  /\ \A p \in Packages, t \in Tasks,
        why \in {"entrypoint", "native", "bridge", "dependency", "targeted"} :
          CollectCall(p, t, why) \in CallsMade
  /\ \A p \in Packages, d \in Ecosystems \X Tasks : AimCall(p, d) \in CallsMade
  /\ \A p, q \in Packages, t \in Tasks : BridgeCall(p, q, t) \in CallsMade
  /\ \A p \in Packages, t \in Tasks, k \in Nat : WalkCall(p, t, k) \in CallsMade
BY DEF CallsMade, CollectCall, AimCall, BridgeCall, WalkCall

LEMMA DependencyCallsMade ==
  ASSUME Typed, NEW p \in Packages, NEW t \in Tasks
  PROVE  DependencyCalls(p, t) \in Seq(CallsMade)
         /\ ToSet(DependencyCalls(p, t)) = OnDependencies(p, t)
<1>. DEFINE A == ws.dependsOn[t]
            B == ws.targeted[t][ws.ecosystem[p]]
            a == [i \in DOMAIN A |-> CollectCall(p, A[i], "dependency")]
            b == [i \in DOMAIN B |-> AimCall(p, B[i])]
<1>1. A \in Seq(Tasks) /\ B \in Seq(Ecosystems \X Tasks)
  BY WorkspaceFacts DEF Typed
<1>2. DependencyCalls(p, t) = a \o b
  BY DEF DependencyCalls, Map
<1>3. ToSet(a) \cup ToSet(b) = OnDependencies(p, t)
  BY DEF OnDependencies, ToSet
<1>. HIDE DEF A, B
<1>4. a \in [DOMAIN A -> CallsMade] /\ b \in [DOMAIN B -> CallsMade]
  BY <1>1, CallFacts
<1>. HIDE DEF a, b
<1>5. a \in Seq(CallsMade) /\ b \in Seq(CallsMade)
  BY <1>1, <1>4, Mapped
<1>. QED
  BY <1>2, <1>3, <1>5, Joined

LEMMA BridgeCallsMade ==
  ASSUME Typed, NEW p \in Packages, NEW t \in Tasks
  PROVE  BridgeCalls(p, t) \in Seq(CallsMade) /\ ToSet(BridgeCalls(p, t)) = OnBridges(p, t)
<1>. DEFINE A == ws.bridges[p]
            a == [i \in DOMAIN A |-> BridgeCall(p, A[i], t)]
<1>1. A \in Seq(Packages)
  BY WorkspaceFacts DEF Typed
<1>2. BridgeCalls(p, t) = a
  BY DEF BridgeCalls, Map
<1>3. ToSet(a) = OnBridges(p, t)
  BY DEF OnBridges, Bridged, ToSet
<1>. HIDE DEF A
<1>4. a \in [DOMAIN A -> CallsMade]
  BY <1>1, CallFacts
<1>. HIDE DEF a
<1>. QED
  BY <1>1, <1>2, <1>3, <1>4, Mapped

LEMMA NativeCallsMade ==
  ASSUME Typed, NEW p \in Packages, NEW t \in Tasks,
         NEW m, m = [i \in DOMAIN ws.native[p] |-> CollectCall(ws.native[p][i], t, "native")]
  PROVE  m \in Seq(CallsMade) /\ ToSet(m) = OnNatives(p, t)
<1>. DEFINE A == ws.native[p]
<1>1. A \in Seq(Packages)
  BY WorkspaceFacts DEF Typed
<1>2. ToSet(m) = OnNatives(p, t)
  BY DEF OnNatives, Native, ToSet
<1>3. m = [i \in DOMAIN A |-> CollectCall(A[i], t, "native")]
  OBVIOUS
<1>. HIDE DEF A
<1>4. m \in [DOMAIN A -> CallsMade]
  BY <1>1, <1>3, CallFacts
<1>. QED
  BY <1>1, <1>2, <1>4, Mapped

LEMMA SpreadCallsMade ==
  ASSUME Typed, NEW p \in Packages, NEW t \in Tasks
  PROVE  SpreadCalls(p, t) \in Seq(CallsMade) /\ ToSet(SpreadCalls(p, t)) = OnSpread(p, t)
<1>. DEFINE m == [i \in DOMAIN ws.native[p] |-> CollectCall(ws.native[p][i], t, "native")]
<1>1. m \in Seq(CallsMade) /\ ToSet(m) = OnNatives(p, t)
  BY NativeCallsMade
<1>2. BridgeCalls(p, t) \in Seq(CallsMade) /\ ToSet(BridgeCalls(p, t)) = OnBridges(p, t)
  BY BridgeCallsMade
<1>3. CASE CascadesNatively(ws, t)
  <2>1. SpreadCalls(p, t) = m \o BridgeCalls(p, t)
    BY <1>3 DEF SpreadCalls, Map
  <2>. HIDE DEF m
  <2>. QED
    BY <1>1, <1>2, <1>3, <2>1, Joined DEF OnSpread
<1>4. CASE ~ CascadesNatively(ws, t)
  <2>1. FirstWalkCall(p, t) \in CallsMade
    BY CallFacts DEF FirstWalkCall, Typed
  <2>2. SpreadCalls(p, t) = <<FirstWalkCall(p, t)>>
    BY <1>4 DEF SpreadCalls
  <2>. QED
    BY <1>4, <2>1, <2>2, Single DEF OnSpread
<1>. QED
  BY <1>3, <1>4

OnExpand(p, t, why) ==
  OnDependencies(p, t) \cup (IF why = "targeted" THEN {} ELSE OnSpread(p, t))

LEMMA CallsExpanded ==
  ASSUME Typed, NEW p \in Packages, NEW t \in Tasks, NEW why
  PROVE  /\ Calls(p, t, why) \in Seq(CallsMade)
         /\ ToSet(Calls(p, t, why)) = OnExpand(p, t, why)
         /\ FirstWalkCall(p, t) \in OnExpand(p, t, why)
              <=> why # "targeted" /\ ~ CascadesNatively(ws, t)
<1>1. CASE why = "targeted"
  <2>1. Calls(p, t, why) = DependencyCalls(p, t) \o <<>>
    BY <1>1 DEF Calls
  <2>2. <<>> \in Seq(CallsMade) /\ ToSet(<<>>) = {}
    BY DEF ToSet
  <2>3. Calls(p, t, why) \in Seq(CallsMade) /\ ToSet(Calls(p, t, why)) = OnExpand(p, t, why)
    BY <1>1, <2>1, <2>2, DependencyCallsMade, Joined DEF OnExpand
  <2>4. FirstWalkCall(p, t) \notin OnExpand(p, t, why)
    BY <1>1 DEF OnExpand, OnDependencies, FirstWalkCall, WalkCall, CollectCall, AimCall
  <2>. QED
    BY <1>1, <2>3, <2>4
<1>2. CASE why # "targeted"
  <2>1. Calls(p, t, why) = DependencyCalls(p, t) \o SpreadCalls(p, t)
    BY <1>2 DEF Calls
  <2>2. Calls(p, t, why) \in Seq(CallsMade) /\ ToSet(Calls(p, t, why)) = OnExpand(p, t, why)
    BY <1>2, <2>1, DependencyCallsMade, SpreadCallsMade, Joined DEF OnExpand
  <2>3. FirstWalkCall(p, t) \in OnExpand(p, t, why) <=> ~ CascadesNatively(ws, t)
    BY <1>2 DEF OnExpand, OnDependencies, OnSpread, OnNatives, OnBridges, FirstWalkCall,
                WalkCall, CollectCall, AimCall, BridgeCall
  <2>. QED
    BY <1>2, <2>2, <2>3
<1>. QED
  BY <1>1, <1>2

-----------------------------------------------------------------------------

(***************************************************************************)
(* What each action takes from the pending calls and adds to them.         *)
(***************************************************************************)
Reasons == {"entrypoint", "native", "bridge", "dependency", "targeted"}

LEMMA TopCall ==
  ASSUME Typed, stack # <<>>
  PROVE  LET c == Head(stack) IN
         /\ c \in Pending /\ Tail(stack) \in Seq(CallsMade) /\ Pending = Rest \cup {c}
         /\ c.op = "collect" =>
              /\ c.pkg \in Packages /\ c.task \in Tasks /\ c.reason \in Reasons
              /\ c = CollectCall(c.pkg, c.task, c.reason)
         /\ c.op = "aim" =>
              /\ c.pkg \in Packages /\ c.ecosystem \in Ecosystems /\ c.task \in Tasks
              /\ c = AimCall(c.pkg, <<c.ecosystem, c.task>>)
         /\ c.op = "bridge" =>
              /\ c.pkg \in Packages /\ c.to \in Packages /\ c.task \in Tasks
              /\ c = BridgeCall(c.pkg, c.to, c.task)
         /\ c.op = "walk" =>
              /\ c.pkg \in Packages /\ c.task \in Tasks /\ c.walk \in DOMAIN visited
              /\ c = WalkCall(c.pkg, c.task, c.walk)
<1>. DEFINE c == Head(stack)
<1>1. c \in CallsMade /\ Tail(stack) \in Seq(CallsMade) /\ Pending = Rest \cup {c}
  BY Popped DEF Typed, Pending, Rest
<1>2. c.op = "walk" => c.walk \in DOMAIN visited
  BY <1>1 DEF Typed
<1>. HIDE DEF c
<1>3. c.op = "collect" =>
              /\ c.pkg \in Packages /\ c.task \in Tasks /\ c.reason \in Reasons
              /\ c = CollectCall(c.pkg, c.task, c.reason)
  BY <1>1 DEF CallsMade, CollectCall, Reasons
<1>4. c.op = "aim" =>
              /\ c.pkg \in Packages /\ c.ecosystem \in Ecosystems /\ c.task \in Tasks
              /\ c = AimCall(c.pkg, <<c.ecosystem, c.task>>)
  BY <1>1 DEF CallsMade, AimCall
<1>5. c.op = "bridge" =>
              /\ c.pkg \in Packages /\ c.to \in Packages /\ c.task \in Tasks
              /\ c = BridgeCall(c.pkg, c.to, c.task)
  BY <1>1 DEF CallsMade, BridgeCall
<1>6. c.op = "walk" =>
              /\ c.pkg \in Packages /\ c.task \in Tasks
              /\ c = WalkCall(c.pkg, c.task, c.walk)
  BY <1>1 DEF CallsMade, WalkCall
<1>. QED
  BY <1>1, <1>2, <1>3, <1>4, <1>5, <1>6 DEF c

LEMMA Restacked ==
  ASSUME NEW calls \in Seq(CallsMade), Tail(stack) \in Seq(CallsMade),
         stack' = calls \o Tail(stack)
  PROVE  stack' \in Seq(CallsMade) /\ Pending' = ToSet(calls) \cup Rest
<1>. DEFINE rest == Tail(stack)
            all  == calls \o rest
<1>1. all \in Seq(CallsMade) /\ ToSet(all) = ToSet(calls) \cup ToSet(rest)
  <2>1. rest \in Seq(CallsMade)
    OBVIOUS
  <2>. HIDE DEF rest
  <2>. QED
    BY <2>1, Joined, Zenon
<1>. HIDE DEF all
<1>2. stack' = all
  BY DEF all
<1>. QED
  BY <1>1, <1>2 DEF Pending, Rest

LEMMA ExpandEffect ==
  ASSUME Typed, CollectExpand, NEW p, NEW t, NEW why, Head(stack) = CollectCall(p, t, why)
  PROVE  /\ p \in Packages /\ t \in Tasks /\ why \in Reasons
         /\ ShouldInclude(ws, p, t, why)
         /\ stack' \in Seq(CallsMade) /\ Pending' = Rest \cup OnExpand(p, t, why)
         /\ included' = included \cup {<<p, t>>}
         /\ visited' = IF why # "targeted" /\ ~ CascadesNatively(ws, t)
                       THEN Append(visited, {}) ELSE visited
<1>1. /\ stack # <<>> /\ Head(stack).pkg = p /\ Head(stack).task = t /\ Head(stack).reason = why
      /\ Head(stack).op = "collect"
  BY DEF CollectExpand, Next1, CollectCall
<1>2. p \in Packages /\ t \in Tasks /\ why \in Reasons /\ Tail(stack) \in Seq(CallsMade)
  BY <1>1, TopCall
<1>3. /\ stack' = Calls(p, t, why) \o Tail(stack)
      /\ visited' = IF FirstWalkCall(p, t) \in ToSet(Calls(p, t, why))
                    THEN Append(visited, {}) ELSE visited
      /\ included' = included \cup {<<p, t>>}
      /\ ShouldInclude(ws, p, t, why)
  BY <1>1 DEF CollectExpand
<1>. DEFINE calls == Calls(p, t, why)
<1>4. calls \in Seq(CallsMade) /\ ToSet(calls) = OnExpand(p, t, why)
      /\ (FirstWalkCall(p, t) \in ToSet(calls) <=> why # "targeted" /\ ~ CascadesNatively(ws, t))
  BY <1>2, CallsExpanded
<1>5. stack' = calls \o Tail(stack)
  BY <1>3
<1>. HIDE DEF calls
<1>6. stack' \in Seq(CallsMade) /\ Pending' = ToSet(calls) \cup Rest
  BY <1>2, <1>4, <1>5, Restacked
<1>. QED
  BY <1>2, <1>3, <1>4, <1>6 DEF Pending, calls

LEMMA AimedEffect ==
  ASSUME Typed, CollectAimed, NEW p, NEW e, NEW t, Head(stack) = AimCall(p, <<e, t>>)
  PROVE  /\ p \in Packages /\ e \in Ecosystems /\ t \in Tasks
         /\ stack' \in Seq(CallsMade)
         /\ Pending' = Rest \cup
              {CollectCall(q, t, "targeted") : q \in ReachableMatching(ws, p, e)}
<1>. DEFINE Q == ReachableMatching(ws, p, e)
            A == InOrder(Q)
            m == [i \in DOMAIN A |-> CollectCall(A[i], t, "targeted")]
<1>1. /\ stack # <<>> /\ Head(stack).pkg = p /\ Head(stack).task = t /\ Head(stack).ecosystem = e
      /\ Head(stack).op = "aim"
  BY DEF CollectAimed, Next1, AimCall
<1>2. p \in Packages /\ e \in Ecosystems /\ t \in Tasks /\ Tail(stack) \in Seq(CallsMade)
  BY <1>1, TopCall
<1>3. stack' = m \o Tail(stack)
  BY <1>1 DEF CollectAimed, Map
<1>4. Q \in SUBSET Packages
  BY DEF ReachableMatching
<1>. HIDE DEF Q
<1>5. A \in Seq(Q) /\ ToSet(A) = Q
  BY <1>4, OrderAssumption, FS_Subset, Listed
<1>6. ToSet(m) = {CollectCall(q, t, "targeted") : q \in ToSet(A)}
  BY DEF ToSet
<1>. HIDE DEF A
<1>7. m \in [DOMAIN A -> CallsMade]
  BY <1>2, <1>4, <1>5, CallFacts
<1>. HIDE DEF m
<1>8. m \in Seq(CallsMade)
  BY <1>5, <1>7, Mapped
<1>9. stack' \in Seq(CallsMade) /\ Pending' = ToSet(m) \cup Rest
  BY <1>2, <1>3, <1>8, Restacked
<1>. QED
  BY <1>2, <1>5, <1>6, <1>9 DEF Pending, Q

LEMMA BridgeEffect ==
  ASSUME Typed, CollectBridge, NEW p, NEW q, NEW t, Head(stack) = BridgeCall(p, q, t)
  PROVE  /\ p \in Packages /\ q \in Packages /\ t \in Tasks
         /\ stack' \in Seq(CallsMade)
         /\ Pending' = Rest \cup
              (IF Crosses(ws, p, q, t) THEN {CollectCall(q, t, "bridge")} ELSE {})
<1>1. /\ stack # <<>> /\ Head(stack).pkg = p /\ Head(stack).task = t /\ Head(stack).to = q
      /\ Head(stack).op = "bridge"
  BY DEF CollectBridge, Next1, BridgeCall
<1>2. p \in Packages /\ q \in Packages /\ t \in Tasks /\ Tail(stack) \in Seq(CallsMade)
  BY <1>1, TopCall
<1>. DEFINE calls == IF Crosses(ws, p, q, t) THEN <<CollectCall(q, t, "bridge")>> ELSE <<>>
<1>3. stack' = calls \o Tail(stack)
  BY <1>1 DEF CollectBridge
<1>4. /\ calls \in Seq(CallsMade)
      /\ ToSet(calls) = IF Crosses(ws, p, q, t) THEN {CollectCall(q, t, "bridge")} ELSE {}
  <2>1. CollectCall(q, t, "bridge") \in CallsMade
    BY <1>2, CallFacts
  <2>. QED
    BY <2>1, Single
<1>. HIDE DEF calls
<1>5. stack' \in Seq(CallsMade) /\ Pending' = ToSet(calls) \cup Rest
  BY <1>2, <1>3, <1>4, Restacked
<1>. QED
  BY <1>2, <1>4, <1>5 DEF Pending

LEMMA WalkEffect ==
  ASSUME Typed, WalkPackage, NEW p, NEW t, NEW k, Head(stack) = WalkCall(p, t, k)
  PROVE  /\ p \in Packages /\ t \in Tasks /\ k \in DOMAIN visited
         /\ stack' \in Seq(CallsMade)
         /\ Pending' = Rest \cup {WalkCall(q, t, k) : q \in Native(ws, p)} \cup OnBridges(p, t)
         /\ visited' = [visited EXCEPT ![k] = @ \cup {p}]
<1>. DEFINE A == ws.native[p]
            m == [i \in DOMAIN A |-> WalkCall(A[i], t, k)]
            b == BridgeCalls(p, t)
<1>1. /\ stack # <<>> /\ Head(stack).pkg = p /\ Head(stack).task = t /\ Head(stack).walk = k
      /\ Head(stack).op = "walk"
  <2>1. stack # <<>> /\ Head(stack).op = "walk"
    BY DEF WalkPackage, Next1
  <2>. QED
    BY <2>1 DEF WalkCall
<1>2. /\ p \in Packages /\ t \in Tasks /\ k \in DOMAIN visited /\ k \in Nat
      /\ Tail(stack) \in Seq(CallsMade)
  BY <1>1, TopCall DEF Typed
<1>3. stack' = m \o b \o Tail(stack) /\ visited' = [visited EXCEPT ![k] = @ \cup {p}]
  BY <1>1 DEF WalkPackage, Map
<1>4. ToSet(m) = {WalkCall(q, t, k) : q \in Native(ws, p)}
  BY DEF ToSet, Native
<1>5. A \in Seq(Packages)
  BY <1>2, WorkspaceFacts DEF Typed
<1>6. b \in Seq(CallsMade) /\ ToSet(b) = OnBridges(p, t)
  BY <1>2, BridgeCallsMade
<1>. HIDE DEF A, b
<1>7. m \in [DOMAIN A -> CallsMade]
  BY <1>2, <1>5, CallFacts
<1>. HIDE DEF m
<1>8. m \in Seq(CallsMade)
  BY <1>5, <1>7, Mapped
<1>. DEFINE mb == m \o b
<1>9. mb \in Seq(CallsMade) /\ ToSet(mb) = ToSet(m) \cup ToSet(b)
  BY <1>6, <1>8, Joined
<1>. HIDE DEF mb
<1>10. stack' \in Seq(CallsMade) /\ Pending' = ToSet(mb) \cup Rest
  <2>1. stack' = mb \o Tail(stack)
    BY <1>3 DEF mb
  <2>. QED
    BY <1>2, <1>9, <2>1, Restacked
<1>. QED
  BY <1>2, <1>3, <1>4, <1>6, <1>9, <1>10 DEF Pending

-----------------------------------------------------------------------------

(***************************************************************************)
(* Types are kept, and a call that was made is met: what it asks for is    *)
(* included, if the package may receive it, or the call is still pending.  *)
(***************************************************************************)
CollectStep ==
  \/ CollectExcluded \/ CollectKnown \/ CollectExpand
  \/ CollectAimed \/ CollectBridge \/ WalkVisited \/ WalkPackage

LEMMA CollectStepFacts ==
  ASSUME Typed, CollectStep
  PROVE  /\ pc = "collect" /\ stack # <<>>
         /\ ws' = ws /\ scope' = scope /\ pc' = pc /\ prerequisites' = prerequisites
         /\ stack' \in Seq(CallsMade) /\ Rest \subseteq Pending'
         /\ included \subseteq included'
         /\ Head(stack).op = "collect" =>
              LET c == Head(stack)
              IN  ShouldInclude(ws, c.pkg, c.task, c.reason) => <<c.pkg, c.task>> \in included'
<1>1. /\ pc = "collect" /\ stack # <<>>
      /\ ws' = ws /\ scope' = scope /\ pc' = pc /\ prerequisites' = prerequisites
  BY DEF CollectStep, CollectExcluded, CollectKnown, CollectExpand, CollectAimed,
         CollectBridge, WalkVisited, WalkPackage, Next1
<1>. DEFINE c == Head(stack)
<1>2. CASE CollectExcluded \/ CollectKnown \/ WalkVisited
  <2>1. stack' = Tail(stack) /\ included' = included
    BY <1>2 DEF CollectExcluded, CollectKnown, WalkVisited
  <2>2. c.op = "collect" /\ ShouldInclude(ws, c.pkg, c.task, c.reason)
          => <<c.pkg, c.task>> \in included
    BY <1>2 DEF CollectExcluded, CollectKnown, WalkVisited, Next1, AlreadyCollected
  <2>. QED
    BY <1>1, <2>1, <2>2, TopCall DEF Pending, Rest
<1>3. CASE CollectExpand
  <2>1. c.op = "collect" /\ c = CollectCall(c.pkg, c.task, c.reason)
    BY <1>1, <1>3, TopCall DEF CollectExpand, Next1
  <2>2. /\ stack' \in Seq(CallsMade) /\ Rest \subseteq Pending'
        /\ included' = included \cup {<<c.pkg, c.task>>}
    BY <1>3, <2>1, ExpandEffect
  <2>. QED
    BY <1>1, <2>2
<1>4. CASE CollectAimed
  <2>1. c.op = "aim" /\ c = AimCall(c.pkg, <<c.ecosystem, c.task>>) /\ included' = included
    BY <1>1, <1>4, TopCall DEF CollectAimed, Next1
  <2>2. stack' \in Seq(CallsMade) /\ Rest \subseteq Pending'
    BY <1>4, <2>1, AimedEffect
  <2>. QED
    BY <1>1, <2>1, <2>2
<1>5. CASE CollectBridge
  <2>1. c.op = "bridge" /\ c = BridgeCall(c.pkg, c.to, c.task) /\ included' = included
    BY <1>1, <1>5, TopCall DEF CollectBridge, Next1
  <2>2. stack' \in Seq(CallsMade) /\ Rest \subseteq Pending'
    BY <1>5, <2>1, BridgeEffect
  <2>. QED
    BY <1>1, <2>1, <2>2
<1>6. CASE WalkPackage
  <2>1. c.op = "walk" /\ included' = included
    BY <1>6 DEF WalkPackage, Next1
  <2>2. c = WalkCall(c.pkg, c.task, c.walk)
    BY <1>1, <2>1, TopCall
  <2>3. stack' \in Seq(CallsMade) /\ Rest \subseteq Pending'
    BY <1>6, <2>2, WalkEffect
  <2>. QED
    BY <1>1, <2>1, <2>3
<1>. QED
  BY <1>2, <1>3, <1>4, <1>5, <1>6 DEF CollectStep

Met(q, t, why) ==
  ShouldInclude(ws, q, t, why) => <<q, t>> \in included \/ CollectCall(q, t, why) \in Pending

LEMMA MetKept ==
  ASSUME Typed, CollectStep, NEW q, NEW t, NEW why, Met(q, t, why)
  PROVE  Met(q, t, why)'
<1>1. /\ stack # <<>> /\ ws' = ws /\ Rest \subseteq Pending' /\ included \subseteq included'
      /\ Head(stack).op = "collect" =>
              LET c == Head(stack)
              IN  ShouldInclude(ws, c.pkg, c.task, c.reason) => <<c.pkg, c.task>> \in included'
  BY CollectStepFacts
<1>. SUFFICES ASSUME ShouldInclude(ws, q, t, why), <<q, t>> \notin included
              PROVE  <<q, t>> \in included' \/ CollectCall(q, t, why) \in Pending'
  BY <1>1 DEF Met
<1>2. CollectCall(q, t, why) \in Rest \cup {Head(stack)}
  BY <1>1, TopCall DEF Met
<1>3. CASE Head(stack) = CollectCall(q, t, why)
  BY <1>1, <1>3 DEF CollectCall
<1>. QED
  BY <1>1, <1>2, <1>3

LEMMA TypedFirst == Init => Typed
<1>. SUFFICES ASSUME Init PROVE Typed
  OBVIOUS
<1>1. IsWorkspace(ws) /\ (scope = NoScope \/ scope \subseteq Packages)
  BY InputsAssumption DEF Init
<1>. DEFINE S == Seeds(ws, scope)
            A == InOrder(S)
            m == [i \in DOMAIN A |-> CollectCall(A[i], Target, "entrypoint")]
<1>2. stack = m
  BY DEF Init, Map
<1>3. S \in SUBSET Packages
  BY <1>1 DEF Seeds
<1>. HIDE DEF S
<1>4. A \in Seq(S) /\ ToSet(A) = S
  BY <1>3, OrderAssumption, FS_Subset, Listed
<1>. HIDE DEF A
<1>5. m \in [DOMAIN A -> CallsMade]
  BY <1>3, <1>4, CallFacts, TargetAssumption
<1>6. \A c \in ToSet(m) : c.op = "collect"
  BY DEF ToSet, CollectCall
<1>. HIDE DEF m
<1>7. m \in Seq(CallsMade)
  BY <1>4, <1>5, Mapped
<1>8. pc = "collect" /\ visited = <<>> /\ included = {} /\ restricted = {} /\ expanded = <<>>
  BY DEF Init
<1>9. \A d \in Pending : d.op = "collect"
  BY <1>2, <1>6 DEF Pending
<1>10. visited \in Seq(SUBSET Packages) /\ DOMAIN expanded \subseteq Nodes
  BY <1>8
<1>. QED
  BY <1>1, <1>2, <1>7, <1>8, <1>9, <1>10 DEF Typed

LEMMA TypedMaterialized ==
  ASSUME Typed, Materialize
  PROVE  Typed'
<1>1. included' \subseteq included
  BY DEF Materialize, InScope
<1>2. restricted' \subseteq included' /\ DOMAIN prerequisites' = included'
  BY DEF Materialize
<1>3. UNCHANGED <<ws, scope, stack, visited, expanded>> /\ pc' = "planned"
  BY DEF Materialize
<1>. QED
  BY <1>1, <1>2, <1>3 DEF Typed, Pending

LEMMA TypedCollecting ==
  ASSUME Typed, CollectStep
  PROVE  Typed'
<1>1. /\ pc = "collect" /\ stack # <<>>
      /\ ws' = ws /\ scope' = scope /\ pc' = pc
      /\ stack' \in Seq(CallsMade)
  BY CollectStepFacts
<1>. DEFINE c == Head(stack)
<1>2. c \in Pending /\ Pending = Rest \cup {c}
  BY <1>1, TopCall
<1>3. SUFFICES /\ \A d \in Pending' : d.op = "walk" => d.walk \in DOMAIN visited'
               /\ visited' \in Seq(SUBSET Packages)
               /\ included' \in SUBSET Nodes
               /\ restricted' \in SUBSET included'
               /\ DOMAIN expanded' \subseteq Nodes
  BY <1>1 DEF Typed
<1>4. CASE CollectExcluded \/ CollectKnown \/ WalkVisited
  <2>1. Pending' = Rest /\ visited' = visited /\ included' = included /\ expanded' = expanded
    BY <1>4 DEF CollectExcluded, CollectKnown, WalkVisited, Pending, Rest
  <2>2. restricted' \subseteq included
    BY <1>4 DEF CollectExcluded, CollectKnown, WalkVisited, Typed, Mark, AlreadyCollected
  <2>. QED
    BY <1>2, <2>1, <2>2 DEF Typed
<1>5. CASE CollectExpand
  <2>1. c.op = "collect" /\ c = CollectCall(c.pkg, c.task, c.reason)
    BY <1>1, <1>5, TopCall DEF CollectExpand, Next1
  <2>2. PICK p, t, why : c = CollectCall(p, t, why) /\ c.pkg = p /\ c.task = t /\ c.reason = why
    BY <2>1
  <2>3. /\ p \in Packages /\ t \in Tasks
        /\ Pending' = Rest \cup OnExpand(p, t, why)
        /\ included' = included \cup {<<p, t>>}
        /\ visited' = IF why # "targeted" /\ ~ CascadesNatively(ws, t)
                       THEN Append(visited, {}) ELSE visited
    BY <1>5, <2>2, ExpandEffect
  <2>4. restricted' \in SUBSET included' /\ DOMAIN expanded' \subseteq Nodes
        /\ included' \in SUBSET Nodes
    <3>1. <<p, t>> \in Nodes
      BY <2>3 DEF Nodes
    <3>2. Mark(<<p, t>>, why) /\ DOMAIN expanded' = DOMAIN expanded \cup {<<p, t>>}
      BY <1>5, <2>2 DEF CollectExpand
    <3>. QED
      BY <2>3, <3>1, <3>2 DEF Typed, Mark
  <2>5. /\ visited' \in Seq(SUBSET Packages) /\ DOMAIN visited \subseteq DOMAIN visited'
        /\ why # "targeted" /\ ~ CascadesNatively(ws, t) => Len(visited) + 1 \in DOMAIN visited'
    <3>1. visited \in Seq(SUBSET Packages)
      BY DEF Typed
    <3>. QED
      BY <2>3, <3>1
  <2>6. ASSUME NEW d \in Pending', d.op = "walk" PROVE d.walk \in DOMAIN visited'
    <3>1. CASE d \in Rest
      BY <1>2, <2>5, <2>6, <3>1 DEF Typed
    <3>2. CASE d \in OnExpand(p, t, why)
      <4>1. why # "targeted" /\ ~ CascadesNatively(ws, t) /\ d = FirstWalkCall(p, t)
        BY <2>6, <3>2 DEF OnExpand, OnDependencies, OnSpread, OnNatives, OnBridges,
                          CollectCall, AimCall, BridgeCall
      <4>. QED
        BY <2>5, <4>1 DEF FirstWalkCall, WalkCall
    <3>. QED
      BY <2>3, <2>6, <3>1, <3>2
  <2>. QED
    BY <2>4, <2>5, <2>6
<1>6. CASE CollectAimed
  <2>1. c = AimCall(c.pkg, <<c.ecosystem, c.task>>)
        /\ UNCHANGED <<visited, included, restricted, expanded>>
    BY <1>1, <1>6, TopCall DEF CollectAimed, Next1
  <2>2. \A d \in Pending' : d \in Rest \/ d.op = "collect"
    BY <1>6, <2>1, AimedEffect DEF CollectCall
  <2>. QED
    BY <1>2, <2>1, <2>2 DEF Typed
<1>7. CASE CollectBridge
  <2>1. c = BridgeCall(c.pkg, c.to, c.task)
        /\ UNCHANGED <<visited, included, restricted, expanded>>
    BY <1>1, <1>7, TopCall DEF CollectBridge, Next1
  <2>2. \A d \in Pending' : d \in Rest \/ d.op = "collect"
    BY <1>7, <2>1, BridgeEffect DEF CollectCall
  <2>. QED
    BY <1>2, <2>1, <2>2 DEF Typed
<1>8. CASE WalkPackage
  <2>1. c.op = "walk" /\ UNCHANGED <<included, restricted, expanded>>
    BY <1>8 DEF WalkPackage, Next1
  <2>2. PICK p, t, k : c = WalkCall(p, t, k)
    BY <1>1, <2>1, TopCall
  <2>3. /\ p \in Packages /\ k \in DOMAIN visited
        /\ Pending' = Rest \cup {WalkCall(q, t, k) : q \in Native(ws, p)} \cup OnBridges(p, t)
        /\ visited' = [visited EXCEPT ![k] = @ \cup {p}]
    BY <1>8, <2>2, WalkEffect
  <2>4. visited' \in Seq(SUBSET Packages) /\ DOMAIN visited' = DOMAIN visited
    <3>1. visited \in Seq(SUBSET Packages)
      BY DEF Typed
    <3>2. visited[k] \cup {p} \in SUBSET Packages
      BY <2>3, <3>1
    <3>. QED
      BY <2>3, <3>1, <3>2
  <2>5. \A d \in Pending' : d.op = "walk" => d \in Rest \/ d.walk = k
    BY <2>3 DEF WalkCall, OnBridges, BridgeCall
  <2>. QED
    BY <1>2, <2>1, <2>3, <2>4, <2>5 DEF Typed
<1>. QED
  BY <1>4, <1>5, <1>6, <1>7, <1>8 DEF CollectStep

LEMMA TypedNext == Typed /\ [Next]_vars => Typed'
<1>1. ASSUME Typed, UNCHANGED vars PROVE Typed'
  BY <1>1 DEF Typed, Pending, vars
<1>. QED
  BY <1>1, TypedMaterialized, TypedCollecting DEF Next, Step, Planned, CollectStep

LEMMA TypedAlways == Spec => []Typed
<1>. QED
  BY TypedFirst, TypedNext, PTL DEF Spec

(***************************************************************************)
(* Every state a planner can be in is well-typed, and a walk call on the   *)
(* stack names a visited set there is.                                     *)
(***************************************************************************)
THEOREM PlannerTyped == Spec => []TypeOK
<1>1. ASSUME Typed PROVE TypeOK
  <2>1. \A i \in DOMAIN stack : stack[i] \in Pending
    BY DEF Pending, ToSet
  <2>. QED
    BY <1>1, <2>1 DEF Typed, TypeOK
<1>. QED
  BY <1>1, TypedAlways, PTL

-----------------------------------------------------------------------------

(***************************************************************************)
(* Of every node that is included, the tasks it depends on and those it    *)
(* asks of another ecosystem are included or were called for.              *)
(***************************************************************************)
AimMet(p, d) ==
  \/ AimCall(p, d) \in Pending
  \/ \A q \in ReachableMatching(ws, p, d[1]) : Met(q, d[2], "targeted")

NeedsMet(n) ==
  /\ \A u \in ToSet(ws.dependsOn[n[2]]) : Met(n[1], u, "dependency")
  /\ \A d \in ToSet(ws.targeted[n[2]][ws.ecosystem[n[1]]]) : AimMet(n[1], d)

NeedsInv == pc = "collect" => \A n \in included : NeedsMet(n)

LEMMA AimKept ==
  ASSUME Typed, CollectStep, NEW p \in Packages, NEW d \in Ecosystems \X Tasks, AimMet(p, d)
  PROVE  AimMet(p, d)'
<1>1. /\ stack # <<>> /\ ws' = ws /\ Rest \subseteq Pending' /\ Pending = Rest \cup {Head(stack)}
  BY CollectStepFacts, TopCall
<1>2. CASE \A q \in ReachableMatching(ws, p, d[1]) : Met(q, d[2], "targeted")
  <2>1. \A q \in ReachableMatching(ws, p, d[1]) : Met(q, d[2], "targeted")'
    BY <1>2, MetKept
  <2>. QED
    BY <1>1, <2>1 DEF AimMet
<1>3. CASE AimCall(p, d) \in Rest
  BY <1>1, <1>3 DEF AimMet
<1>4. CASE AimCall(p, d) = Head(stack)
  <2>1. Head(stack).op = "aim"
    BY <1>4 DEF AimCall
  <2>2. CollectAimed
    BY <2>1 DEF CollectStep, CollectExcluded, CollectKnown, CollectExpand,
                CollectBridge, WalkVisited, WalkPackage, Next1
  <2>3. AimCall(p, d) = AimCall(p, <<d[1], d[2]>>)
    BY DEF AimCall
  <2>4. \A q \in ReachableMatching(ws, p, d[1]) : CollectCall(q, d[2], "targeted") \in Pending'
    BY <1>4, <2>2, <2>3, AimedEffect
  <2>. QED
    BY <1>1, <2>4 DEF AimMet, Met
<1>. QED
  BY <1>1, <1>2, <1>3, <1>4 DEF AimMet

LEMMA NeedsKept ==
  ASSUME Typed, CollectStep, NEW n \in Nodes, NeedsMet(n)
  PROVE  NeedsMet(n)'
<1>1. ws' = ws
  BY CollectStepFacts
<1>2. /\ n[1] \in Packages
      /\ ToSet(ws.targeted[n[2]][ws.ecosystem[n[1]]]) \subseteq Ecosystems \X Tasks
  BY WorkspaceFacts DEF Typed, Nodes
<1>3. \A u \in ToSet(ws.dependsOn[n[2]]) : Met(n[1], u, "dependency")'
  BY MetKept DEF NeedsMet
<1>4. \A d \in ToSet(ws.targeted[n[2]][ws.ecosystem[n[1]]]) : AimMet(n[1], d)'
  BY <1>2, AimKept DEF NeedsMet
<1>. QED
  BY <1>1, <1>3, <1>4 DEF NeedsMet

LEMMA NewNode ==
  ASSUME Typed, CollectStep, NEW n \in included' \ included
  PROVE  \E why \in Reasons :
           /\ CollectExpand /\ Head(stack) = CollectCall(n[1], n[2], why)
           /\ n \in Nodes /\ ShouldInclude(ws, n[1], n[2], why)
           /\ Pending' = Rest \cup OnExpand(n[1], n[2], why)
<1>1. CollectExpand
  BY DEF CollectStep, CollectExcluded, CollectKnown, CollectAimed,
         CollectBridge, WalkVisited, WalkPackage
<1>. DEFINE c == Head(stack)
<1>2. c = CollectCall(c.pkg, c.task, c.reason)
  BY <1>1, TopCall DEF CollectExpand, Next1
<1>3. /\ c.pkg \in Packages /\ c.task \in Tasks /\ c.reason \in Reasons
      /\ ShouldInclude(ws, c.pkg, c.task, c.reason)
      /\ Pending' = Rest \cup OnExpand(c.pkg, c.task, c.reason)
      /\ included' = included \cup {<<c.pkg, c.task>>}
  BY <1>1, <1>2, ExpandEffect
<1>4. n = <<c.pkg, c.task>>
  BY <1>3
<1>. HIDE DEF c
<1>. QED
  BY <1>1, <1>2, <1>3, <1>4 DEF c, Nodes

LEMMA NeedsCollecting ==
  ASSUME Typed, NeedsInv, CollectStep
  PROVE  NeedsInv'
<1>1. pc = "collect" /\ ws' = ws /\ included \subseteq included'
  BY CollectStepFacts
<1>2. ASSUME NEW n \in included PROVE NeedsMet(n)'
  BY <1>1, NeedsKept DEF NeedsInv, Typed
<1>3. ASSUME NEW n \in included' \ included PROVE NeedsMet(n)'
  <2>1. PICK why \in Reasons : Pending' = Rest \cup OnExpand(n[1], n[2], why)
    BY NewNode
  <2>2. OnDependencies(n[1], n[2]) \subseteq Pending'
    BY <2>1 DEF OnExpand
  <2>3. \A u \in ToSet(ws.dependsOn[n[2]]) : CollectCall(n[1], u, "dependency") \in Pending'
    BY <2>2 DEF OnDependencies
  <2>4. \A d \in ToSet(ws.targeted[n[2]][ws.ecosystem[n[1]]]) : AimCall(n[1], d) \in Pending'
    BY <2>2 DEF OnDependencies
  <2>. QED
    BY <1>1, <2>3, <2>4 DEF NeedsMet, Met, AimMet
<1>. QED
  BY <1>2, <1>3 DEF NeedsInv

(***************************************************************************)
(* When the calls are done, what every node needs is planned.              *)
(***************************************************************************)
PlanMade ==
  pc = "planned" =>
    \A n \in included :
      /\ prerequisites[n] = TaskPrerequisites(ws, n[1], n[2], n \in restricted) \cap included
      /\ InScope(scope, DependencyTargets(ws, n) \cup AimedTargets(ws, n)) \subseteq included

LEMMA NothingPending ==
  ASSUME Materialize
  PROVE  pc = "collect" /\ Pending = {} /\ ws' = ws /\ scope' = scope /\ pc' = "planned"
         /\ included' = InScope(scope, included) /\ included' \subseteq included
BY DEF Materialize, Pending, ToSet, InScope

LEMMA PlanMadeMaterialized ==
  ASSUME Typed, NeedsInv, Materialize
  PROVE  PlanMade'
<1>1. /\ pc = "collect" /\ Pending = {} /\ ws' = ws /\ scope' = scope
      /\ included' = InScope(scope, included) /\ included' \subseteq included
  BY NothingPending
<1>2. \A n \in included' :
        prerequisites'[n] = TaskPrerequisites(ws, n[1], n[2], n \in restricted') \cap included'
  BY DEF Materialize
<1>3. ASSUME NEW n \in included'
      PROVE  DependencyTargets(ws, n) \cup AimedTargets(ws, n) \subseteq included
  <2>1. NeedsMet(n)
    BY <1>1 DEF NeedsInv
  <2>2. \A u \in ToSet(ws.dependsOn[n[2]]) :
          ShouldInclude(ws, n[1], u, "dependency") => <<n[1], u>> \in included
    BY <1>1, <2>1 DEF NeedsMet, Met
  <2>3. \A d \in ToSet(ws.targeted[n[2]][ws.ecosystem[n[1]]]) :
          \A q \in ReachableMatching(ws, n[1], d[1]) :
            ShouldInclude(ws, q, d[2], "targeted") => <<q, d[2]>> \in included
    BY <1>1, <2>1 DEF NeedsMet, AimMet, Met
  <2>4. DependencyTargets(ws, n) \subseteq included
    BY <2>2 DEF DependencyTargets
  <2>5. AimedTargets(ws, n) \subseteq included
    BY <2>3 DEF AimedTargets
  <2>. QED
    BY <2>4, <2>5
<1>4. ASSUME NEW n \in included'
      PROVE  InScope(scope, DependencyTargets(ws, n) \cup AimedTargets(ws, n)) \subseteq included'
  BY <1>1, <1>3 DEF InScope
<1>. QED
  BY <1>1, <1>2, <1>4 DEF PlanMade

PlanInv == Typed /\ NeedsInv /\ PlanMade

LEMMA PlanInvAlways == Spec => []PlanInv
<1>1. Init => PlanInv
  BY TypedFirst DEF Init, PlanInv, NeedsInv, PlanMade
<1>2. ASSUME PlanInv, [Next]_vars PROVE PlanInv'
  <2>1. Typed'
    BY <1>2, TypedNext DEF PlanInv
  <2>2. CASE CollectStep
    <3>1. pc' = "collect"
      BY <1>2, <2>2, CollectStepFacts DEF PlanInv
    <3>. QED
      BY <1>2, <2>1, <2>2, <3>1, NeedsCollecting DEF PlanInv, PlanMade
  <2>3. CASE Materialize
    <3>1. pc' = "planned"
      BY <2>3, NothingPending
    <3>. QED
      BY <1>2, <2>1, <2>3, <3>1, PlanMadeMaterialized DEF PlanInv, NeedsInv
  <2>4. CASE UNCHANGED vars
    <3>1. NeedsInv' = NeedsInv
      BY <2>4 DEF vars, NeedsInv, NeedsMet, Met, AimMet, Pending
    <3>2. PlanMade' = PlanMade
      BY <2>4 DEF vars, PlanMade
    <3>. QED
      BY <1>2, <2>1, <3>1, <3>2 DEF PlanInv
  <2>. QED
    BY <1>2, <2>2, <2>3, <2>4 DEF Next, Step, Planned, CollectStep
<1>. QED
  BY <1>1, <1>2, PTL DEF Spec

(***************************************************************************)
(* What a task depends on is planned where it is planned, if the package   *)
(* may receive it, and the node waits for it; so is what it asks of        *)
(* another ecosystem.  Whatever was decided about a node that is reached   *)
(* twice, its dependencies are called for when it is first included.       *)
(***************************************************************************)
THEOREM NeededIsPlanned == Spec => []DependenciesPlanned
<1>1. ASSUME NEW n, NEW cut
      PROVE  DependencyTargets(ws, n) \cup AimedTargets(ws, n)
               \subseteq TaskPrerequisites(ws, n[1], n[2], cut)
  <2>1. DependencyTargets(ws, n) \subseteq {<<n[1], u>> : u \in ToSet(ws.dependsOn[n[2]])}
    BY DEF DependencyTargets
  <2>2. AimedTargets(ws, n) \subseteq
          UNION {{<<q, d[2]>> : q \in ReachableMatching(ws, n[1], d[1])} :
                   d \in ToSet(ws.targeted[n[2]][ws.ecosystem[n[1]]])}
    BY DEF AimedTargets
  <2>. QED
    BY <2>1, <2>2 DEF TaskPrerequisites
<1>2. ASSUME PlanMade PROVE DependenciesPlanned
  <2>1. \A S : InScope(scope, S) \subseteq S
    BY DEF InScope
  <2>. QED
    BY <1>1, <1>2, <2>1 DEF PlanMade, DependenciesPlanned
<1>. QED
  BY <1>2, PlanInvAlways, PTL DEF PlanInv

-----------------------------------------------------------------------------

(***************************************************************************)
(* Circles.  A node waits for a task its own task depends on, or for its   *)
(* own task on a package that can be reached from its package.             *)
(***************************************************************************)
Reached(w, p) ==
  {q \in Packages : \A V \in SUBSET Packages :
     p \in V /\ (\A s \in V : Successors(w, s) \subseteq V) => q \in V}

Leads(w, p, q) == \E s \in Reached(w, p) : q \in Successors(w, s)

TaskSuccessors(w, t) ==
  ToSet(w.dependsOn[t])
  \cup ({d[2] : d \in UNION {ToSet(w.targeted[t][e]) : e \in Ecosystems}} \ {t})

LEMMA ReachedFacts ==
  ASSUME NEW w, IsWorkspace(w), NEW p \in Packages
  PROVE  /\ p \in Reached(w, p)
         /\ NativeClosure(w, p) \subseteq Reached(w, p)
         /\ \A e : \A q \in ReachableMatching(w, p, e) : Leads(w, p, q)
<1>1. p \in Reached(w, p)
  BY DEF Reached
<1>2. NativeClosure(w, p) \subseteq Reached(w, p)
  BY DEF NativeClosure, Reached, Successors
<1>3. ASSUME NEW e, NEW q \in ReachableMatching(w, p, e) PROVE Leads(w, p, q)
  <2>. DEFINE Passed(s) == {r \in Successors(w, s) : w.ecosystem[r] # e}
              Entered   == {r \in Packages : \A S \in SUBSET Packages :
                              p \in S /\ (\A s \in S : Passed(s) \subseteq S) => r \in S}
  <2>1. PICK s \in Entered : q \in Successors(w, s)
    BY <1>3 DEF ReachableMatching
  <2>2. Entered \subseteq Reached(w, p)
    BY DEF Reached
  <2>. QED
    BY <2>1, <2>2 DEF Leads
<1>. QED
  BY <1>1, <1>2, <1>3

LEMMA WaitsBelow ==
  ASSUME NEW w, IsWorkspace(w), NEW p \in Packages, NEW t \in Tasks, NEW cut,
         NEW m \in TaskPrerequisites(w, p, t, cut)
  PROVE  m[2] \in TaskSuccessors(w, t) \/ (m[2] = t /\ Leads(w, p, m[1]))
<1>. DEFINE D == ToSet(w.targeted[t][w.ecosystem[p]])
<1>1. CASE m \in {<<p, u>> : u \in ToSet(w.dependsOn[t])}
  BY <1>1 DEF TaskSuccessors
<1>2. CASE m \in UNION {{<<q, d[2]>> : q \in ReachableMatching(w, p, d[1])} : d \in D}
  <2>1. PICK d \in D : m \in {<<q, d[2]>> : q \in ReachableMatching(w, p, d[1])}
    BY <1>2
  <2>2. PICK q \in ReachableMatching(w, p, d[1]) : m = <<q, d[2]>>
    BY <2>1
  <2>3. w.ecosystem[p] \in Ecosystems
    BY WorkspaceFacts
  <2>4. d[2] \in {b[2] : b \in UNION {ToSet(w.targeted[t][e]) : e \in Ecosystems}}
    BY <2>3
  <2>. HIDE DEF D
  <2>. QED
    BY <2>2, <2>4, ReachedFacts DEF TaskSuccessors
<1>3. CASE CascadesNatively(w, t)
           /\ m \in {<<q, t>> : q \in Native(w, p)}
              \cup {<<q, t>> : q \in {b \in Bridged(w, p) : Propagates(w, p, b, t)}}
  <2>1. PICK q \in Successors(w, p) : m = <<q, t>>
    BY <1>3 DEF Successors
  <2>. QED
    BY <2>1, ReachedFacts DEF Leads
<1>4. CASE m \in UNION {{<<q, t>> : q \in {b \in Bridged(w, s) : Propagates(w, s, b, t)}} :
                     s \in NativeClosure(w, p)}
  <2>1. PICK s \in NativeClosure(w, p) : \E q \in Bridged(w, s) : m = <<q, t>>
    BY <1>4
  <2>. QED
    BY <2>1, ReachedFacts DEF Leads, Successors
<1>. QED
  BY <1>1, <1>2, <1>3, <1>4 DEF TaskPrerequisites

(***************************************************************************)
(* If packages lead to one another in a circle, the packages from which    *)
(* they can be reached have successors among each other.                   *)
(***************************************************************************)
LEMMA PackageCircle ==
  ASSUME NEW w, IsWorkspace(w), NEW P \in SUBSET Packages, P # {},
         \A p \in P : \E q \in P : Leads(w, p, q)
  PROVE  \E U \in SUBSET Packages : U # {} /\ \A r \in U : Successors(w, r) \cap U # {}
<1>. DEFINE Above(V) == \A x \in Packages : Successors(w, x) \cap V # {} => x \in V
            U == {r \in Packages : \A V \in SUBSET Packages : P \subseteq V /\ Above(V) => r \in V}
<1>1. P \subseteq U /\ U \in SUBSET Packages
  OBVIOUS
<1>2. Above(U)
  <2>. SUFFICES ASSUME NEW x \in Packages, NEW y \in Successors(w, x), y \in U
                PROVE  x \in U
    OBVIOUS
  <2>. SUFFICES ASSUME NEW V \in SUBSET Packages, P \subseteq V, Above(V)
                PROVE  x \in V
    OBVIOUS
  <2>1. y \in V
    OBVIOUS
  <2>. QED
    BY <2>1
<1>3. ASSUME NEW V \in SUBSET Packages, P \subseteq V, Above(V) PROVE U \subseteq V
  BY <1>3
<1>. HIDE DEF U
<1>4. ASSUME NEW r \in U, Successors(w, r) \cap U = {} PROVE FALSE
  <2>1. CASE r \notin P
    <3>1. P \subseteq U \ {r} /\ U \ {r} \in SUBSET Packages
      BY <1>1, <2>1
    <3>2. Above(U \ {r})
      BY <1>2, <1>4
    <3>. HIDE DEF Above
    <3>. QED
      BY <1>3, <3>1, <3>2
  <2>2. CASE r \in P
    <3>1. PICK q \in P, s \in Reached(w, r) : q \in Successors(w, s)
      BY <2>2 DEF Leads
    <3>. DEFINE V == {r} \cup (Packages \ U)
    <3>2. V \in SUBSET Packages /\ r \in V
      BY <1>1, <1>4
    <3>3. ASSUME NEW x \in V PROVE Successors(w, x) \subseteq V
      <4>1. x \in Packages /\ Successors(w, x) \subseteq Packages
        BY <3>2, WorkspaceFacts DEF Successors
      <4>2. Successors(w, x) \cap U = {}
        BY <1>2, <1>4, <4>1
      <4>. QED
        BY <4>1, <4>2
    <3>4. s \in V
      <4>. HIDE DEF V
      <4>. QED
        BY <3>1, <3>2, <3>3 DEF Reached
    <3>5. q \in U /\ s \in Packages
      BY <1>1, <3>1 DEF Reached
    <3>. QED
      BY <1>2, <1>4, <3>1, <3>4, <3>5
  <2>. QED
    BY <2>1, <2>2
<1>5. U # {} /\ \A r \in U : Successors(w, r) \cap U # {}
  BY <1>1, <1>4
<1>. QED
  BY <1>1, <1>5

LEMMA NoCircle ==
  ASSUME Typed, PlanMade, pc = "planned", PackagesAcyclic, TasksAcyclic,
         NEW S \in SUBSET included, S # {}, \A n \in S : prerequisites[n] \cap S # {}
  PROVE  FALSE
<1>1. IsWorkspace(ws) /\ S \subseteq Nodes
  BY DEF Typed
<1>. DEFINE T == {n[2] : n \in S}
<1>2. PICK t \in T : TaskSuccessors(ws, t) \cap T = {}
  <2>1. T \in SUBSET Tasks /\ T # {}
    BY <1>1 DEF Nodes
  <2>2. ~ \A t \in T : TaskSuccessors(ws, t) \cap T # {}
    <3>. HIDE DEF T
    <3>. QED
      BY <2>1 DEF TasksAcyclic, Circular, TaskSuccessors
  <2>. QED
    BY <2>2
<1>. DEFINE P == {n[1] : n \in {m \in S : m[2] = t}}
<1>3. P \in SUBSET Packages /\ P # {}
  BY <1>1 DEF Nodes
<1>4. ASSUME NEW p \in P PROVE \E q \in P : Leads(ws, p, q)
  <2>1. PICK n \in S : n[1] = p /\ n[2] = t
    OBVIOUS
  <2>2. PICK m \in S : m \in prerequisites[n]
    OBVIOUS
  <2>3. m \in TaskPrerequisites(ws, p, t, n \in restricted) /\ p \in Packages /\ t \in Tasks
    BY <1>1, <2>1, <2>2 DEF PlanMade, Nodes
  <2>4. m[2] \in TaskSuccessors(ws, t) \/ (m[2] = t /\ Leads(ws, p, m[1]))
    BY <1>1, <2>3, WaitsBelow
  <2>5. m[2] \in T
    OBVIOUS
  <2>6. m[2] = t /\ Leads(ws, p, m[1])
    BY <1>2, <2>4, <2>5
  <2>. QED
    BY <2>6
<1>. HIDE DEF P
<1>5. PICK U \in SUBSET Packages : U # {} /\ \A r \in U : Successors(ws, r) \cap U # {}
  BY <1>1, <1>3, <1>4, PackageCircle
<1>. QED
  BY <1>5 DEF PackagesAcyclic, Circular

(***************************************************************************)
(* In a workspace whose tasks and whose packages depend on each other in   *)
(* no circle, no nodes of a plan wait in a circle, although a task may     *)
(* wait through whole native walks and through the packages of another     *)
(* ecosystem: the priority schedule never fails on such a plan.            *)
(***************************************************************************)
THEOREM PlannedWithoutCircles == Spec => []PlanIsAcyclic
<1>1. ASSUME Typed, PlanMade PROVE PlanIsAcyclic
  BY <1>1, NoCircle DEF PlanIsAcyclic, Circular
<1>. QED
  BY <1>1, PlanInvAlways, PTL DEF PlanInv

-----------------------------------------------------------------------------

(***************************************************************************)
(* The closure.  Within is the function its recursive definition says, it  *)
(* grows until nothing is added, which is so after as many steps as there  *)
(* are things to add, and it stays within whatever the policies lead no    *)
(* further from.                                                           *)
(***************************************************************************)
LEMMA LeastElement ==
  ASSUME NEW S \in SUBSET Nat, S # {}
  PROVE  \E x \in S : \A y \in S : x <= y
<1>. DEFINE R == {ss \in Nat \X Nat : ss[1] < ss[2]}
<1>1. IsWellFoundedOn(R, Nat)
  <2>1. R = OpToRel(<, Nat)
    BY DEF OpToRel
  <2>. QED
    BY <2>1, NatLessThanWellFounded, Zenon
<1>2. PICK x \in S : \A y \in S : ~ (<<y, x>> \in R)
  <2>. HIDE DEF R
  <2>. QED
    BY <1>1, WFMin, Zenon
<1>3. ASSUME NEW y \in S PROVE x <= y
  <2>1. <<y, x>> \in Nat \X Nat
    OBVIOUS
  <2>2. ~ (y < x)
    BY <1>2, <2>1
  <2>. QED
    BY <2>2
<1>. QED
  BY <1>3

LEMMA FirstFailure ==
  ASSUME NEW S \in SUBSET Nat, 0 \in S, \A k \in Nat : k \in S => k + 1 \in S
  PROVE  S = Nat
<1>. SUFFICES ASSUME Nat \ S # {} PROVE FALSE
  OBVIOUS
<1>1. PICK x \in Nat \ S : \A y \in Nat \ S : x <= y
  BY LeastElement
<1>2. x - 1 \in Nat /\ x - 1 \in S
  BY <1>1
<1>. QED
  BY <1>1, <1>2

LEMMA WithinSteps ==
  ASSUME NEW w, NEW sc
  PROVE  /\ Within(w, sc)[0] = Start(w, sc)
         /\ \A k \in Nat : Within(w, sc)[k + 1] = Grown(w, Within(w, sc)[k])
<1>. DEFINE Good(n, g) ==
              /\ g = [k \in 0 .. n |-> g[k]] /\ g[0] = Start(w, sc)
              /\ \A k \in 0 .. n : k # n => g[k + 1] = Grown(w, g[k])
<1>1. \A n \in Nat : \E g : Good(n, g)
  <2>. DEFINE S == {n \in Nat : \E g : Good(n, g)}
  <2>1. 0 \in S
    <3>1. Good(0, [k \in 0 .. 0 |-> Start(w, sc)])
      OBVIOUS
    <3>. QED
      BY <3>1
  <2>2. ASSUME NEW n \in Nat, n \in S PROVE n + 1 \in S
    <3>1. PICK g : Good(n, g)
      BY <2>2
    <3>. DEFINE h == [k \in 0 .. n + 1 |-> IF k = n + 1 THEN Grown(w, g[n]) ELSE g[k]]
    <3>2. h = [k \in 0 .. n + 1 |-> h[k]] /\ h[0] = Start(w, sc)
      BY <3>1
    <3>3. ASSUME NEW k \in 0 .. n + 1, k # n + 1 PROVE h[k + 1] = Grown(w, h[k])
      <4>1. CASE k = n
        BY <4>1
      <4>2. CASE k # n
        <5>1. k \in 0 .. n /\ k + 1 \in 0 .. n + 1 /\ k + 1 # n + 1
          BY <3>3, <4>2
        <5>. QED
          BY <3>1, <3>3, <4>2, <5>1
      <4>. QED
        BY <4>1, <4>2
    <3>. HIDE DEF h
    <3>4. Good(n + 1, h)
      BY <3>2, <3>3
    <3>. HIDE DEF Good
    <3>. QED
      BY <3>4
  <2>. HIDE DEF S
  <2>3. S \in SUBSET Nat
    BY DEF S
  <2>4. S = Nat
    BY <2>1, <2>2, <2>3, FirstFailure
  <2>. QED
    BY <2>4 DEF S
<1>2. ASSUME NEW n \in Nat, NEW m \in Nat, n <= m, NEW g, NEW h, Good(n, g), Good(m, h)
      PROVE  g[n] = h[n]
  <2>. DEFINE S == {k \in Nat : k <= n => g[k] = h[k]}
  <2>1. 0 \in S
    BY <1>2
  <2>2. ASSUME NEW k \in Nat, k \in S PROVE k + 1 \in S
    <3>. SUFFICES ASSUME k + 1 <= n PROVE g[k + 1] = h[k + 1]
      OBVIOUS
    <3>1. k \in 0 .. n /\ k # n /\ k \in 0 .. m /\ k # m /\ g[k] = h[k]
      BY <1>2, <2>2
    <3>. QED
      BY <1>2, <3>1
  <2>. HIDE DEF S
  <2>3. S \in SUBSET Nat
    BY DEF S
  <2>4. S = Nat
    BY <2>1, <2>2, <2>3, FirstFailure
  <2>. QED
    BY <2>4 DEF S
<1>. DEFINE part(n) == CHOOSE g : Good(n, g)
            f == [n \in Nat |-> part(n)[n]]
<1>3. \A n \in Nat : Good(n, part(n))
  BY <1>1
<1>4. f[0] = Start(w, sc)
  BY <1>3
<1>5. ASSUME NEW n \in Nat PROVE f[n + 1] = Grown(w, f[n])
  <2>. DEFINE g == part(n)
              h == part(n + 1)
  <2>1. Good(n, g) /\ Good(n + 1, h)
    <3>. HIDE DEF Good
    <3>. QED
      BY <1>3
  <2>4. f[n] = g[n] /\ f[n + 1] = h[n + 1]
    <3>. HIDE DEF part
    <3>. QED
      OBVIOUS
  <2>. HIDE DEF g, h, f
  <2>2. g[n] = h[n]
    <3>. HIDE DEF Good
    <3>. QED
      BY <1>2, <2>1
  <2>3. h[n + 1] = Grown(w, h[n])
    <3>1. n \in 0 .. n + 1 /\ n # n + 1
      OBVIOUS
    <3>. QED
      BY <2>1, <3>1
  <2>. QED
    BY <2>4, <2>2, <2>3
<1>6. f = [k \in Nat |-> IF k = 0 THEN Start(w, sc) ELSE Grown(w, f[k - 1])]
  <2>1. ASSUME NEW k \in Nat PROVE f[k] = IF k = 0 THEN Start(w, sc) ELSE Grown(w, f[k - 1])
    <3>1. CASE k # 0
      <4>1. k - 1 \in Nat /\ k = (k - 1) + 1
        BY <3>1
      <4>. HIDE DEF f
      <4>. QED
        BY <1>5, <3>1, <4>1
    <3>. QED
      BY <1>4, <3>1
  <2>2. f = [k \in Nat |-> f[k]]
    OBVIOUS
  <2>. HIDE DEF f
  <2>. QED
    BY <2>1, <2>2
<1>. HIDE DEF f
<1>7. Within(w, sc) = [k \in Nat |-> IF k = 0 THEN Start(w, sc)
                                    ELSE Grown(w, Within(w, sc)[k - 1])]
  BY <1>6 DEF Within
<1>8. ASSUME NEW k \in Nat PROVE Within(w, sc)[k + 1] = Grown(w, Within(w, sc)[k])
  <2>1. k + 1 \in Nat /\ k + 1 # 0 /\ (k + 1) - 1 = k
    OBVIOUS
  <2>. QED
    BY <1>7, <2>1
<1>. QED
  BY <1>7, <1>8

IsScope(sc) == sc = NoScope \/ sc \subseteq Packages

Pairs == [full : SUBSET Nodes, aimed : SUBSET Nodes]

Limit == 2 * Cardinality(Nodes)

LEMMA FiniteNodes ==
  /\ IsFiniteSet(Nodes) /\ Cardinality(Nodes) \in Nat /\ Limit \in Nat
<1>1. IsFiniteSet(Nodes)
  BY OrderAssumption, FiniteTasks, FS_Product DEF Nodes
<1>. QED
  BY <1>1, FS_CardinalityType DEF Limit

LEMMA TargetsAreNodes ==
  ASSUME NEW w, IsWorkspace(w), NEW n \in Nodes
  PROVE  /\ SpreadTargets(w, n) \subseteq Nodes
         /\ DependencyTargets(w, n) \subseteq Nodes
         /\ AimedTargets(w, n) \subseteq Nodes
<1>1. n[1] \in Packages /\ n[2] \in Tasks
  BY DEF Nodes
<1>2. SpreadTargets(w, n) \subseteq Nodes
  <2>1. CASE CascadesNatively(w, n[2])
    BY <1>1, <2>1, WorkspaceFacts DEF SpreadTargets, Nodes
  <2>2. CASE ~ CascadesNatively(w, n[2])
    <3>. SUFFICES ASSUME NEW x \in SpreadTargets(w, n) PROVE x \in Nodes
      OBVIOUS
    <3>1. PICK s \in NativeClosure(w, n[1]) : \E q \in Bridged(w, s) : x = <<q, n[2]>>
      BY <2>2 DEF SpreadTargets
    <3>2. s \in Packages
      BY DEF NativeClosure
    <3>. QED
      BY <1>1, <3>1, <3>2, WorkspaceFacts DEF Nodes
  <2>. QED
    BY <2>1, <2>2
<1>3. DependencyTargets(w, n) \subseteq Nodes
  BY <1>1, WorkspaceFacts DEF DependencyTargets, Nodes
<1>4. AimedTargets(w, n) \subseteq Nodes
  <2>. SUFFICES ASSUME NEW x \in AimedTargets(w, n) PROVE x \in Nodes
    OBVIOUS
  <2>1. PICK d \in ToSet(w.targeted[n[2]][w.ecosystem[n[1]]]) :
          \E q \in ReachableMatching(w, n[1], d[1]) : x = <<q, d[2]>>
    BY DEF AimedTargets
  <2>2. d \in Ecosystems \X Tasks
    BY <1>1, WorkspaceFacts
  <2>3. \A q \in ReachableMatching(w, n[1], d[1]) : q \in Packages
    BY DEF ReachableMatching
  <2>. QED
    BY <2>1, <2>2, <2>3 DEF Nodes
<1>. QED
  BY <1>2, <1>3, <1>4

LEMMA GrownFacts ==
  ASSUME NEW w, IsWorkspace(w), NEW c \in Pairs
  PROVE  /\ Grown(w, c) \in Pairs
         /\ c.full \subseteq Grown(w, c).full /\ c.aimed \subseteq Grown(w, c).aimed
         /\ \A n \in c.full : SpreadTargets(w, n) \subseteq Grown(w, c).full
         /\ \A n \in c.full \cup c.aimed :
              /\ DependencyTargets(w, n) \subseteq Grown(w, c).full
              /\ AimedTargets(w, n) \subseteq Grown(w, c).aimed
<1>. DEFINE all == c.full \cup c.aimed
            F == c.full \cup (UNION {SpreadTargets(w, n) : n \in c.full})
                   \cup (UNION {DependencyTargets(w, n) : n \in all})
            A == c.aimed \cup UNION {AimedTargets(w, n) : n \in all}
<1>1. Grown(w, c).full = F /\ Grown(w, c).aimed = A /\ Grown(w, c) = [full |-> F, aimed |-> A]
  BY DEF Grown
<1>2. c.full \subseteq Nodes /\ c.aimed \subseteq Nodes
  BY DEF Pairs
<1>3. F \subseteq Nodes /\ A \subseteq Nodes
  BY <1>2, TargetsAreNodes
<1>4. Grown(w, c) \in Pairs
  <2>. HIDE DEF F, A
  <2>. QED
    BY <1>1, <1>3 DEF Pairs
<1>. QED
  BY <1>1, <1>4

LEMMA StartFacts ==
  ASSUME NEW w, NEW sc, IsScope(sc)
  PROVE  Start(w, sc) \in Pairs /\ Seeds(w, sc) \subseteq Packages
<1>1. Seeds(w, sc) \subseteq Packages
  BY DEF Seeds, IsScope
<1>2. {<<p, Target>> : p \in Seeds(w, sc)} \subseteq Nodes
  BY <1>1, TargetAssumption DEF Nodes
<1>. QED
  BY <1>1, <1>2 DEF Start, Pairs

(***************************************************************************)
(* The size of what was collected, and that it stops growing.              *)
(***************************************************************************)
Size(c) == Cardinality(c.full) + Cardinality(c.aimed)

LEMMA SizeFacts ==
  ASSUME NEW c \in Pairs, NEW d \in Pairs, c.full \subseteq d.full, c.aimed \subseteq d.aimed
  PROVE  /\ Size(c) \in Nat /\ Size(d) \in Nat /\ Size(d) <= Limit
         /\ c # d => Size(c) < Size(d)
<1>1. ASSUME NEW e \in Pairs
      PROVE  /\ IsFiniteSet(e.full) /\ IsFiniteSet(e.aimed)
             /\ Cardinality(e.full) \in Nat /\ Cardinality(e.aimed) \in Nat
             /\ Cardinality(e.full) <= Cardinality(Nodes)
             /\ Cardinality(e.aimed) <= Cardinality(Nodes)
  <2>1. e.full \in SUBSET Nodes /\ e.aimed \in SUBSET Nodes
    BY DEF Pairs
  <2>. QED
    BY <2>1, FiniteNodes, FS_Subset, FS_CardinalityType
<1>2. /\ Cardinality(c.full) <= Cardinality(d.full)
      /\ Cardinality(c.full) = Cardinality(d.full) => c.full = d.full
  BY <1>1, FS_Subset
<1>3. /\ Cardinality(c.aimed) <= Cardinality(d.aimed)
      /\ Cardinality(c.aimed) = Cardinality(d.aimed) => c.aimed = d.aimed
  BY <1>1, FS_Subset
<1>4. c # d => c.full # d.full \/ c.aimed # d.aimed
  BY DEF Pairs
<1>5. Size(c) \in Nat /\ Size(d) \in Nat /\ Size(d) <= Limit
  BY <1>1, FiniteNodes DEF Size, Limit
<1>. QED
  BY <1>1, <1>2, <1>3, <1>4, <1>5 DEF Size

LEMMA WithinStops ==
  ASSUME NEW w, IsWorkspace(w), NEW sc, IsScope(sc)
  PROVE  /\ \A k \in Nat : Within(w, sc)[k] \in Pairs
         /\ Within(w, sc)[0] = Start(w, sc)
         /\ \A k \in Nat : /\ Start(w, sc).full \subseteq Within(w, sc)[k].full
                           /\ Start(w, sc).aimed \subseteq Within(w, sc)[k].aimed
         /\ Grown(w, Within(w, sc)[Limit]) = Within(w, sc)[Limit]
<1>. DEFINE W(k) == Within(w, sc)[k]
<1>1. W(0) = Start(w, sc) /\ \A k \in Nat : W(k + 1) = Grown(w, W(k))
  BY WithinSteps
<1>. HIDE DEF W
<1>2. \A k \in Nat : /\ W(k) \in Pairs
                     /\ Start(w, sc).full \subseteq W(k).full
                     /\ Start(w, sc).aimed \subseteq W(k).aimed
  <2>. DEFINE S == {k \in Nat : /\ W(k) \in Pairs
                               /\ Start(w, sc).full \subseteq W(k).full
                               /\ Start(w, sc).aimed \subseteq W(k).aimed}
  <2>1. 0 \in S
    BY <1>1, StartFacts
  <2>2. ASSUME NEW k \in Nat, k \in S PROVE k + 1 \in S
    BY <1>1, <2>2, GrownFacts
  <2>. HIDE DEF S
  <2>3. S \in SUBSET Nat
    BY DEF S
  <2>4. S = Nat
    BY <2>1, <2>2, <2>3, FirstFailure
  <2>. QED
    BY <2>4 DEF S
<1>3. ASSUME NEW k \in Nat PROVE /\ W(k).full \subseteq W(k + 1).full /\ W(k).aimed \subseteq W(k + 1).aimed
                                 /\ W(k + 1) \in Pairs
  BY <1>1, <1>2, GrownFacts
<1>4. ASSUME W(Limit + 1) # W(Limit) PROVE FALSE
  <2>1. ASSUME NEW k \in Nat, W(k + 1) = W(k) PROVE W(k + 2) = W(k + 1)
    <3>1. k + 1 \in Nat /\ k + 2 = (k + 1) + 1
      OBVIOUS
    <3>. QED
      BY <1>1, <2>1, <3>1
  <2>2. \A k \in Nat : k <= Limit => W(k + 1) # W(k)
    <3>. DEFINE S == {j \in Nat : j <= Limit => W((Limit - j) + 1) # W(Limit - j)}
    <3>1. 0 \in S
      BY <1>4, FiniteNodes
    <3>2. ASSUME NEW j \in Nat, j \in S PROVE j + 1 \in S
      <4>. SUFFICES ASSUME j + 1 <= Limit PROVE W((Limit - (j + 1)) + 1) # W(Limit - (j + 1))
        OBVIOUS
      <4>. DEFINE k == Limit - (j + 1)
      <4>1. k \in Nat /\ Limit - j = k + 1 /\ (Limit - j) + 1 = k + 2 /\ j <= Limit
        BY FiniteNodes
      <4>2. W((Limit - j) + 1) # W(Limit - j)
        BY <3>2, <4>1
      <4>. HIDE DEF k
      <4>3. W(k + 1) # W(k)
        BY <2>1, <4>1, <4>2
      <4>. QED
        BY <4>3 DEF k
    <3>. HIDE DEF S
    <3>3. S \in SUBSET Nat
      BY DEF S
    <3>4. S = Nat
      BY <3>1, <3>2, <3>3, FirstFailure
    <3>5. ASSUME NEW k \in Nat, k <= Limit PROVE W(k + 1) # W(k)
      <4>1. Limit - k \in S /\ Limit - k <= Limit /\ Limit - (Limit - k) = k
        BY <3>4, <3>5, FiniteNodes
      <4>. QED
        BY <4>1 DEF S
    <3>. QED
      BY <3>5
  <2>3. \A k \in Nat : k <= Limit + 1 => k <= Size(W(k))
    <3>. DEFINE S == {k \in Nat : k <= Limit + 1 => k <= Size(W(k))}
    <3>1. 0 \in S
      <4>1. Size(W(0)) \in Nat
        BY <1>2, SizeFacts
      <4>. QED
        BY <4>1
    <3>2. ASSUME NEW k \in Nat, k \in S PROVE k + 1 \in S
      <4>. SUFFICES ASSUME k + 1 <= Limit + 1 PROVE k + 1 <= Size(W(k + 1))
        OBVIOUS
      <4>1. k <= Limit /\ k <= Limit + 1
        BY FiniteNodes
      <4>2. W(k + 1) # W(k) /\ k <= Size(W(k))
        BY <2>2, <3>2, <4>1
      <4>3. Size(W(k)) < Size(W(k + 1)) /\ Size(W(k)) \in Nat /\ Size(W(k + 1)) \in Nat
        BY <1>2, <1>3, <4>2, SizeFacts
      <4>. QED
        BY <4>2, <4>3
    <3>. HIDE DEF S
    <3>3. S \in SUBSET Nat
      BY DEF S
    <3>4. S = Nat
      BY <3>1, <3>2, <3>3, FirstFailure
    <3>. QED
      BY <3>4 DEF S
  <2>4. Limit + 1 \in Nat /\ Limit + 1 <= Size(W(Limit + 1))
    BY <2>3, FiniteNodes
  <2>5. Size(W(Limit + 1)) <= Limit /\ Size(W(Limit + 1)) \in Nat
    BY <1>2, <1>3, FiniteNodes, SizeFacts
  <2>. QED
    BY <2>4, <2>5, FiniteNodes
<1>5. Grown(w, W(Limit)) = W(Limit)
  BY <1>1, <1>4, FiniteNodes
<1>. QED
  BY <1>1, <1>2, <1>5 DEF W

Full(w, sc)  == Within(w, sc)[Limit].full
Aimed(w, sc) == Within(w, sc)[Limit].aimed

LEMMA ClosureClosed ==
  ASSUME NEW w, IsWorkspace(w), NEW sc, IsScope(sc)
  PROVE  /\ Closure(w, sc) = Full(w, sc) \cup Aimed(w, sc)
         /\ Full(w, sc) \subseteq Nodes /\ Aimed(w, sc) \subseteq Nodes
         /\ \A p \in Seeds(w, sc) : <<p, Target>> \in Full(w, sc)
         /\ \A n \in Full(w, sc) : SpreadTargets(w, n) \subseteq Full(w, sc)
         /\ \A n \in Full(w, sc) \cup Aimed(w, sc) :
              /\ DependencyTargets(w, n) \subseteq Full(w, sc)
              /\ AimedTargets(w, n) \subseteq Aimed(w, sc)
<1>1. /\ Within(w, sc)[Limit] \in Pairs
      /\ Grown(w, Within(w, sc)[Limit]) = Within(w, sc)[Limit]
      /\ Start(w, sc).full \subseteq Within(w, sc)[Limit].full
  BY WithinStops, FiniteNodes
<1>2. \A p \in Seeds(w, sc) : <<p, Target>> \in Full(w, sc)
  BY <1>1 DEF Start, Full
<1>3. Closure(w, sc) = Full(w, sc) \cup Aimed(w, sc)
  BY DEF Closure, Full, Aimed, Limit
<1>4. Full(w, sc) \subseteq Nodes /\ Aimed(w, sc) \subseteq Nodes
  BY <1>1 DEF Full, Aimed, Pairs
<1>5. /\ \A n \in Full(w, sc) : SpreadTargets(w, n) \subseteq Full(w, sc)
      /\ \A n \in Full(w, sc) \cup Aimed(w, sc) :
              /\ DependencyTargets(w, n) \subseteq Full(w, sc)
              /\ AimedTargets(w, n) \subseteq Aimed(w, sc)
  BY <1>1, GrownFacts DEF Full, Aimed
<1>. QED
  BY <1>2, <1>3, <1>4, <1>5

LEMMA ClosureLeast ==
  ASSUME NEW w, IsWorkspace(w), NEW sc, IsScope(sc), NEW F \in SUBSET Nodes,
         \A p \in Seeds(w, sc) : <<p, Target>> \in F,
         \A n \in F : SpreadTargets(w, n) \subseteq F /\ DependencyTargets(w, n) \subseteq F,
         \A n \in Nodes : AimedTargets(w, n) = {}
  PROVE  Closure(w, sc) \subseteq F
<1>. DEFINE W(k) == Within(w, sc)[k]
            S == {k \in Nat : W(k).full \subseteq F /\ W(k).aimed = {}}
<1>1. W(0) = Start(w, sc) /\ \A k \in Nat : W(k + 1) = Grown(w, W(k))
  BY WithinSteps
<1>. HIDE DEF W
<1>2. 0 \in S
  BY <1>1 DEF Start
<1>3. ASSUME NEW k \in Nat, k \in S PROVE k + 1 \in S
  <2>1. W(k).full \subseteq F /\ W(k).aimed = {} /\ W(k + 1) = Grown(w, W(k))
    BY <1>1, <1>3
  <2>2. W(k + 1).full = W(k).full \cup (UNION {SpreadTargets(w, n) : n \in W(k).full})
                          \cup (UNION {DependencyTargets(w, n) : n \in W(k).full})
    BY <2>1 DEF Grown
  <2>3. W(k + 1).aimed = UNION {AimedTargets(w, n) : n \in W(k).full}
    BY <2>1 DEF Grown
  <2>4. W(k + 1).full \subseteq F
    BY <2>1, <2>2
  <2>5. W(k + 1).aimed = {}
    BY <2>1, <2>3
  <2>. QED
    BY <2>4, <2>5
<1>. HIDE DEF S
<1>4. S \in SUBSET Nat
  BY DEF S
<1>5. S = Nat
  BY <1>2, <1>3, <1>4, FirstFailure
<1>6. W(Limit).full \subseteq F /\ W(Limit).aimed = {}
  BY <1>5, FiniteNodes DEF S
<1>. QED
  BY <1>6 DEF Closure, Limit, W

-----------------------------------------------------------------------------

(***************************************************************************)
(* A pending call asks for nothing outside the sets F of full nodes and A  *)
(* of aimed ones: F and A will be those of the closure.                    *)
(***************************************************************************)
Asked(w, F, A, c) ==
  /\ c.op = "collect" =>
       (ShouldInclude(w, c.pkg, c.task, c.reason) =>
          <<c.pkg, c.task>> \in IF c.reason = "targeted" THEN A ELSE F)
  /\ c.op = "aim" =>
       \A q \in ReachableMatching(w, c.pkg, c.ecosystem) :
         ShouldInclude(w, q, c.task, "targeted") => <<q, c.task>> \in A
  /\ c.op = "bridge" =>
       (Crosses(w, c.pkg, c.to, c.task) /\ ShouldInclude(w, c.to, c.task, "bridge") =>
          <<c.to, c.task>> \in F)
  /\ c.op = "walk" =>
       \A s \in NativeClosure(w, c.pkg) : \A q \in Bridged(w, s) :
         Propagates(w, s, q, c.task) /\ ShouldInclude(w, q, c.task, "bridge") =>
           <<q, c.task>> \in F

ClosedSets(w, F, A) ==
  /\ \A n \in F : SpreadTargets(w, n) \subseteq F
  /\ \A n \in F \cup A : DependencyTargets(w, n) \subseteq F /\ AimedTargets(w, n) \subseteq A

LEMMA NativeClosureFacts ==
  ASSUME NEW w, IsWorkspace(w), NEW p \in Packages
  PROVE  /\ p \in NativeClosure(w, p)
         /\ \A q \in Native(w, p) : NativeClosure(w, q) \subseteq NativeClosure(w, p)
BY DEF NativeClosure

LEMMA DependenciesAsked ==
  ASSUME NEW w, IsWorkspace(w), NEW F, NEW A, ClosedSets(w, F, A),
         NEW p \in Packages, NEW t \in Tasks, <<p, t>> \in F \cup A
  PROVE  /\ \A u \in ToSet(w.dependsOn[t]) : Asked(w, F, A, CollectCall(p, u, "dependency"))
         /\ \A d \in ToSet(w.targeted[t][w.ecosystem[p]]) : Asked(w, F, A, AimCall(p, d))
<1>. DEFINE n == <<p, t>>
<1>1. DependencyTargets(w, n) \subseteq F /\ AimedTargets(w, n) \subseteq A
  BY DEF ClosedSets
<1>2. \A u \in ToSet(w.dependsOn[t]) : ShouldInclude(w, p, u, "dependency") => <<p, u>> \in F
  BY <1>1 DEF DependencyTargets
<1>3. \A d \in ToSet(w.targeted[t][w.ecosystem[p]]) :
        \A q \in ReachableMatching(w, p, d[1]) :
          ShouldInclude(w, q, d[2], "targeted") => <<q, d[2]>> \in A
  BY <1>1 DEF AimedTargets
<1>4. \A u \in ToSet(w.dependsOn[t]) : Asked(w, F, A, CollectCall(p, u, "dependency"))
  BY <1>2 DEF Asked, CollectCall
<1>5. \A d \in ToSet(w.targeted[t][w.ecosystem[p]]) : Asked(w, F, A, AimCall(p, d))
  BY <1>3 DEF Asked, AimCall
<1>. QED
  BY <1>4, <1>5

LEMMA SpreadAsked ==
  ASSUME NEW w, IsWorkspace(w), NEW F, NEW A, ClosedSets(w, F, A),
         NEW p \in Packages, NEW t \in Tasks, <<p, t>> \in F
  PROVE  /\ CascadesNatively(w, t) =>
              /\ \A q \in Native(w, p) : Asked(w, F, A, CollectCall(q, t, "native"))
              /\ \A q \in Bridged(w, p) : Asked(w, F, A, BridgeCall(p, q, t))
         /\ ~ CascadesNatively(w, t) => \A k : Asked(w, F, A, WalkCall(p, t, k))
<1>. DEFINE n == <<p, t>>
<1>1. SpreadTargets(w, n) \subseteq F
  BY DEF ClosedSets
<1>2. ASSUME CascadesNatively(w, t)
      PROVE  /\ \A q \in Native(w, p) : Asked(w, F, A, CollectCall(q, t, "native"))
             /\ \A q \in Bridged(w, p) : Asked(w, F, A, BridgeCall(p, q, t))
  <2>1. /\ \A q \in Native(w, p) : ShouldInclude(w, q, t, "native") => <<q, t>> \in F
        /\ \A q \in Bridged(w, p) :
             Propagates(w, p, q, t) /\ ShouldInclude(w, q, t, "bridge") => <<q, t>> \in F
    BY <1>1, <1>2 DEF SpreadTargets
  <2>2. \A q \in Native(w, p) : Asked(w, F, A, CollectCall(q, t, "native"))
    BY <2>1 DEF Asked, CollectCall
  <2>3. \A q \in Bridged(w, p) : Asked(w, F, A, BridgeCall(p, q, t))
    BY <2>1 DEF Asked, BridgeCall, Crosses
  <2>. QED
    BY <2>2, <2>3
<1>3. ASSUME ~ CascadesNatively(w, t), NEW k PROVE Asked(w, F, A, WalkCall(p, t, k))
  <2>1. ASSUME NEW s \in NativeClosure(w, p), NEW q \in Bridged(w, s),
               Propagates(w, s, q, t), ShouldInclude(w, q, t, "bridge")
        PROVE  <<q, t>> \in F
    <3>1. <<q, t>> \in SpreadTargets(w, n)
      BY <1>3, <2>1 DEF SpreadTargets
    <3>. QED
      BY <1>1, <3>1
  <2>. QED
    BY <2>1 DEF Asked, WalkCall
<1>. QED
  BY <1>2, <1>3

LEMMA AskedKept ==
  ASSUME Typed, CollectStep, NEW F, NEW A, ClosedSets(ws, F, A),
         included \subseteq F \cup A, \A c \in Pending : Asked(ws, F, A, c)
  PROVE  included' \subseteq F \cup A /\ \A c \in Pending' : Asked(ws, F, A, c)
<1>1. stack # <<>> /\ IsWorkspace(ws)
  BY CollectStepFacts DEF Typed
<1>. DEFINE c == Head(stack)
<1>2. c \in Pending /\ Pending = Rest \cup {c} /\ Asked(ws, F, A, c)
  BY <1>1, TopCall
<1>3. CASE CollectExcluded \/ CollectKnown \/ WalkVisited
  <2>1. Pending' = Rest /\ included' = included
    BY <1>3 DEF CollectExcluded, CollectKnown, WalkVisited, Pending, Rest
  <2>. QED
    BY <1>2, <2>1
<1>4. CASE CollectExpand
  <2>1. c.op = "collect" /\ c = CollectCall(c.pkg, c.task, c.reason)
    BY <1>1, <1>4, TopCall DEF CollectExpand, Next1
  <2>2. PICK p, t, why : c = CollectCall(p, t, why) /\ c.pkg = p /\ c.task = t /\ c.reason = why
    BY <2>1
  <2>3. /\ p \in Packages /\ t \in Tasks /\ ShouldInclude(ws, p, t, why)
        /\ Pending' = Rest \cup OnExpand(p, t, why)
        /\ included' = included \cup {<<p, t>>}
    BY <1>4, <2>2, ExpandEffect
  <2>4. <<p, t>> \in F \cup A /\ (why # "targeted" => <<p, t>> \in F)
    BY <1>2, <2>1, <2>2, <2>3 DEF Asked
  <2>5. ASSUME NEW d \in OnDependencies(p, t) PROVE Asked(ws, F, A, d)
    <3>1. \/ \E u \in ToSet(ws.dependsOn[t]) : d = CollectCall(p, u, "dependency")
          \/ \E e \in ToSet(ws.targeted[t][ws.ecosystem[p]]) : d = AimCall(p, e)
      BY DEF OnDependencies
    <3>. QED
      BY <1>1, <2>3, <2>4, <3>1, DependenciesAsked
  <2>6. ASSUME why # "targeted", NEW d \in OnSpread(p, t) PROVE Asked(ws, F, A, d)
    <3>1. \/ /\ CascadesNatively(ws, t)
             /\ \/ \E q \in Native(ws, p) : d = CollectCall(q, t, "native")
                \/ \E q \in Bridged(ws, p) : d = BridgeCall(p, q, t)
          \/ ~ CascadesNatively(ws, t) /\ \E k : d = WalkCall(p, t, k)
      BY DEF OnSpread, OnNatives, OnBridges, FirstWalkCall
    <3>. QED
      BY <1>1, <2>3, <2>4, <2>6, <3>1, SpreadAsked
  <2>. QED
    BY <1>2, <2>3, <2>4, <2>5, <2>6 DEF OnExpand
<1>5. CASE CollectAimed
  <2>1. c.op = "aim" /\ included' = included
    BY <1>5 DEF CollectAimed, Next1
  <2>2. c = AimCall(c.pkg, <<c.ecosystem, c.task>>)
    BY <1>1, <2>1, TopCall
  <2>3. Pending' = Rest \cup {CollectCall(q, c.task, "targeted") :
                                q \in ReachableMatching(ws, c.pkg, c.ecosystem)}
    BY <1>5, <2>2, AimedEffect
  <2>4. \A q \in ReachableMatching(ws, c.pkg, c.ecosystem) :
          Asked(ws, F, A, CollectCall(q, c.task, "targeted"))
    BY <1>2, <2>1 DEF Asked, CollectCall
  <2>. QED
    BY <1>2, <2>1, <2>3, <2>4
<1>6. CASE CollectBridge
  <2>1. c.op = "bridge" /\ included' = included
    BY <1>6 DEF CollectBridge, Next1
  <2>2. c = BridgeCall(c.pkg, c.to, c.task)
    BY <1>1, <2>1, TopCall
  <2>3. Pending' = Rest \cup (IF Crosses(ws, c.pkg, c.to, c.task)
                              THEN {CollectCall(c.to, c.task, "bridge")} ELSE {})
    BY <1>6, <2>2, BridgeEffect
  <2>4. Crosses(ws, c.pkg, c.to, c.task) => Asked(ws, F, A, CollectCall(c.to, c.task, "bridge"))
    BY <1>2, <2>1 DEF Asked, CollectCall
  <2>. QED
    BY <1>2, <2>1, <2>3, <2>4
<1>7. CASE WalkPackage
  <2>1. c.op = "walk" /\ included' = included
    BY <1>7 DEF WalkPackage, Next1
  <2>2. PICK p, t, k : c = WalkCall(p, t, k) /\ c.pkg = p /\ c.task = t
    BY <1>1, <2>1, TopCall
  <2>3. /\ p \in Packages
        /\ Pending' = Rest \cup {WalkCall(q, t, k) : q \in Native(ws, p)} \cup OnBridges(p, t)
    BY <1>7, <2>2, WalkEffect
  <2>4. \A s \in NativeClosure(ws, p) : \A q \in Bridged(ws, s) :
          Propagates(ws, s, q, t) /\ ShouldInclude(ws, q, t, "bridge") => <<q, t>> \in F
    BY <1>2, <2>1, <2>2 DEF Asked
  <2>5. \A q \in Native(ws, p) : Asked(ws, F, A, WalkCall(q, t, k))
    <3>1. \A q \in Native(ws, p) : NativeClosure(ws, q) \subseteq NativeClosure(ws, p)
      BY <1>1, <2>3, NativeClosureFacts
    <3>. QED
      BY <2>4, <3>1 DEF Asked, WalkCall
  <2>6. \A q \in Bridged(ws, p) : Asked(ws, F, A, BridgeCall(p, q, t))
    <3>1. p \in NativeClosure(ws, p)
      BY <1>1, <2>3, NativeClosureFacts
    <3>. QED
      BY <2>4, <3>1 DEF Asked, BridgeCall, Crosses
  <2>. QED
    BY <1>2, <2>1, <2>3, <2>5, <2>6 DEF OnBridges
<1>. QED
  BY <1>3, <1>4, <1>5, <1>6, <1>7 DEF CollectStep

SoundInv ==
  /\ pc = "collect" =>
       /\ included \subseteq Full(ws, scope) \cup Aimed(ws, scope)
       /\ \A c \in Pending : Asked(ws, Full(ws, scope), Aimed(ws, scope), c)
  /\ PlanIsSound

LEMMA FirstPending ==
  ASSUME Init
  PROVE  /\ Pending = {CollectCall(p, Target, "entrypoint") : p \in Seeds(ws, scope)}
         /\ included = {} /\ pc = "collect" /\ visited = <<>> /\ restricted = {}
<1>. DEFINE S == Seeds(ws, scope)
            A == InOrder(S)
            m == [i \in DOMAIN A |-> CollectCall(A[i], Target, "entrypoint")]
<1>1. stack = m
  BY DEF Init, Map
<1>2. S \in SUBSET Packages
  BY TypedFirst DEF Seeds, Typed
<1>. HIDE DEF S
<1>3. A \in Seq(S) /\ ToSet(A) = S
  BY <1>2, OrderAssumption, FS_Subset, Listed
<1>4. ToSet(m) = {CollectCall(p, Target, "entrypoint") : p \in ToSet(A)}
  BY DEF ToSet
<1>. HIDE DEF A, m
<1>5. Pending = {CollectCall(p, Target, "entrypoint") : p \in S}
  BY <1>1, <1>3, <1>4 DEF Pending
<1>. QED
  BY <1>5 DEF Init, S

LEMMA SoundFirst == Init => SoundInv
<1>. SUFFICES ASSUME Init PROVE SoundInv
  OBVIOUS
<1>1. IsWorkspace(ws) /\ IsScope(scope)
  BY TypedFirst DEF Typed, IsScope
<1>2. \A p \in Seeds(ws, scope) : <<p, Target>> \in Full(ws, scope)
  BY <1>1, ClosureClosed
<1>3. /\ Pending = {CollectCall(p, Target, "entrypoint") : p \in Seeds(ws, scope)}
      /\ included = {} /\ pc = "collect"
  BY FirstPending
<1>4. \A p \in Seeds(ws, scope) :
        Asked(ws, Full(ws, scope), Aimed(ws, scope), CollectCall(p, Target, "entrypoint"))
  BY <1>2 DEF Asked, CollectCall
<1>. QED
  BY <1>3, <1>4 DEF SoundInv, PlanIsSound

LEMMA SoundNext ==
  ASSUME Typed, SoundInv, [Next]_vars
  PROVE  SoundInv'
<1>1. IsWorkspace(ws) /\ IsScope(scope)
  BY DEF Typed, IsScope
<1>2. CASE CollectStep
  <2>1. pc = "collect" /\ pc' = pc /\ ws' = ws /\ scope' = scope
    BY <1>2, CollectStepFacts
  <2>2. PICK F, A : F = Full(ws, scope) /\ A = Aimed(ws, scope)
    OBVIOUS
  <2>3. ClosedSets(ws, F, A)
    BY <1>1, <2>2, ClosureClosed DEF ClosedSets
  <2>4. included' \subseteq F \cup A /\ \A c \in Pending' : Asked(ws, F, A, c)
    BY <1>2, <2>1, <2>2, <2>3, AskedKept DEF SoundInv
  <2>5. Full(ws', scope') = F /\ Aimed(ws', scope') = A
    BY <2>1, <2>2
  <2>6. ws' = ws /\ pc' = "collect"
    BY <2>1
  <2>. QED
    BY <2>4, <2>5, <2>6 DEF SoundInv, PlanIsSound
<1>3. CASE Materialize
  <2>1. /\ pc = "collect" /\ ws' = ws /\ scope' = scope /\ pc' = "planned"
        /\ included' = InScope(scope, included)
    BY <1>3, NothingPending
  <2>2. included \subseteq Closure(ws, scope)
    BY <1>1, <2>1, ClosureClosed DEF SoundInv
  <2>3. included' \subseteq InScope(scope, Closure(ws, scope))
    BY <2>1, <2>2 DEF InScope
  <2>. QED
    BY <2>1, <2>3 DEF SoundInv, PlanIsSound
<1>4. CASE UNCHANGED vars
  BY <1>4 DEF vars, SoundInv, PlanIsSound, Pending
<1>. QED
  BY <1>2, <1>3, <1>4 DEF Next, Step, Planned, CollectStep

(***************************************************************************)
(* Nothing runs that the policies did not ask for.  Every pending call     *)
(* stays inside the closure, whichever calls were made before it and       *)
(* however often a package is reached, so the order of the calls cannot    *)
(* add a node to the plan.                                                 *)
(***************************************************************************)
THEOREM PlannedIsAsked == Spec => []PlanIsSound
<1>1. ASSUME Typed, SoundInv, [Next]_vars PROVE SoundInv'
  BY <1>1, SoundNext
<1>2. SoundInv => PlanIsSound
  BY DEF SoundInv
<1>. QED
  BY <1>1, <1>2, SoundFirst, TypedAlways, PTL DEF Spec

-----------------------------------------------------------------------------

(***************************************************************************)
(* A plan in which no task asks anything of another ecosystem.             *)
(***************************************************************************)
Unasked(w) == \A t \in Tasks, e \in Ecosystems : w.targeted[t][e] = <<>>

BridgeMet(p, q, t) ==
  \/ BridgeCall(p, q, t) \in Pending
  \/ Crosses(ws, p, q, t) => Met(q, t, "bridge")

(***************************************************************************)
(* The walk k carries task t from package p: what it visited, it leaves by *)
(* every native dependency and by every bridge, at once or by a call that  *)
(* is pending.                                                             *)
(***************************************************************************)
WalkReaches(k, p, t) == p \in visited[k] \/ WalkCall(p, t, k) \in Pending

WalkLeaves(k, s, t) ==
  /\ \A q \in Native(ws, s) : WalkReaches(k, q, t)
  /\ \A q \in Bridged(ws, s) : BridgeMet(s, q, t)

WalkCarries(k, t) == \A c \in Pending : c.op = "walk" /\ c.walk = k => c.task = t

Walked(k, p, t) ==
  /\ k \in DOMAIN visited
  /\ WalkReaches(k, p, t)
  /\ \A s \in visited[k] : WalkLeaves(k, s, t)
  /\ WalkCarries(k, t)

SpreadMet(p, t) ==
  IF CascadesNatively(ws, t)
  THEN /\ \A q \in Native(ws, p) : Met(q, t, "native")
       /\ \A q \in Bridged(ws, p) : BridgeMet(p, q, t)
  ELSE \E k : Walked(k, p, t)

LEMMA BridgeKept ==
  ASSUME Typed, CollectStep, NEW p, NEW q, NEW t, BridgeMet(p, q, t)
  PROVE  BridgeMet(p, q, t)'
<1>1. /\ stack # <<>> /\ ws' = ws /\ Rest \subseteq Pending' /\ Pending = Rest \cup {Head(stack)}
  BY CollectStepFacts, TopCall
<1>2. CASE Crosses(ws, p, q, t) => Met(q, t, "bridge")
  <2>1. Crosses(ws, p, q, t) => Met(q, t, "bridge")'
    BY <1>2, MetKept
  <2>. QED
    BY <1>1, <2>1 DEF BridgeMet
<1>3. CASE BridgeCall(p, q, t) \in Rest
  BY <1>1, <1>3 DEF BridgeMet
<1>4. CASE BridgeCall(p, q, t) = Head(stack)
  <2>1. Head(stack).op = "bridge"
    BY <1>4 DEF BridgeCall
  <2>2. CollectBridge
    BY <2>1 DEF CollectStep, CollectExcluded, CollectKnown, CollectExpand,
                CollectAimed, WalkVisited, WalkPackage, Next1
  <2>3. Crosses(ws, p, q, t) => CollectCall(q, t, "bridge") \in Pending'
    BY <1>4, <2>2, BridgeEffect
  <2>. QED
    BY <1>1, <2>3 DEF BridgeMet, Met
<1>. QED
  BY <1>1, <1>2, <1>3, <1>4 DEF BridgeMet

(***************************************************************************)
(* What a step does to the visited sets: a walk begins, or it visits the   *)
(* package it was called for.                                              *)
(***************************************************************************)
LEMMA VisitedStep ==
  ASSUME Typed, CollectStep, NEW k \in DOMAIN visited
  PROVE  /\ k \in DOMAIN visited' /\ visited[k] \subseteq visited'[k]
         /\ \A s \in visited'[k] \ visited[k] :
              /\ WalkPackage
              /\ \E t : Head(stack) = WalkCall(s, t, k)
<1>1. /\ visited \in Seq(SUBSET Packages) /\ stack # <<>>
  BY CollectStepFacts DEF Typed
<1>. DEFINE c == Head(stack)
<1>2. CASE UNCHANGED visited
  BY <1>2
<1>3. CASE CollectExpand
  <2>1. visited' = visited \/ visited' = Append(visited, {})
    BY <1>3 DEF CollectExpand
  <2>. QED
    BY <1>1, <2>1
<1>4. CASE WalkPackage
  <2>1. c.op = "walk"
    BY <1>4 DEF WalkPackage, Next1
  <2>2. PICK p, t, j : c = WalkCall(p, t, j)
    BY <1>1, <2>1, TopCall
  <2>3. j \in DOMAIN visited /\ visited' = [visited EXCEPT ![j] = @ \cup {p}]
    BY <1>4, <2>2, WalkEffect
  <2>4. \A s \in visited'[k] \ visited[k] : s = p /\ k = j
    BY <1>1, <2>3
  <2>5. k \in DOMAIN visited' /\ visited[k] \subseteq visited'[k]
    BY <1>1, <2>3
  <2>. QED
    BY <1>4, <2>2, <2>4, <2>5
<1>. QED
  BY <1>2, <1>3, <1>4 DEF CollectStep, CollectExcluded, CollectKnown, CollectAimed,
                          CollectBridge, WalkVisited

LEMMA ReachesKept ==
  ASSUME Typed, CollectStep, NEW k \in DOMAIN visited, NEW p, NEW t, WalkReaches(k, p, t)
  PROVE  WalkReaches(k, p, t)'
<1>1. /\ stack # <<>> /\ Rest \subseteq Pending' /\ Pending = Rest \cup {Head(stack)}
      /\ visited[k] \subseteq visited'[k]
  BY CollectStepFacts, TopCall, VisitedStep
<1>2. CASE p \in visited[k] \/ WalkCall(p, t, k) \in Rest
  BY <1>1, <1>2 DEF WalkReaches
<1>3. CASE WalkCall(p, t, k) = Head(stack)
  <2>1. Head(stack).op = "walk" /\ Head(stack).pkg = p /\ Head(stack).walk = k
    BY <1>3 DEF WalkCall
  <2>2. WalkVisited \/ WalkPackage
    BY <2>1 DEF CollectStep, CollectExcluded, CollectKnown, CollectExpand,
                CollectAimed, CollectBridge, Next1
  <2>3. CASE WalkVisited
    BY <1>1, <2>1, <2>3 DEF WalkVisited, WalkReaches
  <2>4. CASE WalkPackage
    <3>1. visited' = [visited EXCEPT ![k] = @ \cup {p}]
      BY <1>3, <2>4, WalkEffect
    <3>2. p \in visited'[k]
      BY <3>1 DEF Typed
    <3>. QED
      BY <3>2 DEF WalkReaches
  <2>. QED
    BY <2>2, <2>3, <2>4
<1>. QED
  BY <1>1, <1>2, <1>3 DEF WalkReaches

LEMMA LeavesKept ==
  ASSUME Typed, CollectStep, NEW k \in DOMAIN visited, NEW s, NEW t, WalkLeaves(k, s, t)
  PROVE  WalkLeaves(k, s, t)'
<1>1. ws' = ws
  BY CollectStepFacts
<1>2. \A q \in Native(ws, s) : WalkReaches(k, q, t)'
  BY ReachesKept DEF WalkLeaves
<1>3. \A q \in Bridged(ws, s) : BridgeMet(s, q, t)'
  BY BridgeKept DEF WalkLeaves
<1>. QED
  BY <1>1, <1>2, <1>3 DEF WalkLeaves

LEMMA CarriesKept ==
  ASSUME Typed, CollectStep, NEW k \in DOMAIN visited, NEW t, WalkCarries(k, t)
  PROVE  WalkCarries(k, t)'
<1>1. stack # <<>> /\ visited \in Seq(SUBSET Packages)
  BY CollectStepFacts DEF Typed
<1>. DEFINE c == Head(stack)
<1>2. c \in Pending /\ Pending = Rest \cup {c}
  BY <1>1, TopCall
<1>. SUFFICES ASSUME NEW d \in Pending', d.op = "walk", d.walk = k PROVE d \in Pending \/ d.task = t
  BY DEF WalkCarries
<1>3. CASE CollectExcluded \/ CollectKnown \/ WalkVisited
  <2>1. Pending' = Rest
    BY <1>3 DEF CollectExcluded, CollectKnown, WalkVisited, Pending, Rest
  <2>. QED
    BY <1>2, <2>1
<1>4. CASE CollectExpand
  <2>1. c.op = "collect" /\ c = CollectCall(c.pkg, c.task, c.reason)
    BY <1>1, <1>4, TopCall DEF CollectExpand, Next1
  <2>2. PICK p, u, why : c = CollectCall(p, u, why)
    BY <2>1
  <2>3. Pending' = Rest \cup OnExpand(p, u, why)
    BY <1>4, <2>2, ExpandEffect
  <2>4. d \notin OnExpand(p, u, why)
    BY <1>1 DEF OnExpand, OnDependencies, OnSpread, OnNatives, OnBridges, FirstWalkCall,
                CollectCall, AimCall, BridgeCall, WalkCall
  <2>. QED
    BY <1>2, <2>3, <2>4
<1>5. CASE CollectAimed
  <2>1. c.op = "aim"
    BY <1>5 DEF CollectAimed, Next1
  <2>2. c = AimCall(c.pkg, <<c.ecosystem, c.task>>)
    BY <1>1, <2>1, TopCall
  <2>3. d \in Rest \/ d.op = "collect"
    BY <1>5, <2>2, AimedEffect DEF CollectCall
  <2>. QED
    BY <1>2, <2>3
<1>6. CASE CollectBridge
  <2>1. c.op = "bridge"
    BY <1>6 DEF CollectBridge, Next1
  <2>2. c = BridgeCall(c.pkg, c.to, c.task)
    BY <1>1, <2>1, TopCall
  <2>3. d \in Rest \/ d.op = "collect"
    BY <1>6, <2>2, BridgeEffect DEF CollectCall
  <2>. QED
    BY <1>2, <2>3
<1>7. CASE WalkPackage
  <2>1. c.op = "walk"
    BY <1>7 DEF WalkPackage, Next1
  <2>2. PICK p, u, j : c = WalkCall(p, u, j) /\ c.task = u /\ c.walk = j
    BY <1>1, <2>1, TopCall
  <2>3. Pending' = Rest \cup {WalkCall(q, u, j) : q \in Native(ws, p)} \cup OnBridges(p, u)
    BY <1>7, <2>2, WalkEffect
  <2>4. d \in Rest \/ (d.task = u /\ d.walk = j)
    BY <2>3 DEF WalkCall, OnBridges, BridgeCall
  <2>5. j = k => u = t
    BY <1>2, <2>1, <2>2 DEF WalkCarries
  <2>. QED
    BY <1>2, <2>4, <2>5
<1>. QED
  BY <1>3, <1>4, <1>5, <1>6, <1>7 DEF CollectStep

LEMMA WalkedKept ==
  ASSUME Typed, CollectStep, NEW k, NEW p, NEW t, Walked(k, p, t)
  PROVE  Walked(k, p, t)'
<1>1. /\ k \in DOMAIN visited /\ ws' = ws /\ stack # <<>>
      /\ Head(stack) \in Pending
  BY CollectStepFacts, TopCall DEF Walked
<1>2. k \in DOMAIN visited' /\ WalkReaches(k, p, t)' /\ WalkCarries(k, t)'
  BY <1>1, VisitedStep, ReachesKept, CarriesKept DEF Walked
<1>3. ASSUME NEW s \in visited[k] PROVE WalkLeaves(k, s, t)'
  BY <1>1, LeavesKept DEF Walked
<1>4. ASSUME NEW s \in visited'[k] \ visited[k] PROVE WalkLeaves(k, s, t)'
  <2>1. WalkPackage
    BY <1>1, <1>4, VisitedStep
  <2>2. PICK u : Head(stack) = WalkCall(s, u, k)
    BY <1>1, <1>4, VisitedStep
  <2>3. u = t
    BY <1>1, <2>2 DEF Walked, WalkCarries, WalkCall
  <2>4. {WalkCall(q, t, k) : q \in Native(ws, s)} \cup OnBridges(s, t) \subseteq Pending'
    BY <2>1, <2>2, <2>3, WalkEffect
  <2>5. \A q \in Native(ws, s) : WalkReaches(k, q, t)'
    BY <2>4 DEF WalkReaches
  <2>6. \A q \in Bridged(ws, s) : BridgeMet(s, q, t)'
    BY <2>4 DEF BridgeMet, OnBridges
  <2>. QED
    BY <1>1, <2>5, <2>6 DEF WalkLeaves
<1>. QED
  BY <1>2, <1>3, <1>4 DEF Walked

LEMMA SpreadKept ==
  ASSUME Typed, CollectStep, NEW p, NEW t, SpreadMet(p, t)
  PROVE  SpreadMet(p, t)'
<1>1. ws' = ws
  BY CollectStepFacts
<1>2. CASE CascadesNatively(ws, t)
  <2>1. \A q \in Native(ws, p) : Met(q, t, "native")'
    BY <1>2, MetKept DEF SpreadMet
  <2>2. \A q \in Bridged(ws, p) : BridgeMet(p, q, t)'
    BY <1>2, BridgeKept DEF SpreadMet
  <2>. QED
    BY <1>1, <1>2, <2>1, <2>2 DEF SpreadMet
<1>3. CASE ~ CascadesNatively(ws, t)
  <2>1. \E k : Walked(k, p, t)'
    BY <1>3, WalkedKept DEF SpreadMet
  <2>. QED
    BY <1>1, <1>3, <2>1 DEF SpreadMet
<1>. QED
  BY <1>2, <1>3

LEMMA SpreadMade ==
  ASSUME Typed, CollectExpand, NEW p, NEW t, NEW why, why # "targeted",
         Head(stack) = CollectCall(p, t, why)
  PROVE  SpreadMet(p, t)'
<1>1. /\ Pending' = Rest \cup OnExpand(p, t, why) /\ ws' = ws
      /\ visited' = IF ~ CascadesNatively(ws, t) THEN Append(visited, {}) ELSE visited
  BY ExpandEffect, CollectStepFacts DEF CollectStep
<1>2. OnSpread(p, t) \subseteq Pending'
  BY <1>1 DEF OnExpand
<1>3. CASE CascadesNatively(ws, t)
  <2>1. \A q \in Native(ws, p) : CollectCall(q, t, "native") \in Pending'
    BY <1>2, <1>3 DEF OnSpread, OnNatives
  <2>2. \A q \in Bridged(ws, p) : BridgeCall(p, q, t) \in Pending'
    BY <1>2, <1>3 DEF OnSpread, OnBridges
  <2>. QED
    BY <1>1, <1>3, <2>1, <2>2 DEF SpreadMet, Met, BridgeMet
<1>4. CASE ~ CascadesNatively(ws, t)
  <2>. PICK k : k = Len(visited) + 1
    OBVIOUS
  <2>1. visited \in Seq(SUBSET Packages) /\ stack # <<>>
    BY CollectStepFacts DEF Typed, CollectStep
  <2>2. /\ k \in DOMAIN visited' /\ visited'[k] = {} /\ k \notin DOMAIN visited
    BY <1>1, <1>4, <2>1
  <2>3. WalkCall(p, t, k) \in Pending'
    BY <1>2, <1>4 DEF OnSpread, FirstWalkCall
  <2>4. ASSUME NEW d \in Pending', d.op = "walk", d.walk = k PROVE d.task = t
    <3>1. d \notin Rest
      BY <2>1, <2>2, <2>4, TopCall DEF Typed
    <3>2. d \in OnExpand(p, t, why)
      BY <1>1, <3>1
    <3>. QED
      BY <2>4, <3>2 DEF OnExpand, OnDependencies, OnSpread, OnNatives, OnBridges, FirstWalkCall,
                        CollectCall, AimCall, BridgeCall, WalkCall
  <2>5. Walked(k, p, t)'
    <3>1. WalkReaches(k, p, t)'
      BY <2>3 DEF WalkReaches
    <3>2. WalkCarries(k, t)'
      BY <2>4 DEF WalkCarries
    <3>3. \A s \in visited'[k] : WalkLeaves(k, s, t)'
      BY <2>2
    <3>. QED
      BY <2>2, <3>1, <3>2, <3>3 DEF Walked
  <2>. QED
    BY <1>1, <1>4, <2>5 DEF SpreadMet
<1>. QED
  BY <1>3, <1>4

(***************************************************************************)
(* What the calls keep when no task asks anything of another ecosystem:    *)
(* nothing is restricted, the entrypoints are those the plan starts from,  *)
(* and every node that is included spreads.                                *)
(***************************************************************************)
Entrypoint(n) == n[1] \in Seeds(ws, scope) /\ n[2] = Target

StaysPut(n) == ws.cascade[n[2]] = "none" => n \in ws.optsIn \/ Entrypoint(n)

CallsUnasked ==
  \A c \in Pending :
    /\ c.op # "aim"
    /\ c.op = "collect" => c.reason # "targeted"
    /\ c.op = "collect" /\ c.reason = "entrypoint" => Entrypoint(<<c.pkg, c.task>>)

Collecting ==
  /\ CallsUnasked
  /\ \A p \in Seeds(ws, scope) : Met(p, Target, "entrypoint")
  /\ \A n \in included : SpreadMet(n[1], n[2]) /\ StaysPut(n)

UnaskedInv ==
  Unasked(ws) =>
    /\ restricted = {}
    /\ pc = "collect" => Collecting
    /\ pc = "planned" => PlanIsComplete /\ CascadeNoneStays

LEMMA UnaskedFacts ==
  ASSUME NEW w, IsWorkspace(w), Unasked(w), NEW p \in Packages, NEW t \in Tasks
  PROVE  ToSet(w.targeted[t][w.ecosystem[p]]) = {} /\ AimedTargets(w, <<p, t>>) = {}
<1>1. w.ecosystem[p] \in Ecosystems
  BY WorkspaceFacts
<1>2. ToSet(w.targeted[t][w.ecosystem[p]]) = {}
  BY <1>1 DEF Unasked, ToSet
<1>. QED
  BY <1>2 DEF AimedTargets

LEMMA UnaskedKept ==
  ASSUME Typed, Unasked(ws), CollectStep, CallsUnasked
  PROVE  CallsUnasked'
<1>1. stack # <<>> /\ IsWorkspace(ws) /\ ws' = ws /\ scope' = scope
  BY CollectStepFacts DEF Typed
<1>. DEFINE c == Head(stack)
            Good(d) == /\ d.op # "aim"
                       /\ d.op = "collect" => d.reason # "targeted"
                       /\ d.op = "collect" /\ d.reason = "entrypoint" => Entrypoint(<<d.pkg, d.task>>)
<1>2. c \in Pending /\ Pending = Rest \cup {c}
  BY <1>1, TopCall
<1>3. \A d \in Rest \cup {c} : Good(d)
  BY <1>2 DEF CallsUnasked
<1>4. SUFFICES \A d \in Pending' : Good(d)
  <2>1. \A n : Entrypoint(n)' = Entrypoint(n)
    BY <1>1 DEF Entrypoint
  <2>. QED
    BY <2>1 DEF CallsUnasked
<1>5. CASE CollectExcluded \/ CollectKnown \/ WalkVisited
  <2>1. Pending' = Rest
    BY <1>5 DEF CollectExcluded, CollectKnown, WalkVisited, Pending, Rest
  <2>. QED
    BY <1>3, <2>1
<1>6. CASE CollectExpand
  <2>1. c.op = "collect" /\ c = CollectCall(c.pkg, c.task, c.reason)
    BY <1>1, <1>6, TopCall DEF CollectExpand, Next1
  <2>2. PICK p, t, why : c = CollectCall(p, t, why)
    BY <2>1
  <2>3. p \in Packages /\ t \in Tasks /\ Pending' = Rest \cup OnExpand(p, t, why)
    BY <1>6, <2>2, ExpandEffect
  <2>4. ToSet(ws.targeted[t][ws.ecosystem[p]]) = {}
    BY <1>1, <2>3, UnaskedFacts
  <2>5. ASSUME NEW d \in OnExpand(p, t, why) PROVE Good(d)
    <3>1. \/ d.op \in {"bridge", "walk"}
          \/ d.op = "collect" /\ d.reason \in {"dependency", "native"}
      BY <2>4 DEF OnExpand, OnDependencies, OnSpread, OnNatives, OnBridges, FirstWalkCall,
                  CollectCall, BridgeCall, WalkCall
    <3>. QED
      BY <3>1
  <2>. QED
    BY <1>3, <2>3, <2>5
<1>7. CASE CollectAimed
  BY <1>3, <1>7 DEF CollectAimed, Next1
<1>8. CASE CollectBridge
  <2>1. c.op = "bridge"
    BY <1>8 DEF CollectBridge, Next1
  <2>2. c = BridgeCall(c.pkg, c.to, c.task)
    BY <1>1, <2>1, TopCall
  <2>3. \A d \in Pending' : d \in Rest \/ (d.op = "collect" /\ d.reason = "bridge")
    BY <1>8, <2>2, BridgeEffect DEF CollectCall
  <2>. QED
    BY <1>3, <2>3
<1>9. CASE WalkPackage
  <2>1. c.op = "walk"
    BY <1>9 DEF WalkPackage, Next1
  <2>2. PICK p, t, k : c = WalkCall(p, t, k)
    BY <1>1, <2>1, TopCall
  <2>3. Pending' = Rest \cup {WalkCall(q, t, k) : q \in Native(ws, p)} \cup OnBridges(p, t)
    BY <1>9, <2>2, WalkEffect
  <2>4. \A d \in Pending' : d \in Rest \/ d.op \in {"walk", "bridge"}
    BY <2>3 DEF WalkCall, OnBridges, BridgeCall
  <2>. QED
    BY <1>3, <2>4
<1>. QED
  BY <1>5, <1>6, <1>7, <1>8, <1>9 DEF CollectStep

LEMMA CollectingKept ==
  ASSUME Typed, Unasked(ws), CollectStep, Collecting, restricted = {}
  PROVE  Collecting' /\ restricted' = {}
<1>1. /\ stack # <<>> /\ ws' = ws /\ scope' = scope /\ included \subseteq included'
      /\ Head(stack) \in Pending
  BY CollectStepFacts, TopCall
<1>2. CallsUnasked'
  BY UnaskedKept DEF Collecting
<1>3. \A p \in Seeds(ws, scope) : Met(p, Target, "entrypoint")'
  BY MetKept DEF Collecting
<1>4. \A n : StaysPut(n)' = StaysPut(n)
  BY <1>1 DEF StaysPut, Entrypoint
<1>5. ASSUME NEW n \in included PROVE SpreadMet(n[1], n[2])' /\ StaysPut(n)
  BY SpreadKept DEF Collecting
<1>6. ASSUME NEW n \in included' \ included PROVE SpreadMet(n[1], n[2])' /\ StaysPut(n)
  <2>1. PICK why \in Reasons :
           /\ CollectExpand /\ Head(stack) = CollectCall(n[1], n[2], why)
           /\ n \in Nodes /\ ShouldInclude(ws, n[1], n[2], why)
    BY NewNode
  <2>2. /\ why # "targeted"
        /\ why = "entrypoint" => Entrypoint(<<n[1], n[2]>>)
    BY <1>1, <2>1 DEF Collecting, CallsUnasked, CollectCall
  <2>3. SpreadMet(n[1], n[2])'
    BY <2>1, <2>2, SpreadMade
  <2>4. StaysPut(n)
    <3>1. n = <<n[1], n[2]>>
      BY <2>1 DEF Nodes
    <3>. SUFFICES ASSUME ws.cascade[n[2]] = "none" PROVE n \in ws.optsIn \/ Entrypoint(n)
      BY DEF StaysPut
    <3>2. why = "entrypoint" \/ n \in ws.optsIn
      BY <2>1, <2>2, <3>1 DEF ShouldInclude, CascadesNatively, CascadesAcross, Reasons
    <3>. QED
      BY <2>2, <3>1, <3>2
  <2>. QED
    BY <2>3, <2>4
<1>7. restricted' = {}
  <2>1. CASE UNCHANGED restricted
    BY <2>1
  <2>2. CASE CollectKnown \/ CollectExpand
    <3>1. Head(stack).op = "collect" /\ \E n : Mark(n, Head(stack).reason)
      BY <2>2 DEF CollectKnown, CollectExpand, Next1
    <3>2. Head(stack).reason # "targeted"
      BY <1>1, <3>1 DEF Collecting, CallsUnasked
    <3>. QED
      BY <3>1, <3>2 DEF Mark
  <2>. QED
    BY <2>1, <2>2 DEF CollectStep, CollectExcluded, CollectAimed, CollectBridge,
                      WalkVisited, WalkPackage
<1>8. \A n \in included' : SpreadMet(n[1], n[2])' /\ StaysPut(n)'
  BY <1>4, <1>5, <1>6
<1>9. Seeds(ws', scope') = Seeds(ws, scope)
  BY <1>1
<1>. QED
  BY <1>2, <1>3, <1>7, <1>8, <1>9 DEF Collecting

(***************************************************************************)
(* When nothing is pending, what is included is closed: a native walk has  *)
(* visited all it can reach.                                               *)
(***************************************************************************)
LEMMA SpreadDone ==
  ASSUME Typed, Pending = {}, NEW p \in Packages, NEW t \in Tasks, SpreadMet(p, t)
  PROVE  SpreadTargets(ws, <<p, t>>) \subseteq included
<1>. DEFINE n == <<p, t>>
<1>1. ASSUME NEW s, NEW q, BridgeMet(s, q, t), Propagates(ws, s, q, t),
             ShouldInclude(ws, q, t, "bridge")
      PROVE  <<q, t>> \in included
  <2>1. Crosses(ws, s, q, t)
    BY <1>1 DEF Crosses, ShouldInclude
  <2>. QED
    BY <1>1, <2>1 DEF BridgeMet, Met
<1>2. CASE CascadesNatively(ws, t)
  <2>1. \A q \in Native(ws, p) : ShouldInclude(ws, q, t, "native") => <<q, t>> \in included
    BY <1>2 DEF SpreadMet, Met
  <2>2. \A q \in Bridged(ws, p) :
          Propagates(ws, p, q, t) /\ ShouldInclude(ws, q, t, "bridge") => <<q, t>> \in included
    BY <1>1, <1>2 DEF SpreadMet
  <2>. QED
    BY <1>2, <2>1, <2>2 DEF SpreadTargets
<1>3. CASE ~ CascadesNatively(ws, t)
  <2>1. PICK k : Walked(k, p, t)
    BY <1>3 DEF SpreadMet
  <2>2. /\ visited[k] \in SUBSET Packages /\ p \in visited[k]
        /\ \A s \in visited[k] : Native(ws, s) \subseteq visited[k]
    BY <2>1 DEF Walked, WalkReaches, WalkLeaves, Typed
  <2>3. NativeClosure(ws, p) \subseteq visited[k]
    BY <2>2 DEF NativeClosure
  <2>4. \A s \in NativeClosure(ws, p) : \A q \in Bridged(ws, s) :
          Propagates(ws, s, q, t) /\ ShouldInclude(ws, q, t, "bridge") => <<q, t>> \in included
    BY <1>1, <2>1, <2>3 DEF Walked, WalkLeaves
  <2>. QED
    BY <1>3, <2>4 DEF SpreadTargets
<1>. QED
  BY <1>2, <1>3

LEMMA PlanCompleted ==
  ASSUME Typed, NeedsInv, Unasked(ws), Collecting, Materialize
  PROVE  PlanIsComplete' /\ CascadeNoneStays'
<1>1. /\ pc = "collect" /\ Pending = {} /\ ws' = ws /\ scope' = scope
      /\ included' = InScope(scope, included) /\ included' \subseteq included
      /\ IsWorkspace(ws) /\ IsScope(scope) /\ included \in SUBSET Nodes
  BY NothingPending DEF Typed, IsScope
<1>2. \A n \in Nodes : /\ n = <<n[1], n[2]>> /\ n[1] \in Packages /\ n[2] \in Tasks
  BY DEF Nodes
<1>3. \A p \in Seeds(ws, scope) : <<p, Target>> \in included
  BY <1>1 DEF Collecting, Met, ShouldInclude
<1>4. ASSUME NEW n \in included PROVE SpreadTargets(ws, n) \subseteq included
  BY <1>1, <1>2, <1>4, SpreadDone DEF Collecting
<1>5. ASSUME NEW n \in included PROVE DependencyTargets(ws, n) \subseteq included
  BY <1>1 DEF NeedsInv, NeedsMet, Met, DependencyTargets
<1>6. \A n \in Nodes : AimedTargets(ws, n) = {}
  BY <1>1, <1>2, UnaskedFacts
<1>7. Closure(ws, scope) \subseteq included
  BY <1>1, <1>3, <1>4, <1>5, <1>6, ClosureLeast
<1>8. InScope(scope, Closure(ws, scope)) \subseteq included'
  BY <1>1, <1>7 DEF InScope
<1>9. PlanIsComplete'
  BY <1>1, <1>8 DEF PlanIsComplete
<1>10. CascadeNoneStays'
  <2>1. \A n \in included' : ws.cascade[n[2]] = "none" =>
          n \in ws.optsIn \/ (n[1] \in Seeds(ws, scope) /\ n[2] = Target)
    BY <1>1 DEF Collecting, StaysPut, Entrypoint
  <2>. QED
    BY <1>1, <2>1 DEF CascadeNoneStays
<1>. QED
  BY <1>9, <1>10

LEMMA UnaskedFirst == Init => UnaskedInv
<1>. SUFFICES ASSUME Init PROVE UnaskedInv
  OBVIOUS
<1>1. /\ Pending = {CollectCall(p, Target, "entrypoint") : p \in Seeds(ws, scope)}
      /\ included = {} /\ pc = "collect" /\ restricted = {}
  BY FirstPending
<1>2. CallsUnasked
  BY <1>1 DEF CallsUnasked, CollectCall, Entrypoint
<1>3. \A p \in Seeds(ws, scope) : Met(p, Target, "entrypoint")
  BY <1>1 DEF Met
<1>. QED
  BY <1>1, <1>2, <1>3 DEF UnaskedInv, Collecting

LEMMA UnaskedNext ==
  ASSUME PlanInv, UnaskedInv, [Next]_vars
  PROVE  UnaskedInv'
<1>1. CASE CollectStep
  <2>1. pc = "collect" /\ pc' = pc /\ ws' = ws
    BY <1>1, CollectStepFacts DEF PlanInv
  <2>2. Unasked(ws) => Collecting' /\ restricted' = {}
    BY <1>1, <2>1, CollectingKept DEF UnaskedInv, PlanInv
  <2>3. Unasked(ws') = Unasked(ws) /\ pc' = "collect"
    BY <2>1
  <2>. QED
    BY <2>2, <2>3 DEF UnaskedInv
<1>2. CASE Materialize
  <2>1. pc = "collect" /\ ws' = ws /\ pc' = "planned"
    BY <1>2, NothingPending
  <2>2. Unasked(ws) => PlanIsComplete' /\ CascadeNoneStays'
    BY <1>2, <2>1, PlanCompleted DEF UnaskedInv, PlanInv
  <2>3. Unasked(ws) => restricted' = {}
    BY <1>2 DEF UnaskedInv, Materialize
  <2>4. Unasked(ws') = Unasked(ws)
    BY <2>1
  <2>. QED
    BY <2>1, <2>2, <2>3, <2>4 DEF UnaskedInv
<1>3. CASE UNCHANGED vars
  <2>1. Collecting' = Collecting
    BY <1>3 DEF vars, Collecting, CallsUnasked, Met, SpreadMet, StaysPut, Entrypoint, BridgeMet,
                Walked, WalkReaches, WalkLeaves, WalkCarries, Pending
  <2>2. PlanIsComplete' = PlanIsComplete /\ CascadeNoneStays' = CascadeNoneStays
    BY <1>3 DEF vars, PlanIsComplete, CascadeNoneStays
  <2>3. restricted' = restricted /\ pc' = pc /\ ws' = ws
    BY <1>3 DEF vars
  <2>. QED
    BY <2>1, <2>2, <2>3 DEF UnaskedInv
<1>. QED
  BY <1>1, <1>2, <1>3 DEF Next, Step, Planned, CollectStep

(***************************************************************************)
(* Without ecosystem_depends_on a plan holds everything the policies ask   *)
(* for, cycles of packages and every order of the calls included; no node  *)
(* is cut to the task level, so a cascading task runs in the dependencies  *)
(* first; and a task that does not cascade stays where it was opted into.  *)
(***************************************************************************)
THEOREM UnaskedPlanKept == Spec => []UnaskedPlanKeepsPromises
<1>1. ASSUME PlanInv, UnaskedInv, [Next]_vars PROVE UnaskedInv'
  BY <1>1, UnaskedNext
<1>2. ASSUME PlanInv, UnaskedInv PROVE UnaskedPlanKeepsPromises
  <2>. SUFFICES ASSUME Unasked(ws) PROVE PlanIsComplete /\ NativeOrderKept /\ CascadeNoneStays
    BY DEF UnaskedPlanKeepsPromises, Unasked
  <2>1. PlanIsComplete /\ CascadeNoneStays
    BY <1>2 DEF UnaskedInv, PlanIsComplete, CascadeNoneStays
  <2>2. ASSUME pc = "planned", NEW n \in included, CascadesNatively(ws, n[2]),
               NEW q \in Native(ws, n[1]), <<q, n[2]>> \in included
        PROVE  <<q, n[2]>> \in prerequisites[n]
    <3>1. prerequisites[n] = TaskPrerequisites(ws, n[1], n[2], n \in restricted) \cap included
          /\ n \notin restricted
      BY <1>2, <2>2 DEF PlanInv, PlanMade, UnaskedInv
    <3>2. <<q, n[2]>> \in TaskPrerequisites(ws, n[1], n[2], n \in restricted)
      BY <2>2, <3>1 DEF TaskPrerequisites
    <3>. QED
      BY <2>2, <3>1, <3>2
  <2>. QED
    BY <2>1, <2>2 DEF NativeOrderKept
<1>. QED
  BY <1>1, <1>2, UnaskedFirst, PlanInvAlways, PTL DEF Spec

=============================================================================
