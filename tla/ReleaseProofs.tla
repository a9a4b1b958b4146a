---------------------------- MODULE ReleaseProofs ---------------------------
(***************************************************************************)
(* Proofs about a release.  Of Versions: releases follow semantic          *)
(* versioning and prereleases advance, whichever jobs race, where one      *)
(* branch publishes stable versions, for any other branches, channels,     *)
(* commits and number of jobs.  Of Stamping: stamping reaches exactly what *)
(* was asked for, the requirements follow, and a run repairs what failed   *)
(* runs left, for any repositories and command lines and any number of     *)
(* runs.                                                                   *)
(***************************************************************************)
EXTENDS Versions, Stamping, FiniteSetTheorems, WellFoundedInduction, TLAPS

(***************************************************************************)
(* Versions as triples: what comes before what, and how big a step it is.  *)
(***************************************************************************)
Below(a, b) ==
  \/ a[1] < b[1]
  \/ a[1] = b[1] /\ a[2] < b[2]
  \/ a[1] = b[1] /\ a[2] = b[2] /\ a[3] < b[3]

Differ(a, b) == IF a[1] # b[1] THEN 3 ELSE IF a[2] # b[2] THEN 2 ELSE 1

LEMMA BaseFacts ==
  ASSUME NEW a \in Bases
  PROVE  /\ a[1] \in Nat /\ a[2] \in Nat /\ a[3] \in Nat
         /\ \A b \in Bases : a[1] = b[1] /\ a[2] = b[2] /\ a[3] = b[3] => a = b
<1>1. a[1] \in Nat /\ a[2] \in Nat /\ a[3] \in Nat
  BY DEF Bases
<1>2. ASSUME NEW b \in Bases, a[1] = b[1], a[2] = b[2], a[3] = b[3] PROVE a = b
  <2>1. \A i \in 1 .. 3 : i = 1 \/ i = 2 \/ i = 3
    OBVIOUS
  <2>2. \A i \in 1 .. 3 : a[i] = b[i]
    BY <1>2, <2>1
  <2>. QED
    BY <2>2 DEF Bases
<1>. QED
  BY <1>1, <1>2

LEMMA LowerIsBelow ==
  ASSUME NEW a \in Bases, NEW b \in Bases
  PROVE  Lower(a, b) <=> Below(a, b)
<1>1. ASSUME Lower(a, b) PROVE Below(a, b)
  <2>1. PICK i \in 1 .. 3 : a[i] < b[i] /\ \A k \in 1 .. i - 1 : a[k] = b[k]
    BY <1>1 DEF Lower
  <2>2. CASE i = 1
    BY <2>1, <2>2 DEF Below
  <2>3. CASE i = 2
    <3>1. 1 \in 1 .. i - 1
      BY <2>3
    <3>. QED
      BY <2>1, <2>3, <3>1 DEF Below
  <2>4. CASE i = 3
    <3>1. 1 \in 1 .. i - 1 /\ 2 \in 1 .. i - 1
      BY <2>4
    <3>. QED
      BY <2>1, <2>4, <3>1 DEF Below
  <2>. QED
    BY <2>2, <2>3, <2>4
<1>2. CASE a[1] < b[1]
  <2>1. \A k \in 1 .. 1 - 1 : a[k] = b[k]
    OBVIOUS
  <2>. QED
    BY <1>2, <2>1 DEF Lower, Below
<1>3. CASE a[1] = b[1] /\ a[2] < b[2]
  <2>1. \A k \in 1 .. 2 - 1 : k = 1
    OBVIOUS
  <2>2. 2 \in 1 .. 3 /\ a[2] < b[2] /\ \A k \in 1 .. 2 - 1 : a[k] = b[k]
    BY <1>3, <2>1
  <2>. QED
    BY <1>3, <2>2 DEF Lower, Below
<1>4. CASE a[1] = b[1] /\ a[2] = b[2] /\ a[3] < b[3]
  <2>1. \A k \in 1 .. 3 - 1 : k = 1 \/ k = 2
    OBVIOUS
  <2>2. 3 \in 1 .. 3 /\ a[3] < b[3] /\ \A k \in 1 .. 3 - 1 : a[k] = b[k]
    BY <1>4, <2>1
  <2>. QED
    BY <1>4, <2>2 DEF Lower, Below
<1>. QED
  BY <1>1, <1>2, <1>3, <1>4 DEF Below

LEMMA StepIsDiffer ==
  ASSUME NEW a \in Bases, NEW b \in Bases, Below(a, b)
  PROVE  Step(a, b) = Differ(a, b)
<1>. DEFINE D == {i \in 1 .. 3 : a[i] # b[i]}
            x == 4 - Differ(a, b)
<1>1. x \in D /\ \A y \in D : x <= y
  <2>1. \A i \in 1 .. 3 : i = 1 \/ i = 2 \/ i = 3
    OBVIOUS
  <2>2. a[1] # b[1] \/ a[2] # b[2] \/ a[3] # b[3]
    BY BaseFacts DEF Below
  <2>. QED
    BY <2>1, <2>2 DEF Differ
<1>2. D \subseteq Nat /\ x = 4 - Differ(a, b) /\ Differ(a, b) \in 1 .. 3
  BY DEF Differ
<1>3. Step(a, b) = 4 - Min(D)
  BY DEF Step
<1>. HIDE DEF D, x
<1>4. Min(D) = x
  <2>1. Min(D) \in D /\ \A y \in D : Min(D) <= y
    BY <1>1, Zenon DEF Min
  <2>2. Min(D) \in Nat /\ x \in Nat /\ Min(D) <= x /\ x <= Min(D)
    BY <1>1, <1>2, <2>1
  <2>. QED
    BY <2>2
<1>. QED
  BY <1>2, <1>3, <1>4

LEMMA BumpedFacts ==
  ASSUME NEW a \in Bases, NEW k \in 1 .. 3
  PROVE  /\ Bumped(a, k) \in Bases
         /\ Bumped(a, k)[1] = IF k = 3 THEN a[1] + 1 ELSE a[1]
         /\ Bumped(a, k)[2] = IF k = 3 THEN 0 ELSE IF k = 2 THEN a[2] + 1 ELSE a[2]
         /\ Bumped(a, k)[3] = IF k = 1 THEN a[3] + 1 ELSE 0
<1>1. a[1] \in Nat /\ a[2] \in Nat /\ a[3] \in Nat
  BY BaseFacts
<1>2. /\ Bumped(a, k)[1] = IF k = 3 THEN a[1] + 1 ELSE a[1]
      /\ Bumped(a, k)[2] = IF k = 3 THEN 0 ELSE IF k = 2 THEN a[2] + 1 ELSE a[2]
      /\ Bumped(a, k)[3] = IF k = 1 THEN a[3] + 1 ELSE 0
  BY <1>1 DEF Bumped
<1>3. Bumped(a, k) \in Bases
  BY DEF Bumped, Bases
<1>. QED
  BY <1>2, <1>3

\* A version follows its start by the step it makes, and by none that is bigger.
LEMMA BumpedIsStep ==
  ASSUME NEW a \in Bases, NEW k \in 1 .. 3
  PROVE  Below(a, Bumped(a, k)) /\ Differ(a, Bumped(a, k)) = k
BY BaseFacts, BumpedFacts DEF Below, Differ

LEMMA BelowFacts ==
  ASSUME NEW a \in Bases, NEW b \in Bases
  PROVE  /\ ~ Below(a, a)
         /\ Below(a, b) \/ Below(b, a) \/ a = b
         /\ ~ (Below(a, b) /\ Below(b, a))
         /\ Differ(a, b) \in 1 .. 3
BY BaseFacts DEF Below, Differ

LEMMA BetweenSteps ==
  ASSUME NEW a \in Bases, NEW m \in Bases, NEW v \in Bases, Below(a, m), Below(m, v)
  PROVE  Below(a, v) /\ Differ(a, m) <= Differ(a, v) /\ Differ(m, v) <= Differ(a, v)
BY BaseFacts DEF Below, Differ

(***************************************************************************)
(* What was bumped from r and lies above m is what the same bump makes of  *)
(* m, if m is not below r: m is less than that bump away from r.           *)
(***************************************************************************)
LEMMA SameBump ==
  ASSUME NEW r \in Bases, NEW m \in Bases, NEW j \in 1 .. 3,
         r = m \/ Below(r, m), Below(m, Bumped(r, j))
  PROVE  Bumped(m, j) = Bumped(r, j) /\ (r = m \/ Differ(r, m) < j)
<1>1. /\ Bumped(m, j)[1] = Bumped(r, j)[1]
      /\ Bumped(m, j)[2] = Bumped(r, j)[2]
      /\ Bumped(m, j)[3] = Bumped(r, j)[3]
      /\ r = m \/ Differ(r, m) < j
  BY BaseFacts, BumpedFacts DEF Below, Differ
<1>2. Bumped(m, j) \in Bases /\ Bumped(r, j) \in Bases
  BY BumpedFacts
<1>. HIDE DEF Below
<1>. QED
  BY <1>1, <1>2, BaseFacts

LEMMA BumpsCompared ==
  ASSUME NEW m \in Bases, NEW j \in 1 .. 3, NEW k \in 1 .. 3
  PROVE  /\ Below(Bumped(m, j), Bumped(m, k)) <=> j < k
         /\ j < k => Differ(Bumped(m, j), Bumped(m, k)) = k
BY BaseFacts, BumpedFacts DEF Below, Differ

LEMMA BumpType == \A m : Bump(m) \in 0 .. 3
BY DEF Bump

LEMMA MaxOfFew ==
  ASSUME NEW S \in SUBSET (0 .. 3), S # {}
  PROVE  Max(S) \in S /\ \A y \in S : y <= Max(S)
<1>1. \E x \in S : \A y \in S : x >= y
  <2>1. CASE 3 \in S
    BY <2>1
  <2>2. CASE 3 \notin S /\ 2 \in S
    BY <2>2
  <2>3. CASE 3 \notin S /\ 2 \notin S /\ 1 \in S
    BY <2>3
  <2>4. CASE 3 \notin S /\ 2 \notin S /\ 1 \notin S
    <3>1. ASSUME NEW y \in S PROVE y = 0
      <4>1. y \in 0 .. 3 /\ y # 1 /\ y # 2 /\ y # 3
        BY <2>4
      <4>. QED
        BY <4>1
    <3>2. PICK x : x \in S
      OBVIOUS
    <3>3. x = 0 /\ \A y \in S : x >= y
      BY <3>1, <3>2
    <3>. QED
      BY <3>2, <3>3
  <2>. QED
    BY <2>1, <2>2, <2>3, <2>4
<1>2. Max(S) \in S /\ \A y \in S : Max(S) >= y
  BY <1>1, Zenon DEF Max
<1>. QED
  BY <1>2


(***************************************************************************)
(* A finite set has a greatest element, by any order.                      *)
(***************************************************************************)
LEMMA LeastElement ==
  ASSUME NEW S \in SUBSET Nat, S # {}
  PROVE  \E x \in S : \A y \in S : x <= y
<1>. DEFINE R == {ss \in Nat \X Nat : ss[1] < ss[2]}
<1>1. IsWellFoundedOn(R, Nat)
  <2>1. R = OpToRel(<, Nat)
    BY DEF OpToRel
  <2>. QED
    BY <2>1, NatLessThanWellFounded, Zenon
<1>2. PICK x \in S : \A y \in S : ~ (<<y, x>> \in R)
  <2>. HIDE DEF R
  <2>. QED
    BY <1>1, WFMin, Zenon
<1>3. ASSUME NEW y \in S PROVE x <= y
  <2>1. <<y, x>> \in Nat \X Nat
    OBVIOUS
  <2>2. ~ (y < x)
    BY <1>2, <2>1
  <2>. QED
    BY <2>2
<1>. QED
  BY <1>3

LEMMA GreatestElement ==
  ASSUME NEW S, IsFiniteSet(S), S # {}, NEW R,
         \A x \in S : <<x, x>> \notin R,
         \A x, y, z \in S : <<x, y>> \in R /\ <<y, z>> \in R => <<x, z>> \in R
  PROVE  \E x \in S : \A y \in S : <<x, y>> \notin R
<1>. DEFINE Above(x) == {y \in S : <<x, y>> \in R}
            C == {Cardinality(Above(x)) : x \in S}
<1>1. \A x \in S : Above(x) \in SUBSET S
  OBVIOUS
<1>2. \A x, y \in S : <<x, y>> \in R => Above(y) \subseteq Above(x) /\ Above(y) # Above(x)
  <2>. SUFFICES ASSUME NEW x \in S, NEW y \in S, <<x, y>> \in R
                PROVE  Above(y) \subseteq Above(x) /\ y \in Above(x) /\ y \notin Above(y)
    OBVIOUS
  <2>. QED
    OBVIOUS
<1>. HIDE DEF Above
<1>3. \A x \in S : IsFiniteSet(Above(x)) /\ Cardinality(Above(x)) \in Nat
  BY <1>1, FS_Subset, FS_CardinalityType
<1>4. C \in SUBSET Nat /\ C # {}
  BY <1>3
<1>5. PICK k \in C : \A m \in C : k <= m
  <2>. HIDE DEF C
  <2>. QED
    BY <1>4, LeastElement
<1>6. PICK x \in S : k = Cardinality(Above(x))
  OBVIOUS
<1>7. ASSUME NEW y \in S, <<x, y>> \in R PROVE FALSE
  <2>1. Above(y) \in SUBSET Above(x) /\ Above(y) # Above(x)
    BY <1>2, <1>7
  <2>2. Cardinality(Above(y)) <= Cardinality(Above(x))
        /\ (Cardinality(Above(x)) = Cardinality(Above(y)) => Above(x) = Above(y))
    BY <1>3, <2>1, FS_Subset
  <2>3. k <= Cardinality(Above(y))
    BY <1>5
  <2>. QED
    BY <1>3, <1>6, <2>1, <2>2, <2>3
<1>. QED
  BY <1>7

LEMMA GreatestNumber ==
  ASSUME NEW S \in SUBSET Nat, IsFiniteSet(S), S # {}
  PROVE  Max(S) \in S /\ \A y \in S : y <= Max(S)
<1>. DEFINE R == {xy \in S \X S : xy[1] < xy[2]}
<1>1. /\ \A x, y \in S : <<x, y>> \in R <=> x < y
  OBVIOUS
<1>2. /\ \A x \in S : <<x, x>> \notin R
      /\ \A x, y, z \in S : <<x, y>> \in R /\ <<y, z>> \in R => <<x, z>> \in R
  BY <1>1
<1>3. PICK x \in S : \A y \in S : <<x, y>> \notin R
  <2>. HIDE DEF R
  <2>. QED
    BY <1>2, GreatestElement
<1>4. \A y \in S : x >= y
  <2>. HIDE DEF R
  <2>1. ASSUME NEW y \in S PROVE x >= y
    <3>1. ~ (x < y) /\ x \in Nat /\ y \in Nat
      BY <1>1, <1>3
    <3>. QED
      BY <3>1
  <2>. QED
    BY <2>1
<1>5. Max(S) \in S /\ \A y \in S : Max(S) >= y
  BY <1>4, Zenon DEF Max
<1>. QED
  BY <1>5

-----------------------------------------------------------------------------

(***************************************************************************)
(* The tags there are and those about to be pushed.                        *)
(***************************************************************************)
MessageSet == Messages \cup {[type |-> "other", breaking |-> "no"]}

Pushing == {jobs[j] : j \in {i \in Jobs : jobs[i] # Waiting}}

IsTag(h, t) ==
  /\ t = Tag(Prerelease(t.version.base, t.version.channel, t.version.number), t.commits, t.branch)
  /\ t.version.base \in Bases /\ t.version.number \in Nat
  /\ t.branch \in Branches /\ t.commits \subseteq h[t.branch]
  /\ t.version.channel = NoChannel => t.version.number = 0 /\ t.branch = Main

VersionsTyped ==
  /\ messages \in Seq(MessageSet)
  /\ heads \in [Branches -> SUBSET DOMAIN messages]
  /\ jobs = [j \in Jobs |-> jobs[j]]
  /\ IsFiniteSet(tags)
  /\ \A t \in tags \cup Pushing : IsTag(heads, t)
  /\ \A t, u \in tags : t.version = u.version => t = u

LEMMA LatestFacts ==
  ASSUME VersionsTyped
  PROVE  LET L == Latest(tags) IN
         /\ L.version.base \in Bases
         /\ IF ProductionTags(tags) = {} THEN L = Nothing
            ELSE /\ L \in ProductionTags(tags)
                 /\ \A t \in ProductionTags(tags) : t = L \/ Below(t.version.base, L.version.base)
<1>1. Nothing.version.base \in Bases
  BY DEF Nothing, Tag, Stable, Prerelease, Bases
<1>2. CASE ProductionTags(tags) = {}
  BY <1>1, <1>2 DEF Latest
<1>3. CASE ProductionTags(tags) # {}
  <2>. DEFINE P == ProductionTags(tags)
              R == {xy \in P \X P : Lower(xy[1].version.base, xy[2].version.base)}
              L == LatestProductionTag(tags)
  <2>1. \A t \in P : /\ t \in tags /\ t.version.base \in Bases /\ t.version.channel = NoChannel
                     /\ IsTag(heads, t)
    BY DEF ProductionTags, VersionsTyped, IsTag
  <2>2. P \in SUBSET tags
    BY DEF ProductionTags
  <2>. HIDE DEF P
  <2>3. IsFiniteSet(P)
    BY <2>2, FS_Subset DEF VersionsTyped
  <2>4. \A x, y \in P : <<x, y>> \in R <=> Below(x.version.base, y.version.base)
    BY <2>1, LowerIsBelow
  <2>5. /\ \A x \in P : <<x, x>> \notin R
        /\ \A x, y, z \in P : <<x, y>> \in R /\ <<y, z>> \in R => <<x, z>> \in R
    BY <2>1, <2>4, BelowFacts, BetweenSteps
  <2>6. P # {}
    BY <1>3 DEF P
  <2>. HIDE DEF R
  <2>7. \E x \in P : \A y \in P : <<x, y>> \notin R
    BY <2>3, <2>5, <2>6, GreatestElement
  <2>8. \E x \in P : \A y \in P : ~ Lower(x.version.base, y.version.base)
    BY <2>1, <2>4, <2>7, LowerIsBelow
  <2>9. L \in P /\ \A y \in P : ~ Lower(L.version.base, y.version.base)
    BY <2>8, Zenon DEF LatestProductionTag, P
  <2>. HIDE DEF L
  <2>10. ASSUME NEW t \in P PROVE t = L \/ Below(t.version.base, L.version.base)
    <3>1. ~ Below(L.version.base, t.version.base)
      BY <2>1, <2>9, LowerIsBelow
    <3>2. t.version.base = L.version.base \/ Below(t.version.base, L.version.base)
      BY <2>1, <2>9, <3>1, BelowFacts
    <3>3. t.version.base = L.version.base => t.version = L.version
      BY <2>1, <2>9 DEF IsTag, Tag, Prerelease
    <3>. QED
      BY <2>1, <2>9, <3>2, <3>3 DEF VersionsTyped
  <2>11. Latest(tags) = L
    BY <1>3 DEF Latest, L
  <2>. QED
    BY <1>3, <2>1, <2>9, <2>10, <2>11 DEF P
<1>. QED
  BY <1>2, <1>3

(***************************************************************************)
(* Semantic versioning.  Of releases u and v: v makes as big a step from u *)
(* as the commits that it adds want.                                       *)
(***************************************************************************)
Fits(m, u, v) ==
  Below(u.version.base, v.version.base) =>
    \A c \in v.commits \ u.commits : Bump(m[c]) <= Differ(u.version.base, v.version.base)

\* The releases there are, and those that will be if they are pushed now.
Releases(ts, ps) ==
  ProductionTags(ts) \cup {p \in ProductionTags(ps) : \A t \in ts : t.version # p.version}

\* What a version may have been calculated from.
Origin(m, ts, ps, r) ==
  \/ r \in ProductionTags(ts)
  \/ /\ r = Nothing
     /\ \A t \in ProductionTags(ts) : Below(r.version.base, t.version.base)
     /\ \A v \in Releases(ts, ps) : Fits(m, r, v)

\* A release has the commits of its origin; a prerelease may not, but has a reason for its step.
Founded(m, ts, ps, t) ==
  \E r \in ProductionTags(ts) \cup {Nothing} : \E k \in 1 .. 3 :
    /\ Origin(m, ts, ps, r)
    /\ t.version.base = Bumped(r.version.base, k)
    /\ IF t.version.channel = NoChannel THEN r.commits \subseteq t.commits
       ELSE k = 1 \/ \E c \in t.commits \ r.commits : Bump(m[c]) = k

SemVerInv(m, ts, ps) ==
  /\ \A u, v \in Releases(ts, ps) : Fits(m, u, v)
  /\ \A t \in ps : Founded(m, ts, ps, t)
  /\ \A t \in ts : t.version.channel # NoChannel => Founded(m, ts, ps, t)

(***************************************************************************)
(* Prereleases of the same version, channel and branch.                    *)
(***************************************************************************)
Alike(u, v) ==
  /\ u.branch = v.branch /\ u.version.channel = v.version.channel
  /\ u.version.base = v.version.base /\ u.version.channel # NoChannel

NumbersInv(ts, ps) ==
  /\ \A p \in ps : p.version.channel # NoChannel =>
       p.version.number <= ExistingPrereleaseCount(ts, p.version.base, p.version.channel) + 1
  /\ \A u, v \in ts \cup ps :
       Alike(u, v) /\ u.version.number < v.version.number => u.commits \subseteq v.commits

VersionsInv ==
  VersionsTyped /\ SemVerInv(messages, tags, Pushing) /\ NumbersInv(tags, Pushing)

(***************************************************************************)
(* What a job gets as the next version: the biggest step that a commit of  *)
(* its branch wants, from the latest release that it saw.                  *)
(***************************************************************************)
CalculatedFrom(v, branch, k) ==
  /\ v = Tag(Prerelease(v.version.base, v.version.channel, v.version.number), heads[branch], branch)
  /\ v.version.base = Bumped(Latest(tags).version.base, k)
  /\ \A c \in heads[branch] \ Latest(tags).commits : Bump(messages[c]) <= k
  /\ \E c \in heads[branch] \ Latest(tags).commits : Bump(messages[c]) = k
  /\ IF v.version.channel = NoChannel THEN v.version.number = 0 /\ branch = Main
     ELSE v.version.number =
            ExistingPrereleaseCount(tags, v.version.base, v.version.channel) + 1

LEMMA CalculateFacts ==
  ASSUME VersionsTyped, NEW j \in Jobs, Calculate(j)
  PROVE  \/ UNCHANGED versionVars
         \/ /\ UNCHANGED <<messages, heads, tags>> /\ jobs[j] = Waiting
            /\ \E v : \E branch \in Branches : \E k \in 1 .. 3 :
                 CalculatedFrom(v, branch, k) /\ jobs' = [jobs EXCEPT ![j] = v]
<1>1. UNCHANGED <<messages, heads, tags>> /\ jobs[j] = Waiting
  BY DEF Calculate
<1>2. ASSUME jobs' # jobs
      PROVE  \E v : \E branch \in Branches : \E k \in 1 .. 3 :
               CalculatedFrom(v, branch, k) /\ jobs' = [jobs EXCEPT ![j] = v]
  <2>1. PICK branch \in Branches, override \in Overrides \cup {NoChannel} :
          \E config \in ConfigsOf(branch, override) :
            LET since   == CommitsSince(heads[branch], tags)
                bump    == Max({0} \cup {Bump(messages[c]) : c \in since})
                base    == Bumped(Latest(tags).version.base, bump)
                number  == ExistingPrereleaseCount(tags, base, config.channel) + 1
                version == IF config.prerelease THEN Prerelease(base, config.channel, number)
                           ELSE Stable(base)
            IN  jobs' = IF since = {} \/ bump = 0 THEN jobs
                        ELSE [jobs EXCEPT ![j] = Tag(version, heads[branch], branch)]
    BY <1>2 DEF Calculate
  <2>2. PICK config \in ConfigsOf(branch, override) :
            LET since   == CommitsSince(heads[branch], tags)
                bump    == Max({0} \cup {Bump(messages[c]) : c \in since})
                base    == Bumped(Latest(tags).version.base, bump)
                number  == ExistingPrereleaseCount(tags, base, config.channel) + 1
                version == IF config.prerelease THEN Prerelease(base, config.channel, number)
                           ELSE Stable(base)
            IN  jobs' = IF since = {} \/ bump = 0 THEN jobs
                        ELSE [jobs EXCEPT ![j] = Tag(version, heads[branch], branch)]
    BY <2>1
  <2>. DEFINE since   == heads[branch] \ Latest(tags).commits
              S       == {0} \cup {Bump(messages[c]) : c \in since}
              base    == Bumped(Latest(tags).version.base, Max(S))
              number  == ExistingPrereleaseCount(tags, base, config.channel) + 1
              version == IF config.prerelease THEN Prerelease(base, config.channel, number)
                         ELSE Stable(base)
              v       == Tag(version, heads[branch], branch)
  <2>3. Max(S) # 0 /\ jobs' = [jobs EXCEPT ![j] = v]
    BY <1>2, <2>2 DEF CommitsSince
  <2>4. /\ Max(S) \in S /\ \A y \in S : y <= Max(S)
        /\ S \in SUBSET (0 .. 3)
    <3>1. S \in SUBSET (0 .. 3) /\ S # {}
      BY BumpType
    <3>. HIDE DEF S
    <3>. QED
      BY <3>1, MaxOfFew
  <2>5. Max(S) \in 1 .. 3
    <3>. HIDE DEF S
    <3>1. Max(S) \in 0 .. 3
      BY <2>4
    <3>. QED
      BY <2>3, <3>1
  <2>6. /\ \A c \in since : Bump(messages[c]) <= Max(S)
        /\ \E c \in since : Bump(messages[c]) = Max(S)
    <3>1. Max(S) \in S /\ Max(S) # 0 /\ \A y \in S : y <= Max(S)
      BY <2>3, <2>4
    <3>2. PICK top : top = Max(S)
      OBVIOUS
    <3>3. top \in S /\ top # 0 /\ \A y \in S : y <= top
      BY <3>1, <3>2
    <3>4. (\A c \in since : Bump(messages[c]) <= top) /\ \E c \in since : Bump(messages[c]) = top
      BY <3>3
    <3>. QED
      BY <3>2, <3>4
  <2>7. /\ config.prerelease \in BOOLEAN
        /\ config.channel # NoChannel
        /\ config.prerelease \/ branch = Main
    BY ChannelsAssumption
  <2>. HIDE DEF S, since
  <2>8. /\ v.version.base = base /\ v.commits = heads[branch] /\ v.branch = branch
        /\ v = Tag(Prerelease(v.version.base, v.version.channel, v.version.number),
                   heads[branch], branch)
        /\ IF v.version.channel = NoChannel THEN v.version.number = 0 /\ branch = Main
           ELSE v.version.number = ExistingPrereleaseCount(tags, base, v.version.channel) + 1
    BY <2>7 DEF Tag, Prerelease, Stable
  <2>9. CalculatedFrom(v, branch, Max(S))
    BY <2>6, <2>8 DEF CalculatedFrom, since
  <2>. HIDE DEF v
  <2>. QED
    BY <2>3, <2>5, <2>9
<1>. QED
  BY <1>1, <1>2 DEF versionVars

LEMMA CountFacts ==
  ASSUME NEW ts, IsFiniteSet(ts), \A t \in ts : t.version.number \in Nat, NEW base, NEW channel
  PROVE  /\ ExistingPrereleaseCount(ts, base, channel) \in Nat
         /\ \A t \in ts : t.version.base = base /\ t.version.channel = channel =>
              t.version.number <= ExistingPrereleaseCount(ts, base, channel)
         /\ \/ ExistingPrereleaseCount(ts, base, channel) = 0
            \/ \E t \in ts : /\ t.version.base = base /\ t.version.channel = channel
                             /\ t.version.number = ExistingPrereleaseCount(ts, base, channel)
<1>. DEFINE F == {t \in ts : t.version.base = base /\ t.version.channel = channel}
            f == [t \in F |-> t.version.number]
            N == {t.version.number : t \in F}
            S == {0} \cup N
<1>1. IsFiniteSet(F)
  BY FS_Subset
<1>2. f \in Surjection(F, N)
  BY DEF Surjection
<1>3. IsFiniteSet(N)
  <2>. HIDE DEF f, N
  <2>. QED
    BY <1>1, <1>2, FS_Surjection
<1>4. S \in SUBSET Nat /\ S # {}
  OBVIOUS
<1>5. IsFiniteSet(S)
  <2>. HIDE DEF N
  <2>. QED
    BY <1>3, FS_Singleton, FS_Union
<1>6. Max(S) \in S /\ \A y \in S : y <= Max(S)
  <2>. HIDE DEF S
  <2>. QED
    BY <1>4, <1>5, GreatestNumber
<1>7. PICK n : n = Max(S)
  OBVIOUS
<1>8. n \in S /\ \A y \in S : y <= n
  BY <1>6, <1>7
<1>9. n = ExistingPrereleaseCount(ts, base, channel)
  BY <1>7 DEF ExistingPrereleaseCount
<1>10. /\ n \in Nat
       /\ \A t \in ts : t.version.base = base /\ t.version.channel = channel =>
            t.version.number <= n
       /\ \/ n = 0
          \/ \E t \in ts : /\ t.version.base = base /\ t.version.channel = channel
                           /\ t.version.number = n
  BY <1>4, <1>8
<1>. QED
  BY <1>9, <1>10

(***************************************************************************)
(* Where a release is, compared with the latest: it is the latest, or      *)
(* below, or a job has not pushed it yet.                                  *)
(***************************************************************************)
LEMMA NothingFacts ==
  /\ Nothing.version.base \in Bases /\ Nothing.commits = {}
  /\ \A b \in Bases : ~ Below(b, Nothing.version.base)
<1>1. /\ Nothing.version.base = <<0, 0, 0>> /\ Nothing.commits = {}
      /\ Nothing.version.base \in Bases
  BY DEF Nothing, Tag, Stable, Prerelease, Bases
<1>2. \A b \in Bases : ~ Below(b, <<0, 0, 0>>)
  BY BaseFacts DEF Below
<1>. QED
  BY <1>1, <1>2

LEMMA OriginFacts ==
  ASSUME VersionsTyped, NEW r, Origin(messages, tags, Pushing, r)
  PROVE  /\ r.version.base \in Bases
         /\ r = Latest(tags) \/ Below(r.version.base, Latest(tags).version.base)
<1>1. CASE r \in ProductionTags(tags)
  <2>1. IsTag(heads, r)
    BY <1>1 DEF ProductionTags, VersionsTyped
  <2>. QED
    BY <1>1, <2>1, LatestFacts DEF IsTag
<1>2. CASE r = Nothing /\ \A t \in ProductionTags(tags) : Below(r.version.base, t.version.base)
  BY <1>2, LatestFacts, NothingFacts
<1>. QED
  BY <1>1, <1>2 DEF Origin

LEMMA OriginFits ==
  ASSUME VersionsInv, NEW r, Origin(messages, tags, Pushing, r)
  PROVE  /\ \A v \in Releases(tags, Pushing) : Fits(messages, r, v)
         /\ r # Latest(tags) => Fits(messages, r, Latest(tags))
<1>1. \A v \in Releases(tags, Pushing) : Fits(messages, r, v)
  BY DEF Origin, Releases, VersionsInv, SemVerInv
<1>2. CASE ProductionTags(tags) # {}
  <2>1. Latest(tags) \in Releases(tags, Pushing)
    BY <1>2, LatestFacts DEF VersionsInv, Releases
  <2>. QED
    BY <1>1, <2>1
<1>3. CASE ProductionTags(tags) = {}
  BY <1>1, <1>3, LatestFacts DEF VersionsInv, Origin
<1>. QED
  BY <1>1, <1>2, <1>3

\* A version above the latest release is what a bump of the latest makes.
LEMMA AboveLatest ==
  ASSUME VersionsInv, NEW t, Founded(messages, tags, Pushing, t),
         Below(Latest(tags).version.base, t.version.base)
  PROVE  \E r : \E j \in 1 .. 3 :
           /\ t.version.base = Bumped(Latest(tags).version.base, j)
           /\ \A c \in Latest(tags).commits \ r.commits : Bump(messages[c]) < j
           /\ IF t.version.channel = NoChannel THEN r.commits \subseteq t.commits
              ELSE j = 1 \/ \E c \in t.commits \ r.commits : Bump(messages[c]) = j
<1>1. PICK r \in ProductionTags(tags) \cup {Nothing} : \E j \in 1 .. 3 :
        /\ Origin(messages, tags, Pushing, r)
        /\ t.version.base = Bumped(r.version.base, j)
        /\ IF t.version.channel = NoChannel THEN r.commits \subseteq t.commits
           ELSE j = 1 \/ \E c \in t.commits \ r.commits : Bump(messages[c]) = j
  BY DEF Founded
<1>2. PICK j \in 1 .. 3 :
        /\ Origin(messages, tags, Pushing, r)
        /\ t.version.base = Bumped(r.version.base, j)
        /\ IF t.version.channel = NoChannel THEN r.commits \subseteq t.commits
           ELSE j = 1 \/ \E c \in t.commits \ r.commits : Bump(messages[c]) = j
  BY <1>1
<1>. DEFINE L == Latest(tags)
<1>3. /\ r.version.base \in Bases /\ L.version.base \in Bases
      /\ r = L \/ Below(r.version.base, L.version.base)
  BY <1>2, OriginFacts, LatestFacts DEF VersionsInv
<1>4. r # L => Fits(messages, r, L)
  BY <1>2, OriginFits
<1>. HIDE DEF L
<1>5. /\ Bumped(L.version.base, j) = Bumped(r.version.base, j)
      /\ r.version.base = L.version.base \/ Differ(r.version.base, L.version.base) < j
  <2>1. Below(L.version.base, Bumped(r.version.base, j))
    BY <1>2 DEF L
  <2>2. r.version.base = L.version.base \/ Below(r.version.base, L.version.base)
    BY <1>3
  <2>. QED
    BY <1>3, <2>1, <2>2, SameBump
<1>6. ASSUME NEW c \in L.commits \ r.commits PROVE Bump(messages[c]) < j
  <2>1. r # L
    BY <1>6
  <2>2. Below(r.version.base, L.version.base) /\ Fits(messages, r, L)
    BY <1>3, <1>4, <2>1
  <2>3. Bump(messages[c]) <= Differ(r.version.base, L.version.base)
    BY <2>2 DEF Fits
  <2>4. Differ(r.version.base, L.version.base) < j
    BY <1>3, <1>5, <2>2, BelowFacts
  <2>5. Bump(messages[c]) \in 0 .. 3 /\ Differ(r.version.base, L.version.base) \in 1 .. 3
    BY <1>3, BumpType, BelowFacts
  <2>. QED
    BY <2>3, <2>4, <2>5
<1>. QED
  BY <1>2, <1>5, <1>6 DEF L

LEMMA ReleasePlaced ==
  ASSUME VersionsInv, NEW u \in Releases(tags, Pushing)
  PROVE  /\ IsTag(heads, u) /\ u.version.base \in Bases /\ u.branch = Main
         /\ \/ u = Latest(tags)
            \/ Below(u.version.base, Latest(tags).version.base)
            \/ Below(Latest(tags).version.base, u.version.base) /\ u \in ProductionTags(Pushing)
<1>. DEFINE L == Latest(tags)
<1>1. /\ u \in tags \cup Pushing /\ u.version.channel = NoChannel
      /\ u \in ProductionTags(tags) \/ (u \in ProductionTags(Pushing) /\ \A t \in tags : t.version # u.version)
  BY DEF Releases, ProductionTags
<1>2. IsTag(heads, u) /\ u.version.base \in Bases /\ u.branch = Main /\ L.version.base \in Bases
  BY <1>1, LatestFacts DEF VersionsInv, VersionsTyped, IsTag
<1>3. CASE u \in ProductionTags(tags)
  BY <1>2, <1>3, LatestFacts DEF VersionsInv
<1>4. CASE u \in ProductionTags(Pushing) /\ \A t \in tags : t.version # u.version
  <2>1. u.version.base # L.version.base
    <3>1. CASE ProductionTags(tags) # {}
      <4>1. L \in tags /\ L.version.channel = NoChannel
        BY <3>1, LatestFacts DEF VersionsInv, ProductionTags
      <4>2. IsTag(heads, L)
        BY <4>1 DEF VersionsInv, VersionsTyped
      <4>3. u.version.base = L.version.base => u.version = L.version
        BY <1>1, <1>2, <4>1, <4>2 DEF IsTag, Tag, Prerelease
      <4>. QED
        BY <1>4, <4>1, <4>3
    <3>2. CASE ProductionTags(tags) = {}
      <4>1. L = Nothing
        BY <3>2, LatestFacts DEF VersionsInv
      <4>2. Founded(messages, tags, Pushing, u)
        BY <1>4 DEF VersionsInv, SemVerInv, ProductionTags
      <4>3. PICK k \in 1 .. 3 : u.version.base = Bumped(Nothing.version.base, k)
        BY <3>2, <4>2 DEF Founded
      <4>. QED
        BY <4>1, <4>3, BumpedIsStep, BelowFacts, NothingFacts
    <3>. QED
      BY <3>1, <3>2
  <2>. QED
    BY <1>2, <1>4, <2>1, BelowFacts
<1>. QED
  BY <1>1, <1>2, <1>3, <1>4

(***************************************************************************)
(* What a job calculates fits all releases.                                *)
(***************************************************************************)
LEMMA NewVersion ==
  ASSUME VersionsInv, NEW v, NEW branch \in Branches, NEW k \in 1 .. 3, CalculatedFrom(v, branch, k)
  PROVE  /\ IsTag(heads, v) /\ v.commits = heads[branch] /\ v.branch = branch
         /\ v.version.base \in Bases
         /\ Below(Latest(tags).version.base, v.version.base)
         /\ Differ(Latest(tags).version.base, v.version.base) = k
<1>1. /\ Latest(tags).version.base \in Bases
      /\ v.version.base = Bumped(Latest(tags).version.base, k)
  BY LatestFacts DEF VersionsInv, CalculatedFrom
<1>2. /\ v.version.base \in Bases
      /\ Below(Latest(tags).version.base, v.version.base)
      /\ Differ(Latest(tags).version.base, v.version.base) = k
  BY <1>1, BumpedFacts, BumpedIsStep
<1>3. /\ v.commits = heads[branch] /\ v.branch = branch
      /\ v = Tag(Prerelease(v.version.base, v.version.channel, v.version.number), v.commits, v.branch)
  <2>1. v = Tag(Prerelease(v.version.base, v.version.channel, v.version.number), heads[branch], branch)
    BY DEF CalculatedFrom
  <2>2. v.commits = heads[branch] /\ v.branch = branch
    BY <2>1 DEF Tag
  <2>. QED
    BY <2>1, <2>2
<1>4. ExistingPrereleaseCount(tags, v.version.base, v.version.channel) \in Nat
  BY CountFacts DEF VersionsInv, VersionsTyped, IsTag
<1>5. /\ v.version.number \in Nat
      /\ v.version.channel = NoChannel => v.version.number = 0 /\ branch = Main
  BY <1>4 DEF CalculatedFrom
<1>6. IsTag(heads, v)
  BY <1>2, <1>3, <1>5 DEF IsTag
<1>. QED
  BY <1>2, <1>3, <1>6

LEMMA NewFits ==
  ASSUME VersionsInv, NEW v, NEW branch \in Branches, NEW k \in 1 .. 3, CalculatedFrom(v, branch, k),
         v.version.channel = NoChannel
  PROVE  /\ \A u \in Releases(tags, Pushing) : Fits(messages, u, v) /\ Fits(messages, v, u)
         /\ Origin(messages, tags, Pushing, Nothing) => Fits(messages, Nothing, v)
<1>. DEFINE L == Latest(tags)
<1>1. /\ v.commits = heads[branch] /\ branch = Main
      /\ v.version.base \in Bases /\ L.version.base \in Bases
      /\ Below(L.version.base, v.version.base)
      /\ Differ(L.version.base, v.version.base) = k
      /\ v.version.base = Bumped(L.version.base, k)
      /\ \A c \in v.commits \ L.commits : Bump(messages[c]) <= k
  BY NewVersion, LatestFacts DEF VersionsInv, CalculatedFrom
<1>. HIDE DEF L
\* from the latest, and from below it
<1>2. ASSUME NEW u, u.version.base \in Bases, u = L \/ Below(u.version.base, L.version.base),
             u # L => Fits(messages, u, L)
      PROVE  Fits(messages, u, v) /\ Fits(messages, v, u)
  <2>1. CASE u = L
    <3>1. ~ Below(v.version.base, u.version.base)
      BY <1>1, <2>1, BelowFacts
    <3>. QED
      BY <1>1, <2>1, <3>1 DEF Fits
  <2>2. CASE u # L /\ Below(u.version.base, L.version.base)
    <3>1. /\ Below(u.version.base, v.version.base)
          /\ Differ(u.version.base, L.version.base) <= Differ(u.version.base, v.version.base)
          /\ k <= Differ(u.version.base, v.version.base)
      BY <1>1, <1>2, <2>2, BetweenSteps
    <3>2. ~ Below(v.version.base, u.version.base)
      BY <1>1, <1>2, <3>1, BelowFacts
    <3>3. /\ Differ(u.version.base, v.version.base) \in 1 .. 3
          /\ Differ(u.version.base, L.version.base) \in 1 .. 3
      BY <1>1, <1>2, BelowFacts
    <3>4. ASSUME NEW c \in v.commits \ u.commits
          PROVE  Bump(messages[c]) <= Differ(u.version.base, v.version.base)
      <4>1. Bump(messages[c]) \in 0 .. 3
        BY BumpType
      <4>2. CASE c \in L.commits
        <5>1. Bump(messages[c]) <= Differ(u.version.base, L.version.base)
          BY <1>2, <2>2, <3>4, <4>2 DEF Fits
        <5>. QED
          BY <3>1, <3>3, <4>1, <5>1
      <4>3. CASE c \notin L.commits
        <5>1. Bump(messages[c]) <= k
          BY <1>1, <3>4, <4>3
        <5>. QED
          BY <3>1, <3>3, <4>1, <5>1
      <4>. QED
        BY <4>2, <4>3
    <3>. QED
      BY <3>2, <3>4 DEF Fits
  <2>. QED
    BY <1>2, <2>1, <2>2
\* from what is not pushed yet
<1>3. ASSUME NEW u \in ProductionTags(Pushing), Below(L.version.base, u.version.base)
      PROVE  Fits(messages, u, v) /\ Fits(messages, v, u)
  <2>1. /\ u.version.channel = NoChannel /\ u.commits \subseteq v.commits
        /\ Founded(messages, tags, Pushing, u)
    BY <1>1 DEF ProductionTags, VersionsInv, VersionsTyped, IsTag, SemVerInv
  <2>2. Fits(messages, v, u)
    BY <2>1 DEF Fits
  <2>3. PICK r : \E j \in 1 .. 3 :
          /\ u.version.base = Bumped(L.version.base, j)
          /\ \A c \in L.commits \ r.commits : Bump(messages[c]) < j
          /\ r.commits \subseteq u.commits
    BY <1>3, <2>1, AboveLatest DEF L
  <2>4. PICK j \in 1 .. 3 :
          /\ u.version.base = Bumped(L.version.base, j)
          /\ \A c \in L.commits \ r.commits : Bump(messages[c]) < j
          /\ r.commits \subseteq u.commits
    BY <2>3
  <2>5. ASSUME Below(u.version.base, v.version.base), NEW c \in v.commits \ u.commits
        PROVE  Bump(messages[c]) <= Differ(u.version.base, v.version.base)
    <3>1. j < k /\ Differ(u.version.base, v.version.base) = k
      BY <1>1, <2>4, <2>5, BumpsCompared
    <3>2. CASE c \in L.commits
      <4>1. Bump(messages[c]) < j
        BY <2>4, <2>5, <3>2
      <4>2. Bump(messages[c]) \in 0 .. 3
        BY BumpType
      <4>. QED
        BY <3>1, <4>1, <4>2
    <3>3. CASE c \notin L.commits
      BY <1>1, <2>5, <3>1, <3>3
    <3>. QED
      BY <3>2, <3>3
  <2>. QED
    BY <2>2, <2>5 DEF Fits
<1>4. ASSUME NEW u \in Releases(tags, Pushing)
      PROVE  Fits(messages, u, v) /\ Fits(messages, v, u)
  <2>1. /\ u.version.base \in Bases
        /\ \/ u = L
           \/ Below(u.version.base, L.version.base)
           \/ Below(L.version.base, u.version.base) /\ u \in ProductionTags(Pushing)
    BY ReleasePlaced DEF L
  <2>2. Below(u.version.base, L.version.base) => Fits(messages, u, L)
    <3>1. CASE ProductionTags(tags) # {}
      <4>1. L \in Releases(tags, Pushing)
        BY <3>1, LatestFacts DEF VersionsInv, Releases, L
      <4>. QED
        BY <4>1 DEF VersionsInv, SemVerInv
    <3>2. CASE ProductionTags(tags) = {}
      BY <2>1, <3>2, LatestFacts, NothingFacts DEF VersionsInv, L
    <3>. QED
      BY <3>1, <3>2
  <2>3. CASE u = L \/ Below(u.version.base, L.version.base)
    <3>1. u # L => Fits(messages, u, L)
      BY <2>2, <2>3
    <3>. QED
      BY <1>2, <2>1, <2>3, <3>1
  <2>. QED
    BY <1>3, <2>1, <2>3
<1>5. ASSUME Origin(messages, tags, Pushing, Nothing) PROVE Fits(messages, Nothing, v)
  <2>1. /\ Nothing.version.base \in Bases
        /\ Nothing = L \/ Below(Nothing.version.base, L.version.base)
        /\ Nothing # L => Fits(messages, Nothing, L)
    BY <1>5, OriginFacts, OriginFits DEF VersionsInv, L
  <2>. QED
    BY <1>2, <2>1
<1>. QED
  BY <1>4, <1>5

LEMMA LatestIsOrigin ==
  ASSUME VersionsInv
  PROVE  Origin(messages, tags, Pushing, Latest(tags))
<1>1. CASE ProductionTags(tags) # {}
  BY <1>1, LatestFacts DEF VersionsInv, Origin
<1>2. CASE ProductionTags(tags) = {}
  <2>1. Latest(tags) = Nothing
    BY <1>2, LatestFacts DEF VersionsInv
  <2>2. ASSUME NEW u \in Releases(tags, Pushing) PROVE Fits(messages, Nothing, u)
    <3>1. Founded(messages, tags, Pushing, u)
      BY <1>2, <2>2 DEF Releases, ProductionTags, VersionsInv, SemVerInv
    <3>2. Origin(messages, tags, Pushing, Nothing)
      BY <1>2, <3>1 DEF Founded
    <3>. QED
      BY <2>2, <3>2, OriginFits
  <2>. QED
    BY <1>2, <2>1, <2>2 DEF Origin
<1>. QED
  BY <1>1, <1>2

LEMMA CalculatedKeeps ==
  ASSUME VersionsInv, NEW v, NEW branch \in Branches, NEW k \in 1 .. 3, CalculatedFrom(v, branch, k),
         NEW qs, qs \subseteq Pushing \cup {v}
  PROVE  SemVerInv(messages, tags, qs) /\ NumbersInv(tags, qs)
<1>1. ASSUME NEW u \in Releases(tags, qs)
      PROVE  u \in Releases(tags, Pushing) \/ (u = v /\ v.version.channel = NoChannel)
  BY DEF Releases, ProductionTags
<1>2. \A t, u \in Releases(tags, qs) : Fits(messages, t, u)
  <2>1. \A u : Fits(messages, u, u)
    BY DEF Fits
  <2>. QED
    BY <1>1, <2>1, NewFits DEF VersionsInv, SemVerInv
<1>3. ASSUME NEW r, Origin(messages, tags, Pushing, r)
      PROVE  Origin(messages, tags, qs, r)
  <2>1. CASE r \in ProductionTags(tags)
    BY <2>1 DEF Origin
  <2>2. CASE r = Nothing /\ \A t \in ProductionTags(tags) : Below(r.version.base, t.version.base)
    <3>1. \A u \in Releases(tags, qs) : Fits(messages, r, u)
      BY <1>1, <1>3, <2>2, NewFits, OriginFits
    <3>. QED
      BY <2>2, <3>1 DEF Origin
  <2>. QED
    BY <1>3, <2>1, <2>2 DEF Origin
<1>4. \A t : Founded(messages, tags, Pushing, t) => Founded(messages, tags, qs, t)
  BY <1>3 DEF Founded
<1>5. Founded(messages, tags, qs, v)
  <2>1. Origin(messages, tags, qs, Latest(tags)) /\ Latest(tags) \in ProductionTags(tags) \cup {Nothing}
    BY <1>3, LatestIsOrigin, LatestFacts DEF VersionsInv
  <2>2. /\ v.commits = heads[branch]
        /\ v.version.base = Bumped(Latest(tags).version.base, k)
        /\ \E c \in v.commits \ Latest(tags).commits : Bump(messages[c]) = k
    BY NewVersion DEF CalculatedFrom
  <2>3. ASSUME v.version.channel = NoChannel PROVE Latest(tags).commits \subseteq v.commits
    <3>1. branch = Main
      BY <2>3 DEF CalculatedFrom
    <3>2. CASE Latest(tags) \in ProductionTags(tags)
      BY <2>2, <3>1, <3>2 DEF VersionsInv, VersionsTyped, ProductionTags, IsTag
    <3>3. CASE Latest(tags) = Nothing
      BY <3>3, NothingFacts
    <3>. QED
      BY <2>1, <3>2, <3>3
  <2>4. /\ Origin(messages, tags, qs, Latest(tags))
        /\ v.version.base = Bumped(Latest(tags).version.base, k)
        /\ IF v.version.channel = NoChannel THEN Latest(tags).commits \subseteq v.commits
           ELSE k = 1 \/ \E c \in v.commits \ Latest(tags).commits : Bump(messages[c]) = k
    BY <2>1, <2>2, <2>3
  <2>. QED
    BY <2>1, <2>4 DEF Founded
<1>6. SemVerInv(messages, tags, qs)
  BY <1>2, <1>4, <1>5 DEF VersionsInv, SemVerInv
<1>7. NumbersInv(tags, qs)
  <2>1. \A t \in tags : t.version.number \in Nat
    BY DEF VersionsInv, VersionsTyped, IsTag
  <2>2. ASSUME NEW p \in qs, p.version.channel # NoChannel
        PROVE  p.version.number <= ExistingPrereleaseCount(tags, p.version.base, p.version.channel) + 1
    <3>1. CASE p \in Pushing
      BY <2>2, <3>1 DEF VersionsInv, NumbersInv
    <3>2. CASE p = v
      <4>1. ExistingPrereleaseCount(tags, v.version.base, v.version.channel) \in Nat
        BY <2>1, CountFacts DEF VersionsInv, VersionsTyped
      <4>. QED
        BY <2>2, <3>2, <4>1 DEF CalculatedFrom
    <3>. QED
      BY <3>1, <3>2
  <2>3. ASSUME NEW t \in tags \cup Pushing, Alike(t, v)
        PROVE  /\ t.version.number <= v.version.number
               /\ t.commits \subseteq v.commits
    <3>1. /\ t.branch = branch /\ t.version.base = v.version.base
          /\ t.version.channel = v.version.channel /\ v.version.channel # NoChannel
      BY <2>3, NewVersion DEF Alike
    <3>2. t.commits \subseteq v.commits /\ t.version.number \in Nat
      BY <3>1, NewVersion DEF VersionsInv, VersionsTyped, IsTag
    <3>3. v.version.number = ExistingPrereleaseCount(tags, t.version.base, t.version.channel) + 1
      BY <3>1 DEF CalculatedFrom
    <3>4. /\ ExistingPrereleaseCount(tags, t.version.base, t.version.channel) \in Nat
          /\ t \in tags =>
               t.version.number <= ExistingPrereleaseCount(tags, t.version.base, t.version.channel)
      BY <2>1, CountFacts DEF VersionsInv, VersionsTyped
    <3>5. t \in Pushing =>
            t.version.number <= ExistingPrereleaseCount(tags, t.version.base, t.version.channel) + 1
      BY <3>1 DEF VersionsInv, NumbersInv
    <3>. QED
      BY <3>2, <3>3, <3>4, <3>5
  <2>4. ASSUME NEW t \in tags \cup qs, NEW u \in tags \cup qs,
               Alike(t, u), t.version.number < u.version.number
        PROVE  t.commits \subseteq u.commits
    <3>1. CASE t \in tags \cup Pushing /\ u \in tags \cup Pushing
      BY <2>4, <3>1 DEF VersionsInv, NumbersInv
    <3>2. CASE t \in tags \cup Pushing /\ u = v
      BY <2>3, <2>4, <3>2
    <3>3. CASE t = v /\ u \in tags \cup Pushing
      <4>1. Alike(u, v)
        BY <2>4, <3>3 DEF Alike
      <4>2. u.version.number <= v.version.number /\ v.version.number < u.version.number
        BY <2>3, <2>4, <3>3, <4>1
      <4>3. u.version.number \in Nat /\ v.version.number \in Nat
        BY <3>3, NewVersion DEF VersionsInv, VersionsTyped, IsTag
      <4>. QED
        BY <4>2, <4>3
    <3>. QED
      BY <3>1, <3>2, <3>3
  <2>. QED
    BY <2>2, <2>4 DEF NumbersInv
<1>. QED
  BY <1>6, <1>7

(***************************************************************************)
(* A push turns what is about to be pushed into a tag, if its name is new. *)
(***************************************************************************)
LEMMA PushedKeeps ==
  ASSUME VersionsInv, NEW p \in Pushing, NEW qs, qs \subseteq Pushing, NEW ts,
         ts = tags \/ (ts = tags \cup {p} /\ \A t \in tags : t.version # p.version)
  PROVE  SemVerInv(messages, ts, qs) /\ NumbersInv(ts, qs)
<1>1. Releases(ts, qs) \subseteq Releases(tags, Pushing)
  BY DEF Releases, ProductionTags
<1>2. ASSUME NEW r, Origin(messages, tags, Pushing, r)
      PROVE  Origin(messages, ts, qs, r)
  <2>1. CASE r \in ProductionTags(tags)
    BY <2>1 DEF Origin, ProductionTags
  <2>2. CASE r = Nothing /\ \A t \in ProductionTags(tags) : Below(r.version.base, t.version.base)
    <3>1. \A u \in Releases(ts, qs) : Fits(messages, r, u)
      BY <1>1, <1>2, OriginFits
    <3>2. Below(r.version.base, p.version.base)
      <4>1. Founded(messages, tags, Pushing, p)
        BY DEF VersionsInv, SemVerInv
      <4>2. PICK q \in ProductionTags(tags) \cup {Nothing} : \E k \in 1 .. 3 :
              p.version.base = Bumped(q.version.base, k)
        BY <4>1 DEF Founded
      <4>3. q.version.base \in Bases /\ (q = Nothing \/ Below(Nothing.version.base, q.version.base))
        BY <2>2, <4>2, NothingFacts DEF VersionsInv, VersionsTyped, ProductionTags, IsTag
      <4>4. p.version.base \in Bases /\ Below(q.version.base, p.version.base)
        BY <4>2, <4>3, BumpedFacts, BumpedIsStep
      <4>. QED
        BY <2>2, <4>3, <4>4, BetweenSteps, NothingFacts
    <3>3. \A t \in ProductionTags(ts) : Below(r.version.base, t.version.base)
      BY <2>2, <3>2 DEF ProductionTags
    <3>. QED
      BY <2>2, <3>1, <3>3 DEF Origin
  <2>. QED
    BY <1>2, <2>1, <2>2 DEF Origin
<1>3. \A t : Founded(messages, tags, Pushing, t) => Founded(messages, ts, qs, t)
  <2>1. ProductionTags(tags) \subseteq ProductionTags(ts)
    BY DEF ProductionTags
  <2>. QED
    BY <1>2, <2>1 DEF Founded
<1>4. SemVerInv(messages, ts, qs)
  BY <1>1, <1>3 DEF VersionsInv, SemVerInv
<1>5. NumbersInv(ts, qs)
  <2>1. IsFiniteSet(ts) /\ \A t \in ts : t.version.number \in Nat
    BY FS_AddElement DEF VersionsInv, VersionsTyped, IsTag
  <2>2. ASSUME NEW q \in qs, q.version.channel # NoChannel
        PROVE  q.version.number <= ExistingPrereleaseCount(ts, q.version.base, q.version.channel) + 1
    <3>. DEFINE old == ExistingPrereleaseCount(tags, q.version.base, q.version.channel)
                new == ExistingPrereleaseCount(ts, q.version.base, q.version.channel)
    <3>1. q.version.number <= old + 1 /\ q.version.number \in Nat
      BY <2>2 DEF VersionsInv, NumbersInv, VersionsTyped, IsTag
    <3>2. /\ old \in Nat
          /\ \/ old = 0
             \/ \E t \in tags : /\ t.version.base = q.version.base
                                /\ t.version.channel = q.version.channel
                                /\ t.version.number = old
      BY CountFacts DEF VersionsInv, VersionsTyped, IsTag
    <3>3. /\ new \in Nat
          /\ \A t \in ts : t.version.base = q.version.base /\ t.version.channel = q.version.channel =>
               t.version.number <= new
      BY <2>1, CountFacts
    <3>. HIDE DEF old, new
    <3>4. old <= new
      BY <3>2, <3>3
    <3>. QED
      BY <3>1, <3>2, <3>3, <3>4 DEF new
  <2>3. ts \cup qs \subseteq tags \cup Pushing
    OBVIOUS
  <2>. QED
    BY <2>2, <2>3 DEF VersionsInv, NumbersInv
<1>. QED
  BY <1>4, <1>5

(***************************************************************************)
(* Commits and merges change no commit that a tag has.                     *)
(***************************************************************************)
LEMMA GrownKeeps ==
  ASSUME NEW m, NEW n, NEW ts, NEW ps,
         \A t \in ts \cup ps : \A c \in t.commits : n[c] = m[c],
         SemVerInv(m, ts, ps)
  PROVE  SemVerInv(n, ts, ps)
<1>1. \A u : \A v \in ts \cup ps : Fits(m, u, v) => Fits(n, u, v)
  BY DEF Fits
<1>2. Releases(ts, ps) \subseteq ts \cup ps
  BY DEF Releases, ProductionTags
<1>3. \A r : Origin(m, ts, ps, r) => Origin(n, ts, ps, r)
  BY <1>1, <1>2 DEF Origin
<1>4. \A t \in ts \cup ps : Founded(m, ts, ps, t) => Founded(n, ts, ps, t)
  BY <1>3 DEF Founded
<1>. QED
  BY <1>1, <1>2, <1>4 DEF SemVerInv

-----------------------------------------------------------------------------

LEMMA GrownTyped ==
  ASSUME VersionsTyped, UNCHANGED <<tags, jobs>>,
         messages' \in Seq(MessageSet), heads' \in [Branches -> SUBSET DOMAIN messages'],
         \A b \in Branches : heads[b] \subseteq heads'[b]
  PROVE  VersionsTyped'
<1>1. Pushing' = Pushing
  BY DEF Pushing
<1>2. ASSUME NEW t, IsTag(heads, t) PROVE IsTag(heads', t)
  BY <1>2 DEF IsTag
<1>. QED
  BY <1>1, <1>2 DEF VersionsTyped

LEMMA GrownInv ==
  ASSUME VersionsInv, UNCHANGED <<tags, jobs>>,
         messages' \in Seq(MessageSet), heads' \in [Branches -> SUBSET DOMAIN messages'],
         \A b \in Branches : heads[b] \subseteq heads'[b],
         \A c \in DOMAIN messages : messages'[c] = messages[c]
  PROVE  VersionsInv'
<1>1. VersionsTyped'
  BY GrownTyped DEF VersionsInv
<1>2. Pushing' = Pushing
  BY DEF Pushing
<1>3. \A t \in tags \cup Pushing : \A c \in t.commits : messages'[c] = messages[c]
  BY DEF VersionsInv, VersionsTyped, IsTag
<1>4. SemVerInv(messages', tags, Pushing)
  BY <1>3, GrownKeeps DEF VersionsInv
<1>. QED
  BY <1>1, <1>2, <1>4 DEF VersionsInv

LEMMA CommitInv ==
  ASSUME VersionsInv, NEW b \in Branches, Commit(b)
  PROVE  VersionsInv'
<1>1. PICK m \in Messages : messages' = Append(messages, m)
  BY DEF Commit
<1>2. /\ UNCHANGED <<tags, jobs>>
      /\ heads' = [heads EXCEPT ![b] = @ \cup {Len(messages')}]
  BY DEF Commit
<1>3. /\ messages \in Seq(MessageSet) /\ m \in MessageSet
      /\ heads \in [Branches -> SUBSET DOMAIN messages]
  BY DEF VersionsInv, VersionsTyped, MessageSet
<1>4. /\ messages' \in Seq(MessageSet) /\ Len(messages') = Len(messages) + 1
      /\ \A c \in DOMAIN messages : c \in DOMAIN messages' /\ messages'[c] = messages[c]
      /\ Len(messages') \in DOMAIN messages'
  BY <1>1, <1>3
<1>5. heads' \in [Branches -> SUBSET DOMAIN messages']
  <2>1. \A a \in Branches : heads[a] \cup {Len(messages')} \in SUBSET DOMAIN messages'
                            /\ heads[a] \in SUBSET DOMAIN messages'
    BY <1>3, <1>4
  <2>. QED
    BY <1>2, <1>3, <2>1
<1>6. \A a \in Branches : heads[a] \subseteq heads'[a]
  BY <1>2, <1>3
<1>. QED
  BY <1>2, <1>4, <1>5, <1>6, GrownInv

LEMMA MergeInv ==
  ASSUME VersionsInv, NEW from \in Branches, NEW to \in Branches, Merge(from, to)
  PROVE  VersionsInv'
<1>1. /\ UNCHANGED <<messages, tags, jobs>>
      /\ heads' = [heads EXCEPT ![to] = @ \cup heads[from]]
  BY DEF Merge
<1>2. messages \in Seq(MessageSet) /\ heads \in [Branches -> SUBSET DOMAIN messages]
  BY DEF VersionsInv, VersionsTyped
<1>3. /\ heads' \in [Branches -> SUBSET DOMAIN messages']
      /\ \A a \in Branches : heads[a] \subseteq heads'[a]
  BY <1>1, <1>2
<1>. QED
  BY <1>1, <1>2, <1>3, GrownInv

LEMMA CalculateInv ==
  ASSUME VersionsInv, NEW j \in Jobs, Calculate(j)
  PROVE  VersionsInv'
<1>1. CASE UNCHANGED versionVars
  BY <1>1 DEF versionVars, VersionsInv, VersionsTyped, Pushing
<1>2. CASE /\ UNCHANGED <<messages, heads, tags>> /\ jobs[j] = Waiting
           /\ \E v : \E branch \in Branches : \E k \in 1 .. 3 :
                CalculatedFrom(v, branch, k) /\ jobs' = [jobs EXCEPT ![j] = v]
  <2>1. PICK v : \E branch \in Branches : \E k \in 1 .. 3 :
          CalculatedFrom(v, branch, k) /\ jobs' = [jobs EXCEPT ![j] = v]
    BY <1>2
  <2>2. PICK branch \in Branches, k \in 1 .. 3 :
          CalculatedFrom(v, branch, k) /\ jobs' = [jobs EXCEPT ![j] = v]
    BY <2>1
  <2>3. /\ jobs' = [i \in Jobs |-> jobs'[i]]
        /\ \A i \in Jobs : jobs'[i] = jobs[i] \/ jobs'[i] = v
    BY <2>2 DEF VersionsInv, VersionsTyped
  <2>4. Pushing' \subseteq Pushing \cup {v}
    BY <2>3 DEF Pushing
  <2>5. IsTag(heads, v)
    BY <2>2, NewVersion
  <2>6. SemVerInv(messages, tags, Pushing') /\ NumbersInv(tags, Pushing')
    BY <2>2, <2>4, CalculatedKeeps
  <2>7. VersionsTyped'
    BY <1>2, <2>3, <2>4, <2>5 DEF VersionsInv, VersionsTyped
  <2>. QED
    BY <1>2, <2>6, <2>7 DEF VersionsInv
<1>. QED
  BY <1>1, <1>2, CalculateFacts DEF VersionsInv

LEMMA PushTagInv ==
  ASSUME VersionsInv, NEW j \in Jobs, PushTag(j)
  PROVE  VersionsInv'
<1>1. /\ UNCHANGED <<messages, heads>> /\ jobs[j] \in Pushing
      /\ jobs' = [jobs EXCEPT ![j] = Waiting]
      /\ \/ tags' = tags
         \/ tags' = tags \cup {jobs[j]} /\ \A t \in tags : t.version # jobs[j].version
  BY DEF PushTag, Pushing
<1>2. /\ jobs' = [i \in Jobs |-> jobs'[i]]
      /\ \A i \in Jobs : jobs'[i] = jobs[i] \/ jobs'[i] = Waiting
  BY <1>1 DEF VersionsInv, VersionsTyped
<1>3. Pushing' \subseteq Pushing
  BY <1>2 DEF Pushing
<1>4. SemVerInv(messages, tags', Pushing') /\ NumbersInv(tags', Pushing')
  BY <1>1, <1>3, PushedKeeps
<1>5. VersionsTyped'
  <2>1. IsFiniteSet(tags')
    <3>1. IsFiniteSet(tags)
      BY DEF VersionsInv, VersionsTyped
    <3>2. IsFiniteSet(tags \cup {jobs[j]})
      BY <3>1, FS_AddElement
    <3>. QED
      BY <1>1, <3>1, <3>2
  <2>2. \A t, u \in tags' : t.version = u.version => t = u
    BY <1>1 DEF VersionsInv, VersionsTyped
  <2>3. \A t \in tags' \cup Pushing' : IsTag(heads, t)
    BY <1>1, <1>3 DEF VersionsInv, VersionsTyped
  <2>4. /\ messages \in Seq(MessageSet)
        /\ heads \in [Branches -> SUBSET DOMAIN messages]
    BY DEF VersionsInv, VersionsTyped
  <2>. QED
    BY <1>1, <1>2, <2>1, <2>2, <2>3, <2>4 DEF VersionsTyped
<1>. QED
  BY <1>1, <1>4, <1>5 DEF VersionsInv

LEMMA FirstVersions == InitVersions => VersionsInv
<1>. SUFFICES ASSUME InitVersions PROVE VersionsInv
  OBVIOUS
<1>1. /\ messages = <<[type |-> "other", breaking |-> "no"]>>
      /\ heads = [b \in Branches |-> {1}]
      /\ tags \in FirstTags
      /\ jobs = [j \in Jobs |-> Waiting]
  BY DEF InitVersions
<1>2. Pushing = {}
  BY <1>1 DEF Pushing
<1>3. /\ IsFiniteSet(tags)
      /\ \A t, u \in tags : t.version = u.version => t = u
  BY <1>1, FirstTagsAssumption
<1>4. ASSUME NEW t \in tags
      PROVE  /\ t = Tag(Prerelease(t.version.base, t.version.channel, t.version.number), {1}, t.branch)
             /\ t.version.base \in Bases /\ t.version.number \in Nat /\ t.branch \in Branches
             /\ t.version.channel = NoChannel => t.version.number = 0 /\ t.branch = Main
             /\ t.version.channel # NoChannel =>
                  \E r \in IF ProductionTags(tags) = {} THEN {Nothing} ELSE ProductionTags(tags) :
                    t.version.base = Bumped(r.version.base, 1)
  BY <1>1, FirstTagsAssumption
<1>5. \A t \in tags : t.commits = {1}
  BY <1>4 DEF Tag
<1>6. VersionsTyped
  <2>1. messages \in Seq(MessageSet) /\ DOMAIN messages = {1}
    <3>1. [type |-> "other", breaking |-> "no"] \in MessageSet
      BY DEF MessageSet
    <3>. QED
      BY <1>1, <3>1
  <2>2. heads \in [Branches -> SUBSET DOMAIN messages]
    BY <1>1, <2>1
  <2>3. \A t \in tags : IsTag(heads, t)
    BY <1>1, <1>4, <1>5 DEF IsTag
  <2>. QED
    BY <1>1, <1>2, <1>3, <2>1, <2>2, <2>3 DEF VersionsTyped
<1>7. Releases(tags, Pushing) = ProductionTags(tags)
  BY <1>2 DEF Releases, ProductionTags
<1>8. \A u, v \in tags : Fits(messages, u, v)
  BY <1>5 DEF Fits
<1>9. ASSUME NEW t \in tags, t.version.channel # NoChannel
      PROVE  Founded(messages, tags, Pushing, t)
  <2>1. PICK r \in IF ProductionTags(tags) = {} THEN {Nothing} ELSE ProductionTags(tags) :
          t.version.base = Bumped(r.version.base, 1)
    BY <1>4, <1>9
  <2>2. Origin(messages, tags, Pushing, r) /\ r \in ProductionTags(tags) \cup {Nothing}
    BY <1>7 DEF Origin
  <2>3. /\ 1 \in 1 .. 3 /\ Origin(messages, tags, Pushing, r)
        /\ t.version.base = Bumped(r.version.base, 1)
        /\ IF t.version.channel = NoChannel THEN r.commits \subseteq t.commits
           ELSE 1 = 1 \/ \E c \in t.commits \ r.commits : Bump(messages[c]) = 1
    BY <1>9, <2>1, <2>2
  <2>. QED
    BY <2>2, <2>3 DEF Founded
<1>10. SemVerInv(messages, tags, Pushing)
  BY <1>2, <1>7, <1>8, <1>9 DEF SemVerInv, ProductionTags
<1>11. NumbersInv(tags, Pushing)
  BY <1>2, <1>5 DEF NumbersInv
<1>. QED
  BY <1>6, <1>10, <1>11 DEF VersionsInv

LEMMA VersionsInvariant == SpecVersions => []VersionsInv
<1>1. ASSUME VersionsInv, [NextVersions]_versionVars PROVE VersionsInv'
  <2>1. CASE UNCHANGED versionVars
    BY <1>1, <2>1 DEF versionVars, VersionsInv, VersionsTyped, Pushing
  <2>2. CASE \E b \in Branches : Commit(b)
    BY <1>1, <2>2, CommitInv
  <2>3. CASE \E from, to \in Branches : Merge(from, to)
    BY <1>1, <2>3, MergeInv
  <2>4. CASE \E j \in Jobs : Calculate(j) \/ PushTag(j)
    BY <1>1, <2>4, CalculateInv, PushTagInv
  <2>. QED
    BY <1>1, <2>1, <2>2, <2>3, <2>4 DEF NextVersions
<1>. QED
  BY <1>1, FirstVersions, PTL DEF SpecVersions

(***************************************************************************)
(* Whichever jobs raced, a release is as big a step from a lower one as    *)
(* the biggest of the commits it adds wants (main.rs:523-547): what a job  *)
(* calculated from the latest it saw fits what others pushed meanwhile.    *)
(***************************************************************************)
THEOREM ReleasesFollowSemVer == SpecVersions => []VersionsFollowSemVer
<1>1. ASSUME VersionsInv PROVE VersionsFollowSemVer
  <2>. SUFFICES ASSUME NEW u \in tags, NEW v \in tags, Production(u), Production(v),
                       Lower(u.version.base, v.version.base), NEW c \in v.commits \ u.commits
                PROVE  Bump(messages[c]) <= Step(u.version.base, v.version.base)
    BY DEF VersionsFollowSemVer
  <2>1. /\ u \in Releases(tags, Pushing) /\ v \in Releases(tags, Pushing)
        /\ u.version.base \in Bases /\ v.version.base \in Bases
    BY <1>1 DEF Production, Releases, ProductionTags, VersionsInv, VersionsTyped, IsTag
  <2>2. Fits(messages, u, v)
    BY <1>1, <2>1 DEF VersionsInv, SemVerInv
  <2>3. Below(u.version.base, v.version.base)
    BY <2>1, LowerIsBelow
  <2>. QED
    BY <2>1, <2>2, <2>3, StepIsDiffer DEF Fits
<1>. QED
  BY <1>1, VersionsInvariant, PTL

(***************************************************************************)
(* Of two prereleases of one version, channel and branch the higher has    *)
(* all commits of the lower: a job that raced is refused or comes after    *)
(* what it has itself (git.rs:120-138).                                    *)
(***************************************************************************)
THEOREM PrereleasesGrow == SpecVersions => []PrereleasesAdvance
<1>1. ASSUME VersionsInv PROVE PrereleasesAdvance
  <2>. SUFFICES ASSUME NEW u \in tags, NEW v \in tags,
                       u.branch = v.branch, u.version.channel # NoChannel,
                       [u.version EXCEPT !.number = 0] = [v.version EXCEPT !.number = 0],
                       u.version.number < v.version.number
                PROVE  u.commits \subseteq v.commits
    BY DEF PrereleasesAdvance
  <2>1. /\ u.version = Prerelease(u.version.base, u.version.channel, u.version.number)
        /\ v.version = Prerelease(v.version.base, v.version.channel, v.version.number)
    <3>1. IsTag(heads, u) /\ IsTag(heads, v)
      BY <1>1 DEF VersionsInv, VersionsTyped
    <3>. QED
      BY <3>1 DEF IsTag, Tag
  <2>2. u.version.base = v.version.base /\ u.version.channel = v.version.channel
    BY <2>1 DEF Prerelease
  <2>3. Alike(u, v)
    BY <2>2 DEF Alike
  <2>. QED
    BY <1>1, <2>3 DEF VersionsInv, NumbersInv
<1>. QED
  BY <1>1, VersionsInvariant, PTL

(***************************************************************************)
(* A calculated version is above all releases, and above all prereleases   *)
(* of its channel and branch, that there were when it was calculated       *)
(* (main.rs:498-550).                                                      *)
(***************************************************************************)
THEOREM CalculatedAreHighest == SpecVersions => CalculatedIsHighest
<1>1. ASSUME VersionsInv, [NextVersions]_versionVars, NEW j \in Jobs,
             jobs[j] = Waiting, jobs'[j] # Waiting, NEW t \in tags,
             \/ t.version.channel = NoChannel
             \/ t.version.channel = jobs'[j].version.channel /\ t.branch = jobs'[j].branch
      PROVE  Precedes(t.version, jobs'[j].version)
  <2>1. PICK i \in Jobs : Calculate(i) /\ jobs' # jobs
    <3>1. ASSUME NEW i \in Jobs, PushTag(i) PROVE FALSE
      BY <1>1, <3>1 DEF PushTag, VersionsInv, VersionsTyped
    <3>. QED
      BY <1>1, <3>1 DEF NextVersions, versionVars, Commit, Merge
  <2>2. PICK v : \E branch \in Branches : \E k \in 1 .. 3 :
          CalculatedFrom(v, branch, k) /\ jobs' = [jobs EXCEPT ![i] = v]
    BY <1>1, <2>1, CalculateFacts DEF VersionsInv, versionVars
  <2>3. PICK branch \in Branches, k \in 1 .. 3 :
          CalculatedFrom(v, branch, k) /\ jobs' = [jobs EXCEPT ![i] = v]
    BY <2>2
  <2>4. jobs'[j] = v
    BY <1>1, <2>3 DEF VersionsInv, VersionsTyped
  <2>. DEFINE L == Latest(tags)
  <2>5. /\ v.commits = heads[branch] /\ v.branch = branch
        /\ v.version.base \in Bases /\ L.version.base \in Bases
        /\ Below(L.version.base, v.version.base)
        /\ v.version.base = Bumped(L.version.base, k)
    BY <1>1, <2>3, NewVersion, LatestFacts DEF VersionsInv, CalculatedFrom
  <2>6. IsTag(heads, t) /\ t.version.base \in Bases
    BY <1>1 DEF VersionsInv, VersionsTyped, IsTag
  <2>7. CASE t.version.base = L.version.base \/ Below(t.version.base, L.version.base)
    <3>1. Below(t.version.base, v.version.base)
      BY <2>5, <2>6, <2>7, BetweenSteps
    <3>. QED
      BY <2>4, <2>5, <2>6, <3>1, LowerIsBelow DEF Precedes
  <2>8. CASE Below(L.version.base, t.version.base)
    <3>1. t.version.channel # NoChannel
      <4>1. t \notin ProductionTags(tags)
        BY <1>1, <2>5, <2>6, <2>8, LatestFacts, BelowFacts DEF VersionsInv
      <4>. QED
        BY <1>1, <4>1 DEF ProductionTags
    <3>2. t.version.channel = v.version.channel /\ t.branch = branch
      BY <1>1, <2>4, <2>5, <3>1
    <3>3. Founded(messages, tags, Pushing, t)
      BY <1>1, <3>1 DEF VersionsInv, SemVerInv
    <3>4. PICK r : \E n \in 1 .. 3 :
            /\ t.version.base = Bumped(L.version.base, n)
            /\ \A c \in L.commits \ r.commits : Bump(messages[c]) < n
            /\ n = 1 \/ \E c \in t.commits \ r.commits : Bump(messages[c]) = n
      BY <1>1, <2>8, <3>1, <3>3, AboveLatest
    <3>5. PICK n \in 1 .. 3 :
            /\ t.version.base = Bumped(L.version.base, n)
            /\ \A c \in L.commits \ r.commits : Bump(messages[c]) < n
            /\ n = 1 \/ \E c \in t.commits \ r.commits : Bump(messages[c]) = n
      BY <3>4
    <3>6. n <= k
      <4>1. CASE n = 1
        BY <4>1
      <4>2. CASE n # 1
        <5>1. PICK c \in t.commits \ r.commits : Bump(messages[c]) = n
          BY <3>5, <4>2
        <5>2. c \notin L.commits
          BY <3>5, <5>1
        <5>3. c \in heads[branch]
          BY <2>6, <3>2, <5>1 DEF IsTag
        <5>. QED
          BY <2>3, <5>1, <5>2, <5>3 DEF CalculatedFrom
      <4>. QED
        BY <4>1, <4>2
    <3>7. CASE n < k
      <4>1. Below(t.version.base, v.version.base)
        BY <2>5, <3>5, <3>7, BumpsCompared
      <4>. QED
        BY <2>4, <2>5, <2>6, <4>1, LowerIsBelow DEF Precedes
    <3>8. CASE n = k
      <4>1. t.version.base = v.version.base
        BY <2>5, <3>5, <3>8
      <4>2. /\ v.version.number = ExistingPrereleaseCount(tags, v.version.base, v.version.channel) + 1
            /\ v.version.channel # NoChannel
        BY <2>3, <3>1, <3>2 DEF CalculatedFrom
      <4>3. /\ t.version.number <= ExistingPrereleaseCount(tags, v.version.base, v.version.channel)
            /\ t.version.number \in Nat
            /\ ExistingPrereleaseCount(tags, v.version.base, v.version.channel) \in Nat
        BY <1>1, <3>2, <4>1, CountFacts DEF VersionsInv, VersionsTyped, IsTag
      <4>4. t.version.number < v.version.number
        BY <4>2, <4>3
      <4>. QED
        BY <2>4, <3>2, <4>1, <4>2, <4>4 DEF Precedes
    <3>. QED
      BY <3>6, <3>7, <3>8
  <2>. QED
    BY <2>5, <2>6, <2>7, <2>8, BelowFacts
<1>2. VersionsInv /\ [NextVersions]_versionVars =>
        [\A j \in Jobs : jobs[j] = Waiting /\ jobs'[j] # Waiting =>
           \A t \in tags :
             \/ t.version.channel = NoChannel
             \/ t.version.channel = jobs'[j].version.channel /\ t.branch = jobs'[j].branch
             => Precedes(t.version, jobs'[j].version)]_versionVars
  BY <1>1
<1>. QED
  BY <1>2, VersionsInvariant, PTL DEF SpecVersions, CalculatedIsHighest

-----------------------------------------------------------------------------

Version == options.version

Heirs == {f \in Packages(start) : start[f].version = Inherit}

(***************************************************************************)
(* Stamping changes versions and requirements and nothing else, and never  *)
(* gives a version to what has none of its own.                            *)
(***************************************************************************)
FileKept(f) ==
  LET new == files[f]
      old == start[f]
  IN  /\ IsFile(new)
      /\ new.kind = old.kind /\ new.name = old.name /\ new.package = old.package
      /\ new.deno = old.deno /\ DOMAIN new.requires = DOMAIN old.requires
      /\ \/ new.version = old.version
         \/ new.version = Version /\ old.version \notin {NoVersion, Inherit}
      /\ \/ new.workspace = old.workspace
         \/ new.workspace = Version /\ f = Root /\ old.workspace # NoVersion

FilesKept ==
  /\ start \in Repositories /\ options \in AllOptions
  /\ files = [f \in DOMAIN start |-> files[f]]
  /\ \A f \in DOMAIN start : FileKept(f)

Working == {"root", "packages", "deno", "done"}

Scripted(p) == start[p].kind = "js" /\ start[p].deno /\ start[p].version # NoVersion

DenoInv ==
  pc = "deno" => \E p \in DOMAIN start :
    /\ p \in selected /\ Scripted(p)
    /\ deno = DenoBeside(p)

TodoInv ==
  /\ pc \in Working => todo \subseteq selected /\ selected \subseteq Packages(start)
  /\ pc = "done" => todo = {}

KeptInv == FilesKept /\ DenoInv /\ TodoInv

(***************************************************************************)
(* Where packages inherit together, what was not asked for keeps its       *)
(* version, and what was asked for has the new one or is still to come.    *)
(***************************************************************************)
Asking(f) ==
  \/ PackageVersion(files, f) = Version
  \/ PackageVersion(start, f) = NoVersion
  \/ f \in todo /\ f \notin Heirs

AskedInv ==
  /\ \A f \in Packages(start) \ Asked : PackageVersion(files, f) = PackageVersion(start, f)
  /\ pc \in Working =>
       /\ selected \subseteq Asked
       /\ workspace => Heirs \subseteq Asked
       /\ Heirs \cap selected # {} => workspace
  /\ pc = "root" =>
       /\ todo = selected
       /\ \A f \in Asked : f \in selected \/ PackageVersion(files, f) = Version
  /\ pc \in Working \ {"root"} => \A f \in Asked : Asking(f)

(***************************************************************************)
(* Where the new version is not one of the excluded, a file holds what it  *)
(* held at first or what it is to hold, and a run settles all of them.     *)
(***************************************************************************)
Settling(f) ==
  \/ files[f] = Uninterrupted[f]
  \/ f \in todo
  \/ pc = "deno" /\ f = deno
  \/ \E p \in todo : Scripted(p) /\ f = DenoBeside(p)

RepairInv ==
  /\ \A f \in DOMAIN start : files[f] \in {start[f], Uninterrupted[f]}
  /\ pc \in Working => selected = Asked /\ (workspace <=> WorkspaceAsked)
  /\ pc = "root" => todo = Asked
  /\ pc \in Working \ {"root"} =>
       /\ Root \in DOMAIN start => files[Root] = Uninterrupted[Root]
       /\ \A f \in DOMAIN start : Settling(f)

-----------------------------------------------------------------------------

LEMMA StartFacts ==
  ASSUME FilesKept
  PROVE  /\ IsRepository(start) /\ DOMAIN files = DOMAIN start
         /\ Version \notin {NoVersion, Inherit} /\ NoVersion # Inherit
         /\ Packages(files) = Packages(start) /\ Packages(start) \subseteq DOMAIN start
BY RepositoriesAssumption, VersionsAssumption DEF FilesKept, FileKept, Packages, Version

LEMMA FileParts ==
  ASSUME NEW r, IsFile(r)
  PROVE  /\ r = [kind |-> r.kind, name |-> r.name, package |-> r.package, version |-> r.version,
                 workspace |-> r.workspace, requires |-> r.requires, deno |-> r.deno]
         /\ r.requires = [t \in DOMAIN r.requires |-> r.requires[t]]
<1>. DEFINE q == [t \in DOMAIN r.requires |-> r.requires[t]]
<1>1. r = [kind |-> r.kind, name |-> r.name, package |-> r.package, version |-> r.version,
           workspace |-> r.workspace, requires |-> q, deno |-> r.deno]
  BY DEF IsFile
<1>2. q = [t \in DOMAIN q |-> q[t]]
  OBVIOUS
<1>. HIDE DEF q
<1>3. r.requires = q
  BY <1>1
<1>. QED
  BY <1>1, <1>2, <1>3

LEMMA ThreeFields ==
  ASSUME NEW k, NEW n, NEW p, NEW v0, NEW w0, NEW q0, NEW d, NEW v, NEW w, NEW q,
         NEW r, NEW r1, NEW r2, NEW r3,
         r = [kind |-> k, name |-> n, package |-> p, version |-> v0, workspace |-> w0,
              requires |-> q0, deno |-> d],
         r1 = [r EXCEPT !.version = v],
         r2 = [r1 EXCEPT !.workspace = w],
         r3 = [r2 EXCEPT !.requires = q]
  PROVE  r3 = [kind |-> k, name |-> n, package |-> p, version |-> v, workspace |-> w,
               requires |-> q, deno |-> d]
<1>1. r1 = [kind |-> k, name |-> n, package |-> p, version |-> v, workspace |-> w0,
            requires |-> q0, deno |-> d]
  OBVIOUS
<1>2. r2 = [kind |-> k, name |-> n, package |-> p, version |-> v, workspace |-> w,
            requires |-> q0, deno |-> d]
  BY <1>1
<1>. QED
  BY <1>2

LEMMA FileMade ==
  ASSUME NEW k, NEW n, NEW p, NEW v, NEW w, NEW q, NEW d, q = [t \in DOMAIN q |-> q[t]],
         NEW r, r = [kind |-> k, name |-> n, package |-> p, version |-> v, workspace |-> w,
                     requires |-> q, deno |-> d]
  PROVE  /\ IsFile(r)
         /\ r.kind = k /\ r.name = n /\ r.package = p /\ r.version = v /\ r.workspace = w
         /\ r.requires = q /\ r.deno = d
<1>1. /\ r.kind = k /\ r.name = n /\ r.package = p /\ r.version = v /\ r.workspace = w
      /\ r.requires = q /\ r.deno = d
  OBVIOUS
<1>2. r = [kind |-> r.kind, name |-> r.name, package |-> r.package, version |-> r.version,
           workspace |-> r.workspace, requires |-> r.requires, deno |-> r.deno]
  BY <1>1
<1>3. r.requires = [t \in DOMAIN r.requires |-> r.requires[t]]
  BY <1>1
<1>. QED
  BY <1>1, <1>2, <1>3, Zenon DEF IsFile

(***************************************************************************)
(* How a file relates to the one that was written over it.                 *)
(***************************************************************************)
Rewrites(new, old, v, w, q) ==
  /\ IsFile(new)
  /\ new.kind = old.kind
  /\ new.name = old.name
  /\ new.package = old.package
  /\ new.deno = old.deno
  /\ new.version = v
  /\ new.workspace = w
  /\ new.requires = q

LEMMA FileChanged ==
  ASSUME NEW r, IsFile(r), NEW v, NEW w, NEW q, q = [t \in DOMAIN q |-> q[t]],
         NEW s, s = [r EXCEPT !.version = v, !.workspace = w, !.requires = q]
  PROVE  Rewrites(s, r, v, w, q)
<1>. DEFINE r1 == [r EXCEPT !.version = v]
            r2 == [r1 EXCEPT !.workspace = w]
            r3 == [r2 EXCEPT !.requires = q]
<1>1. r1 = [r EXCEPT !.version = v] /\ r2 = [r1 EXCEPT !.workspace = w]
  OBVIOUS
<1>2. r3 = [r2 EXCEPT !.requires = q]
  OBVIOUS
<1>. HIDE DEF r1, r2, r3
<1>3. r3 = [r EXCEPT !.version = v, !.workspace = w, !.requires = q]
  BY <1>1, <1>2, Zenon
<1>4. r = [kind |-> r.kind, name |-> r.name, package |-> r.package, version |-> r.version,
           workspace |-> r.workspace, requires |-> r.requires, deno |-> r.deno]
  BY FileParts
<1>5. r3 = [kind |-> r.kind, name |-> r.name, package |-> r.package, version |-> v,
            workspace |-> w, requires |-> q, deno |-> r.deno]
  BY <1>1, <1>2, <1>4, ThreeFields, Zenon
<1>6. Rewrites(r3, r, v, w, q)
  BY <1>5, FileMade DEF Rewrites
<1>. QED
  BY <1>3, <1>6

LEMMA VersionChanged ==
  ASSUME NEW r, IsFile(r), NEW v, NEW q, q = [t \in DOMAIN q |-> q[t]],
         NEW s, s = [r EXCEPT !.version = v, !.requires = q]
  PROVE  Rewrites(s, r, v, r.workspace, q)
<1>. DEFINE r1 == [r EXCEPT !.version = v]
            r2 == [r1 EXCEPT !.requires = q]
<1>1. r1 = [r EXCEPT !.version = v] /\ r2 = [r1 EXCEPT !.requires = q]
  OBVIOUS
<1>. HIDE DEF r1, r2
<1>2. r2 = [r EXCEPT !.version = v, !.requires = q]
  BY <1>1, Zenon
<1>3. r = [kind |-> r.kind, name |-> r.name, package |-> r.package, version |-> r.version,
           workspace |-> r.workspace, requires |-> r.requires, deno |-> r.deno]
  BY FileParts
<1>4. r1 = [kind |-> r.kind, name |-> r.name, package |-> r.package, version |-> v,
            workspace |-> r.workspace, requires |-> r.requires, deno |-> r.deno]
  BY <1>1, <1>3
<1>5. r2 = [kind |-> r.kind, name |-> r.name, package |-> r.package, version |-> v,
            workspace |-> r.workspace, requires |-> q, deno |-> r.deno]
  BY <1>1, <1>4
<1>6. Rewrites(r2, r, v, r.workspace, q)
  <2>. DEFINE k == r.kind
              n == r.name
              p == r.package
              w == r.workspace
              d == r.deno
  <2>1. r2 = [kind |-> k, name |-> n, package |-> p, version |-> v, workspace |-> w,
              requires |-> q, deno |-> d]
    BY <1>5
  <2>. HIDE DEF k, n, p, w, d
  <2>2. /\ IsFile(r2)
        /\ r2.kind = k /\ r2.name = n /\ r2.package = p /\ r2.version = v /\ r2.workspace = w
        /\ r2.requires = q /\ r2.deno = d
    BY <2>1, FileMade
  <2>. QED
    BY <2>2 DEF Rewrites, k, n, p, w, d
<1>. QED
  BY <1>2, <1>6

LEMMA SameFile ==
  ASSUME NEW r, IsFile(r), NEW s, IsFile(s),
         r.kind = s.kind, r.name = s.name, r.package = s.package, r.version = s.version,
         r.workspace = s.workspace, r.requires = s.requires, r.deno = s.deno
  PROVE  r = s
<1>. DEFINE k == r.kind
            n == r.name
            p == r.package
            v == r.version
            w == r.workspace
            q == r.requires
            d == r.deno
<1>1. r = [kind |-> k, name |-> n, package |-> p, version |-> v, workspace |-> w,
           requires |-> q, deno |-> d]
  BY FileParts
<1>2. s = [kind |-> k, name |-> n, package |-> p, version |-> v, workspace |-> w,
           requires |-> q, deno |-> d]
  BY FileParts
<1>. HIDE DEF k, n, p, v, w, q, d
<1>. QED
  BY <1>1, <1>2, Zenon

LEMMA RequiredFacts ==
  ASSUME NEW f, NEW targets
  PROVE  /\ DOMAIN Required(f, targets) = DOMAIN files[f].requires
         /\ Required(f, targets)
              = [t \in DOMAIN Required(f, targets) |-> Required(f, targets)[t]]
BY DEF Required

(***************************************************************************)
(* What the four functions make of a file.                                 *)
(***************************************************************************)
CargoVersion(f, package) ==
  IF package /\ files[f].version \notin {NoVersion, Inherit} THEN Version ELSE files[f].version

CargoWorkspace(f, inherited) ==
  IF inherited /\ files[f].workspace # NoVersion THEN Version ELSE files[f].workspace

DenoVersion(f) == IF files[f].version = NoVersion THEN NoVersion ELSE Version

LEMMA CargoStampedFields ==
  ASSUME NEW f, IsFile(files[f]), NEW package, NEW inherited
  PROVE  Rewrites(CargoStamped(f, package, inherited), files[f], CargoVersion(f, package),
                  CargoWorkspace(f, inherited), Required(f, Targets("cargo")))
<1>. DEFINE v == CargoVersion(f, package)
            w == CargoWorkspace(f, inherited)
            q == Required(f, Targets("cargo"))
<1>1. CargoStamped(f, package, inherited)
        = [files[f] EXCEPT !.version = v, !.workspace = w, !.requires = q]
  BY DEF CargoStamped, Version, CargoVersion, CargoWorkspace
<1>2. q = [t \in DOMAIN q |-> q[t]]
  BY RequiredFacts
<1>. HIDE DEF v, w, q
<1>3. Rewrites(CargoStamped(f, package, inherited), files[f], v, w, q)
  BY <1>1, <1>2, FileChanged, Zenon
<1>. QED
  BY <1>3 DEF v, w, q

LEMMA PackageJsonStampedFields ==
  ASSUME NEW f, IsFile(files[f]), files[f].version # NoVersion
  PROVE  Rewrites(PackageJsonStamped(f), files[f], Version, files[f].workspace,
                  Required(f, Targets("js")))
<1>. DEFINE q == Required(f, Targets("js"))
<1>1. PackageJsonStamped(f) = [files[f] EXCEPT !.version = Version, !.requires = q]
  BY DEF PackageJsonStamped, Version
<1>2. q = [t \in DOMAIN q |-> q[t]]
  BY RequiredFacts
<1>. HIDE DEF q
<1>3. Rewrites(PackageJsonStamped(f), files[f], Version, files[f].workspace, q)
  BY <1>1, <1>2, VersionChanged, Zenon
<1>. QED
  BY <1>3 DEF q

LEMMA DenoStampedFields ==
  ASSUME NEW f, IsFile(files[f])
  PROVE  Rewrites(DenoStamped(f), files[f], DenoVersion(f), files[f].workspace,
                  Required(f, Targets("js")))
<1>. DEFINE v == DenoVersion(f)
            q == Required(f, Targets("js"))
<1>1. DenoStamped(f) = [files[f] EXCEPT !.version = v, !.requires = q]
  BY DEF DenoStamped, Version, DenoVersion
<1>2. q = [t \in DOMAIN q |-> q[t]]
  BY RequiredFacts
<1>. HIDE DEF v, q
<1>3. Rewrites(DenoStamped(f), files[f], v, files[f].workspace, q)
  BY <1>1, <1>2, VersionChanged, Zenon
<1>. QED
  BY <1>3 DEF v, q

StampedVersion(f) ==
  IF start[f].version \in {NoVersion, Inherit} \/ (f = Root /\ f \notin Asked)
  THEN start[f].version ELSE Version

StampedWorkspace(f) ==
  IF WorkspaceAsked /\ f = Root /\ start[f].workspace # NoVersion
  THEN Version ELSE start[f].workspace

StampedRequires(f) ==
  [t \in DOMAIN start[f].requires |-> IF Follows(f, t) THEN Version ELSE start[f].requires[t]]

LEMMA StampedFields ==
  ASSUME NEW f, IsFile(start[f])
  PROVE  Rewrites(Stamped(f), start[f], StampedVersion(f), StampedWorkspace(f),
                  StampedRequires(f))
<1>. DEFINE v == StampedVersion(f)
            w == StampedWorkspace(f)
            q == StampedRequires(f)
<1>1. Stamped(f) = [start[f] EXCEPT !.version = v, !.workspace = w, !.requires = q]
  BY DEF Stamped, Version, StampedVersion, StampedWorkspace, StampedRequires
<1>2. q = [t \in DOMAIN q |-> q[t]]
  BY DEF StampedRequires
<1>. HIDE DEF v, w, q
<1>3. Rewrites(Stamped(f), start[f], v, w, q)
  BY <1>1, <1>2, FileChanged, Zenon
<1>. QED
  BY <1>3 DEF v, w, q

-----------------------------------------------------------------------------

LEMMA RewrittenKept ==
  ASSUME FilesKept, NEW g \in DOMAIN start, NEW r, NEW v, NEW w, NEW q,
         Rewrites(r, files[g], v, w, q), DOMAIN q = DOMAIN files[g].requires,
         v = files[g].version \/ (v = Version /\ files[g].version \notin {NoVersion, Inherit}),
         w = files[g].workspace
           \/ (w = Version /\ g = Root /\ files[g].workspace # NoVersion),
         files' = [files EXCEPT ![g] = r], start' = start, options' = options
  PROVE  FilesKept'
<1>1. files' = [f \in DOMAIN start |-> IF f = g THEN r ELSE files[f]]
  BY DEF FilesKept
<1>2. ASSUME NEW f \in DOMAIN start
      PROVE  FileKept(f)'
  <2>1. CASE f = g
    <3>1. files'[f] = r /\ FileKept(f)
      BY <1>1, <2>1 DEF FilesKept
    <3>2. /\ IsFile(r)
          /\ r.kind = start[f].kind /\ r.name = start[f].name /\ r.package = start[f].package
          /\ r.deno = start[f].deno /\ DOMAIN r.requires = DOMAIN start[f].requires
      BY <3>1, <2>1 DEF FileKept, Rewrites
    <3>3. r.version = start[f].version
            \/ (r.version = Version /\ start[f].version \notin {NoVersion, Inherit})
      BY <3>1, <2>1 DEF FileKept, Rewrites
    <3>4. r.workspace = start[f].workspace
            \/ (r.workspace = Version /\ f = Root /\ start[f].workspace # NoVersion)
      BY <3>1, <2>1 DEF FileKept, Rewrites
    <3>. QED
      BY <3>1, <3>2, <3>3, <3>4 DEF FileKept, Version
  <2>2. CASE f # g
    BY <1>1, <2>2 DEF FilesKept, FileKept, Version
  <2>. QED
    BY <2>1, <2>2
<1>3. files' = [f \in DOMAIN start' |-> files'[f]]
  BY <1>1
<1>. QED
  BY <1>2, <1>3 DEF FilesKept

LEMMA CargoKept ==
  ASSUME FilesKept, NEW g \in DOMAIN start, NEW package, NEW inherited,
         inherited => g = Root,
         files' = [files EXCEPT ![g] = CargoStamped(g, package, inherited)],
         start' = start, options' = options
  PROVE  FilesKept'
<1>. DEFINE v == CargoVersion(g, package)
            w == CargoWorkspace(g, inherited)
            q == Required(g, Targets("cargo"))
            r == CargoStamped(g, package, inherited)
<1>1. IsFile(files[g])
  BY DEF FilesKept, FileKept
<1>2. Rewrites(r, files[g], v, w, q)
  BY <1>1, CargoStampedFields
<1>3. DOMAIN q = DOMAIN files[g].requires
  BY RequiredFacts
<1>4. v = files[g].version \/ (v = Version /\ files[g].version \notin {NoVersion, Inherit})
  BY DEF CargoVersion
<1>5. w = files[g].workspace \/ (w = Version /\ g = Root /\ files[g].workspace # NoVersion)
  BY DEF CargoWorkspace
<1>6. files' = [files EXCEPT ![g] = r]
  OBVIOUS
<1>. HIDE DEF v, w, q, r
<1>. QED
  BY <1>2, <1>3, <1>4, <1>5, <1>6, RewrittenKept, Zenon

LEMMA PackageJsonKept ==
  ASSUME FilesKept, NEW g \in DOMAIN start, start[g].kind # "cargo",
         files' = [files EXCEPT ![g] = PackageJsonStamped(g)],
         start' = start, options' = options
  PROVE  FilesKept'
<1>. DEFINE v == Version
            w == files[g].workspace
            q == Required(g, Targets("js"))
            r == PackageJsonStamped(g)
<1>1. IsFile(files[g]) /\ files[g].version # Inherit
  BY StartFacts DEF FilesKept, FileKept, IsRepository
<1>2. CASE files[g].version = NoVersion
  <2>1. files' = files
    BY <1>2 DEF FilesKept, PackageJsonStamped
  <2>. QED
    BY <2>1 DEF FilesKept, FileKept, Version
<1>3. CASE files[g].version # NoVersion
  <2>1. Rewrites(r, files[g], v, w, q)
    BY <1>1, <1>3, PackageJsonStampedFields
  <2>2. DOMAIN q = DOMAIN files[g].requires
    BY RequiredFacts
  <2>3. v = files[g].version \/ (v = Version /\ files[g].version \notin {NoVersion, Inherit})
    BY <1>1, <1>3
  <2>4. w = files[g].workspace \/ (w = Version /\ g = Root /\ files[g].workspace # NoVersion)
    OBVIOUS
  <2>5. files' = [files EXCEPT ![g] = r]
    OBVIOUS
  <2>. HIDE DEF v, w, q, r
  <2>. QED
    BY <2>1, <2>2, <2>3, <2>4, <2>5, RewrittenKept, Zenon
<1>. QED
  BY <1>2, <1>3

LEMMA DenoKept ==
  ASSUME FilesKept, NEW g \in DOMAIN start, start[g].kind # "cargo",
         files' = [files EXCEPT ![g] = DenoStamped(g)], start' = start, options' = options
  PROVE  FilesKept'
<1>. DEFINE v == DenoVersion(g)
            w == files[g].workspace
            q == Required(g, Targets("js"))
            r == DenoStamped(g)
<1>1. IsFile(files[g]) /\ files[g].version # Inherit
  BY StartFacts DEF FilesKept, FileKept, IsRepository
<1>2. Rewrites(r, files[g], v, w, q)
  BY <1>1, DenoStampedFields
<1>3. DOMAIN q = DOMAIN files[g].requires
  BY RequiredFacts
<1>4. v = files[g].version \/ (v = Version /\ files[g].version \notin {NoVersion, Inherit})
  BY <1>1 DEF DenoVersion
<1>5. w = files[g].workspace \/ (w = Version /\ g = Root /\ files[g].workspace # NoVersion)
  OBVIOUS
<1>6. files' = [files EXCEPT ![g] = r]
  OBVIOUS
<1>. HIDE DEF v, w, q, r
<1>. QED
  BY <1>2, <1>3, <1>4, <1>5, <1>6, RewrittenKept, Zenon

LEMMA DenoFileFacts ==
  ASSUME FilesKept, DenoInv, pc = "deno"
  PROVE  deno \in DOMAIN start /\ start[deno].kind = "deno" /\ deno \notin Packages(start)
BY StartFacts DEF DenoInv, IsRepository, Scripted, Packages

LEMMA KeptInit ==
  ASSUME Init
  PROVE  KeptInv
<1>1. start \in Repositories /\ options \in AllOptions /\ files = start
  BY DEF Init
<1>2. FilesKept
  BY <1>1, RepositoriesAssumption DEF FilesKept, FileKept, IsRepository
<1>3. DenoInv /\ TodoInv
  BY DEF Init, DenoInv, TodoInv, Working
<1>. QED
  BY <1>2, <1>3 DEF KeptInv

LEMMA KeptStep ==
  ASSUME KeptInv, [Next]_vars
  PROVE  KeptInv'
<1>. USE DEF KeptInv
<1>f. /\ DOMAIN files = DOMAIN start /\ Packages(files) = Packages(start)
      /\ Packages(start) \subseteq DOMAIN start
  BY StartFacts
<1>k. \A f \in DOMAIN start : files[f].kind = start[f].kind /\ files[f].deno = start[f].deno
                             /\ (files[f].version = NoVersion <=> start[f].version = NoVersion)
  BY StartFacts DEF FilesKept, FileKept
<1>1. CASE Select
  <2>1. FilesKept'
    BY <1>1 DEF Select, inputVars, FilesKept, FileKept, Version
  <2>2. DenoInv' /\ TodoInv'
    BY <1>1, <1>f DEF Select, inputVars, DenoInv, TodoInv, Selected, Working, Packages
  <2>. QED
    BY <2>1, <2>2
<1>2. CASE StampRoot
  <2>. USE <1>2 DEF StampRoot, inputVars
  <2>1. FilesKept'
    <3>1. CASE Root \in DOMAIN files /\ (CargoOf(selected) # {} \/ workspace)
      <4>1. /\ Root \in DOMAIN start /\ start' = start /\ options' = options
            /\ files' = [files EXCEPT ![Root] = CargoStamped(Root, Root \in selected, workspace)]
        BY <3>1, <1>f
      <4>. QED
        BY <4>1, CargoKept
    <3>2. CASE ~ (Root \in DOMAIN files /\ (CargoOf(selected) # {} \/ workspace))
      BY <3>2 DEF FilesKept, FileKept, Version
    <3>. QED
      BY <3>1, <3>2
  <2>2. DenoInv' /\ TodoInv'
    <3>1. pc = "root" /\ pc' = "packages" /\ todo' \subseteq todo
      BY DEF StampRoot
    <3>. QED
      BY <3>1 DEF DenoInv, TodoInv, Working, Packages
  <2>. QED
    BY <2>1, <2>2
<1>3. CASE StampCargo
  <2>1. PICK f \in CargoOf(todo) :
          /\ files' = [files EXCEPT ![f] = CargoStamped(f, TRUE, FALSE)]
          /\ todo' = todo \ {f}
    BY <1>3 DEF StampCargo
  <2>2. /\ f \in DOMAIN start /\ start' = start /\ options' = options /\ pc = "packages"
        /\ pc' = pc /\ selected' = selected
    BY <1>3, <1>f DEF StampCargo, inputVars, CargoOf, TodoInv, Working
  <2>3. FilesKept'
    BY <2>1, <2>2, CargoKept
  <2>4. DenoInv' /\ TodoInv'
    BY <2>1, <2>2 DEF DenoInv, TodoInv, Working, Packages
  <2>. QED
    BY <2>3, <2>4
<1>4. CASE StampPackageJson
  <2>1. PICK f \in todo :
          /\ files[f].kind = "js"
          /\ files' = [files EXCEPT ![f] = PackageJsonStamped(f)]
          /\ todo' = todo \ {f}
          /\ IF DenoFollows(f) THEN pc' = "deno" /\ deno' = DenoBeside(f)
             ELSE UNCHANGED <<pc, deno>>
    BY <1>4 DEF StampPackageJson
  <2>2. /\ f \in DOMAIN start /\ start' = start /\ options' = options /\ pc = "packages"
        /\ selected' = selected /\ f \in selected
    BY <1>4, <1>f DEF StampPackageJson, inputVars, TodoInv, Working
  <2>3. FilesKept'
    BY <2>1, <2>2, <1>k, PackageJsonKept
  <2>4. DenoInv'
    BY <2>1, <2>2, <1>k DEF DenoInv, DenoFollows, Scripted
  <2>5. TodoInv'
    BY <2>1, <2>2 DEF TodoInv, Working, Packages
  <2>. QED
    BY <2>3, <2>4, <2>5
<1>5. CASE StampDeno
  <2>1. /\ pc = "deno" /\ pc' = "packages" /\ start' = start /\ options' = options
        /\ selected' = selected /\ todo' = todo
        /\ files' = [files EXCEPT ![deno] = DenoStamped(deno)]
    BY <1>5 DEF StampDeno, inputVars
  <2>2. deno \in DOMAIN start /\ start[deno].kind # "cargo"
    BY <2>1, DenoFileFacts
  <2>3. FilesKept'
    BY <2>1, <2>2, DenoKept
  <2>4. DenoInv' /\ TodoInv'
    BY <2>1 DEF DenoInv, TodoInv, Working, Packages
  <2>. QED
    BY <2>3, <2>4
<1>6. CASE Finish \/ Fail \/ Rerun
  <2>1. FilesKept'
    BY <1>6 DEF Finish, Fail, Rerun, inputVars, FilesKept, FileKept, Version
  <2>2. DenoInv' /\ TodoInv'
    BY <1>6 DEF Finish, Fail, Rerun, inputVars, DenoInv, TodoInv, Working, Packages
  <2>. QED
    BY <2>1, <2>2
<1>7. CASE UNCHANGED vars
  <2>1. FilesKept'
    BY <1>7 DEF vars, FilesKept, FileKept, Version
  <2>2. DenoInv' /\ TodoInv'
    BY <1>7 DEF vars, DenoInv, TodoInv, Working, Packages, Scripted
  <2>. QED
    BY <2>1, <2>2
<1>. QED
  BY <1>1, <1>2, <1>3, <1>4, <1>5, <1>6, <1>7 DEF Next

-----------------------------------------------------------------------------

LEMMA KeptFacts ==
  ASSUME FilesKept
  PROVE  /\ \A f \in DOMAIN start :
              /\ files[f].kind = start[f].kind /\ files[f].name = start[f].name
              /\ files[f].package = start[f].package /\ files[f].deno = start[f].deno
              /\ files[f].version = Inherit <=> start[f].version = Inherit
              /\ files[f].version = NoVersion <=> start[f].version = NoVersion
              /\ files[f].version \in {start[f].version, Version}
         /\ WorkspaceVersion(files) \in {WorkspaceVersion(start), Version}
         /\ WorkspaceVersion(start) = NoVersion => WorkspaceVersion(files) = NoVersion
<1>. USE StartFacts
<1>1. \A f \in DOMAIN start :
        /\ files[f].kind = start[f].kind /\ files[f].name = start[f].name
        /\ files[f].package = start[f].package /\ files[f].deno = start[f].deno
        /\ files[f].version = Inherit <=> start[f].version = Inherit
        /\ files[f].version = NoVersion <=> start[f].version = NoVersion
        /\ files[f].version \in {start[f].version, Version}
  BY DEF FilesKept, FileKept
<1>2. /\ WorkspaceVersion(files) \in {WorkspaceVersion(start), Version}
      /\ WorkspaceVersion(start) = NoVersion => WorkspaceVersion(files) = NoVersion
  BY DEF FilesKept, FileKept, WorkspaceVersion
<1>. QED
  BY <1>1, <1>2

LEMMA PackageFacts ==
  ASSUME FilesKept, NEW f \in Packages(start)
  PROVE  /\ f \in DOMAIN start /\ start[f].kind \in {"cargo", "js", "uv"}
         /\ PackageVersion(files, f) \in {PackageVersion(start, f), Version}
         /\ PackageVersion(start, f) = NoVersion => PackageVersion(files, f) = NoVersion
         /\ f \in Heirs => PackageVersion(start, f) = WorkspaceVersion(start)
                         /\ PackageVersion(files, f) = WorkspaceVersion(files)
                         /\ start[f].kind = "cargo"
         /\ f \notin Heirs /\ start[f].kind # "uv" =>
              PackageVersion(start, f) = start[f].version
              /\ PackageVersion(files, f) = files[f].version
         /\ start[f].kind = "uv" => PackageVersion(files, f) = PackageVersion(start, f)
<1>1. /\ f \in DOMAIN start /\ start[f].kind \in {"cargo", "js", "uv"}
      /\ f \in Heirs => start[f].kind = "cargo"
  BY StartFacts DEF IsRepository, Packages, Heirs
<1>. QED
  BY <1>1, KeptFacts DEF PackageVersion, Heirs

LEMMA StartKept ==
  ASSUME start' = start, options' = options
  PROVE  /\ Version' = Version /\ Heirs' = Heirs /\ Asked' = Asked
         /\ Packages(start)' = Packages(start) /\ (InheritTogether' <=> InheritTogether)
         /\ (NewVersionCounts' <=> NewVersionCounts)
<1>1. Asked' = Asked
  BY DEF Asked, Packages, PackageVersion, WorkspaceVersion
<1>2. Version' = Version /\ Heirs' = Heirs /\ Packages(start)' = Packages(start)
  BY DEF Version, Heirs, Packages
<1>. QED
  BY <1>1, <1>2 DEF InheritTogether, NewVersionCounts, Packages

LEMMA AskedFacts ==
  ASSUME FilesKept
  PROVE  /\ Asked \subseteq Packages(start) /\ Heirs \subseteq Packages(start)
         /\ InheritTogether => Heirs \subseteq Asked \/ Heirs \cap Asked = {}
BY DEF Asked, InheritTogether, Heirs

(***************************************************************************)
(* A file that keeps the inherited version changes no other's version.     *)
(***************************************************************************)
LEMMA OthersKeep ==
  ASSUME KeptInv, FilesKept', start' = start, NEW g \in DOMAIN start,
         files'[g].workspace = files[g].workspace,
         \A f \in DOMAIN start \ {g} : files'[f] = files[f]
  PROVE  \A f \in Packages(start) \ {g} : PackageVersion(files', f) = PackageVersion(files, f)
<1>1. DOMAIN files = DOMAIN start /\ DOMAIN files' = DOMAIN start
  BY StartFacts DEF KeptInv, FilesKept
<1>2. WorkspaceVersion(files') = WorkspaceVersion(files)
  BY <1>1 DEF WorkspaceVersion
<1>. QED
  BY <1>1, <1>2 DEF PackageVersion, Packages

LEMMA AskedSelect ==
  ASSUME KeptInv, InheritTogether, AskedInv, Select
  PROVE  AskedInv'
<1>. USE DEF KeptInv
<1>1. /\ files' = files /\ start' = start /\ options' = options /\ pc = "select"
  BY DEF Select, inputVars
<1>2. \A f \in Packages(start) \ Asked : PackageVersion(files, f) = PackageVersion(start, f)
  BY DEF AskedInv
<1>3. CASE ~ SelectorsMatch
  <2>1. pc' = "refused"
    BY <1>3 DEF Select
  <2>. QED
    BY <1>1, <1>2, <2>1, StartKept DEF AskedInv, Working, PackageVersion, WorkspaceVersion
<1>4. CASE SelectorsMatch
  <2>1. /\ selected' = Selected /\ todo' = selected' /\ pc' = "root"
        /\ workspace' = StampsWorkspace(selected')
    BY <1>4 DEF Select
  <2>2. ASSUME NEW f \in Packages(start), start[f].kind \in {"cargo", "js"},
               start[f].name \in options.packages \/ options.packages = {},
               start[f].name \notin options.exclude
        PROVE  f \in Selected <=> PackageVersion(files, f) \notin options.excludeVersions
    BY <2>2, StartFacts, KeptFacts, PackageFacts DEF Selected, CurrentVersion
  <2>3. ASSUME NEW f \in Selected
        PROVE  f \in Asked
    <3>1. /\ f \in Packages(start) /\ start[f].kind \in {"cargo", "js"}
          /\ start[f].name \in options.packages \/ options.packages = {}
          /\ start[f].name \notin options.exclude
          /\ PackageVersion(files, f) \notin options.excludeVersions
      BY StartFacts, KeptFacts, PackageFacts DEF Selected, CurrentVersion
    <3>. QED
      BY <1>2, <3>1 DEF Asked
  <2>4. ASSUME NEW f \in Asked, f \notin Selected
        PROVE  PackageVersion(files, f) = Version
    <3>1. /\ f \in Packages(start) /\ start[f].kind \in {"cargo", "js"}
          /\ start[f].name \in options.packages \/ options.packages = {}
          /\ start[f].name \notin options.exclude
          /\ PackageVersion(start, f) \notin options.excludeVersions
      BY DEF Asked
    <3>2. PackageVersion(files, f) \in options.excludeVersions
      BY <3>1, <2>2, <2>4
    <3>. QED
      BY <3>1, <3>2, PackageFacts
  <2>5. ASSUME NEW f \in Heirs, f \in Selected
        PROVE  StampsWorkspace(Selected)
    BY <2>5, AskedFacts, PackageFacts, KeptFacts DEF StampsWorkspace, CargoOf, Heirs
  <2>6. ASSUME StampsWorkspace(Selected)
        PROVE  Heirs \subseteq Asked
    <3>1. CASE \E f \in CargoOf(Selected) : files[f].version = Inherit
      <4>1. PICK f \in CargoOf(Selected) : files[f].version = Inherit
        BY <3>1
      <4>2. f \in Asked /\ f \in Heirs
        BY <4>1, <2>3, AskedFacts, PackageFacts, KeptFacts DEF CargoOf, Heirs
      <4>. QED
        BY <4>2, AskedFacts
    <3>2. CASE CargoOf(Packages(files)) = {}
      BY <3>2, StartFacts, AskedFacts, PackageFacts, KeptFacts DEF CargoOf
    <3>. QED
      BY <2>6, <3>1, <3>2 DEF StampsWorkspace
  <2>7. \A f \in Packages(start) \ Asked :
          PackageVersion(files', f) = PackageVersion(start', f)
    BY <1>1, <1>2
  <2>8. /\ selected' \subseteq Asked
        /\ workspace' => Heirs \subseteq Asked
        /\ Heirs \cap selected' # {} => workspace'
    BY <2>1, <2>3, <2>5, <2>6
  <2>9. \A f \in Asked : f \in selected' \/ PackageVersion(files', f) = Version
    BY <1>1, <2>1, <2>4
  <2>. QED
    BY <1>1, <2>1, <2>7, <2>8, <2>9, StartKept DEF AskedInv, Working
<1>. QED
  BY <1>3, <1>4

LEMMA AskedRoot ==
  ASSUME KeptInv, KeptInv', InheritTogether, AskedInv, StampRoot
  PROVE  AskedInv'
<1>. USE DEF KeptInv
<1>1. /\ start' = start /\ options' = options /\ pc = "root" /\ pc' = "packages"
      /\ selected' = selected /\ workspace' = workspace
  BY DEF StampRoot, inputVars
<1>2. /\ \A f \in Packages(start) \ Asked : PackageVersion(files, f) = PackageVersion(start, f)
      /\ selected \subseteq Asked
      /\ workspace => Heirs \subseteq Asked
      /\ Heirs \cap selected # {} => workspace
      /\ todo = selected
      /\ \A f \in Asked : f \in selected \/ PackageVersion(files, f) = Version
  BY <1>1 DEF AskedInv, Working
<1>3. DOMAIN files = DOMAIN start /\ DOMAIN files' = DOMAIN start
  BY <1>1 DEF FilesKept
<1>4. ASSUME ~ (Root \in DOMAIN files /\ (CargoOf(selected) # {} \/ workspace))
      PROVE  AskedInv'
  <2>1. files' = files /\ todo' = todo
    BY <1>4 DEF StampRoot
  <2>2. ASSUME NEW f \in Asked
        PROVE  Asking(f)'
    <3>1. CASE f \in Heirs /\ f \in selected
      <4>1. CargoOf(selected) # {}
        BY <3>1, PackageFacts, KeptFacts, AskedFacts DEF CargoOf
      <4>2. WorkspaceVersion(start) = NoVersion
        BY <4>1, <1>3, <1>4 DEF WorkspaceVersion
      <4>3. PackageVersion(start, f) = NoVersion
        BY <4>2, <3>1, PackageFacts, AskedFacts
      <4>. QED
        BY <4>3, <1>1 DEF Asking
    <3>2. CASE ~ (f \in Heirs /\ f \in selected)
      BY <3>2, <2>1, <1>1, <1>2, StartKept DEF Asking
    <3>. QED
      BY <3>1, <3>2
  <2>3. \A f \in Packages(start) \ Asked :
          PackageVersion(files', f) = PackageVersion(start', f)
    BY <2>1, <1>1, <1>2
  <2>. QED
    BY <1>1, <1>2, <2>2, <2>3, StartKept DEF AskedInv, Working
<1>5. ASSUME Root \in DOMAIN files, CargoOf(selected) # {} \/ workspace
      PROVE  AskedInv'
  <2>1. /\ files' = [files EXCEPT ![Root] = CargoStamped(Root, Root \in selected, workspace)]
        /\ todo' = IF files' = files THEN todo ELSE todo \ {Root}
    BY <1>5 DEF StampRoot
  <2>2. Rewrites(files'[Root], files[Root], CargoVersion(Root, Root \in selected),
                 CargoWorkspace(Root, workspace), Required(Root, Targets("cargo")))
    BY <1>5, <1>3, <2>1, CargoStampedFields DEF FilesKept, FileKept
  <2>3. /\ files'[Root].version = CargoVersion(Root, Root \in selected)
        /\ files'[Root].workspace = CargoWorkspace(Root, workspace)
        /\ files'[Root].kind = files[Root].kind
        /\ \A f \in DOMAIN start \ {Root} : files'[f] = files[f]
    BY <2>1, <2>2, <1>3 DEF Rewrites, FilesKept
  <2>4. /\ WorkspaceVersion(files) = files[Root].workspace
        /\ WorkspaceVersion(files') = CargoWorkspace(Root, workspace)
    BY <1>3, <1>5, <2>3 DEF WorkspaceVersion
  <2>5. ASSUME NEW f \in Packages(start), f \notin Heirs, f # Root
        PROVE  PackageVersion(files', f) = PackageVersion(files, f)
    BY <2>3, <2>5, KeptFacts DEF PackageVersion, Heirs, Packages
  <2>6. ASSUME Root \in Packages(start), Root \notin Heirs
        PROVE  /\ start[Root].kind = "cargo"
               /\ PackageVersion(files, Root) = files[Root].version
               /\ PackageVersion(files', Root) = CargoVersion(Root, Root \in selected)
    <3>1. start[Root].kind = "cargo" /\ start[Root].version # Inherit /\ Root \in DOMAIN start
      BY <2>6, StartFacts DEF IsRepository, Heirs, Packages
    <3>2. files[Root].kind = "cargo" /\ files[Root].version # Inherit
      BY <3>1, KeptFacts
    <3>3. CargoVersion(Root, Root \in selected) # Inherit
      BY <3>2, StartFacts DEF CargoVersion
    <3>4. files'[Root].kind = "cargo" /\ files'[Root].version # Inherit
      BY <3>2, <3>3, <2>3
    <3>5. PackageVersion(files, Root) = files[Root].version
      BY <3>2 DEF PackageVersion
    <3>6. PackageVersion(files', Root) = files'[Root].version
      BY <3>4 DEF PackageVersion
    <3>. QED
      BY <3>1, <3>5, <3>6, <2>3
  <2>7. ASSUME NEW f \in Heirs
        PROVE  PackageVersion(files', f) = CargoWorkspace(Root, workspace)
    <3>1. f \in DOMAIN start /\ start[f].kind = "cargo" /\ start[f].version = Inherit
      BY StartFacts, AskedFacts DEF IsRepository, Heirs
    <3>2. files'[f].kind = "cargo" /\ files'[f].version = Inherit
      <4>1. CASE f = Root
        BY <4>1, <3>1, <2>3, KeptFacts DEF CargoVersion
      <4>2. CASE f # Root
        BY <4>2, <3>1, <2>3, KeptFacts
      <4>. QED
        BY <4>1, <4>2
    <3>. QED
      BY <3>2, <2>4 DEF PackageVersion
  <2>8. ASSUME NEW f \in Packages(start), f \notin Asked
        PROVE  PackageVersion(files', f) = PackageVersion(start, f)
    <3>1. CASE f \in Heirs
      <4>1. ~ workspace
        BY <3>1, <2>8, <1>2
      <4>. QED
        BY <3>1, <4>1, <2>4, <2>7, <2>8, <1>2, PackageFacts DEF CargoWorkspace
    <3>2. CASE f \notin Heirs /\ f = Root
      BY <3>2, <2>8, <2>6, <1>2 DEF CargoVersion
    <3>3. CASE f \notin Heirs /\ f # Root
      BY <3>3, <2>5, <2>8, <1>2
    <3>. QED
      BY <3>1, <3>2, <3>3
  <2>9. ASSUME NEW f \in Asked
        PROVE  Asking(f)'
    <3>1. f \in Packages(start)
      BY AskedFacts
    <3>2. CASE f \in Heirs
      <4>1. CASE f \in selected
        <5>1. workspace
          BY <4>1, <3>2, <1>2
        <5>2. PackageVersion(files', f) = Version \/ WorkspaceVersion(files) = NoVersion
          BY <5>1, <3>2, <2>4, <2>7 DEF CargoWorkspace
        <5>3. PackageVersion(files', f) = Version \/ PackageVersion(start, f) = NoVersion
          BY <5>2, <3>1, <3>2, PackageFacts, KeptFacts, StartFacts
        <5>. QED
          BY <5>3, <1>1, StartKept DEF Asking
      <4>2. CASE f \notin selected
        <5>1. WorkspaceVersion(files) = Version
          BY <4>2, <3>1, <3>2, <1>2, PackageFacts
        <5>2. PackageVersion(files', f) = Version
          BY <5>1, <3>2, <2>4, <2>7 DEF CargoWorkspace
        <5>. QED
          BY <5>2, <1>1, StartKept DEF Asking
      <4>. QED
        BY <4>1, <4>2
    <3>3. CASE f \notin Heirs /\ f = Root
      <4>1. CASE f \in selected
        <5>1. PackageVersion(files', f) = Version \/ files[f].version = NoVersion
          BY <4>1, <3>1, <3>3, <2>6, KeptFacts, PackageFacts DEF CargoVersion, Heirs
        <5>2. PackageVersion(files', f) = Version \/ PackageVersion(start, f) = NoVersion
          BY <5>1, <3>1, <3>3, <2>6, PackageFacts, KeptFacts
        <5>. QED
          BY <5>2, <1>1, StartKept DEF Asking
      <4>2. CASE f \notin selected
        <5>1. PackageVersion(files', f) = Version
          BY <4>2, <3>1, <3>3, <2>6, <1>2 DEF CargoVersion
        <5>. QED
          BY <5>1, <1>1, StartKept DEF Asking
      <4>. QED
        BY <4>1, <4>2
    <3>4. CASE f \notin Heirs /\ f # Root
      <4>1. PackageVersion(files', f) = PackageVersion(files, f) /\ (f \in selected => f \in todo')
        BY <3>1, <3>4, <2>5, <2>1, <1>2
      <4>. QED
        BY <4>1, <3>4, <1>1, <1>2, StartKept DEF Asking
    <3>. QED
      BY <3>2, <3>3, <3>4
  <2>10. \A f \in Packages(start) \ Asked :
           PackageVersion(files', f) = PackageVersion(start', f)
    BY <2>8, <1>1
  <2>. QED
    BY <1>1, <1>2, <2>9, <2>10, StartKept DEF AskedInv, Working
<1>. QED
  BY <1>4, <1>5

(***************************************************************************)
(* Once the root is done, a step that stamps one asked file is enough.     *)
(***************************************************************************)
LEMMA AskedStamped ==
  ASSUME KeptInv, KeptInv', InheritTogether, AskedInv, pc \in {"packages", "deno"},
         pc' \in {"packages", "deno"}, start' = start, options' = options,
         selected' = selected, workspace' = workspace,
         NEW g \in DOMAIN start,
         files'[g].workspace = files[g].workspace,
         \A f \in DOMAIN start \ {g} : files'[f] = files[f],
         todo \ {g} \subseteq todo',
         g \in Packages(start) => g \in Asked /\ Asking(g)'
  PROVE  AskedInv'
<1>1. /\ \A f \in Packages(start) \ Asked : PackageVersion(files, f) = PackageVersion(start, f)
      /\ selected \subseteq Asked
      /\ workspace => Heirs \subseteq Asked
      /\ Heirs \cap selected # {} => workspace
      /\ \A f \in Asked : Asking(f)
  BY DEF AskedInv, Working
<1>2. \A f \in Packages(start) \ {g} : PackageVersion(files', f) = PackageVersion(files, f)
  BY OthersKeep DEF KeptInv
<1>3. ASSUME NEW f \in Asked
      PROVE  Asking(f)'
  <2>1. CASE f = g
    BY <2>1, AskedFacts DEF KeptInv
  <2>2. CASE f # g
    BY <2>2, <1>1, <1>2, AskedFacts, StartKept DEF Asking, KeptInv
  <2>. QED
    BY <2>1, <2>2
<1>4. \A f \in Packages(start) \ Asked : PackageVersion(files', f) = PackageVersion(start', f)
  BY <1>1, <1>2
<1>. QED
  BY <1>1, <1>3, <1>4, StartKept DEF AskedInv, Working

LEMMA AskedStep ==
  ASSUME KeptInv, KeptInv', InheritTogether, AskedInv, [Next]_vars
  PROVE  AskedInv'
<1>. USE DEF KeptInv
<1>f. DOMAIN files = DOMAIN start /\ Packages(start) \subseteq DOMAIN start
  BY StartFacts
<1>1. CASE Select
  BY <1>1, AskedSelect
<1>2. CASE StampRoot
  BY <1>2, AskedRoot
<1>3. CASE StampCargo
  <2>1. PICK g \in CargoOf(todo) :
          /\ files' = [files EXCEPT ![g] = CargoStamped(g, TRUE, FALSE)]
          /\ todo' = todo \ {g}
    BY <1>3 DEF StampCargo
  <2>2. /\ g \in DOMAIN start /\ start' = start /\ options' = options /\ pc = "packages"
        /\ pc' = pc /\ selected' = selected /\ workspace' = workspace
        /\ g \in Asked /\ files[g].kind = "cargo"
    BY <1>3, <1>f DEF StampCargo, inputVars, CargoOf, TodoInv, Working, AskedInv
  <2>3. Rewrites(files'[g], files[g], CargoVersion(g, TRUE), CargoWorkspace(g, FALSE),
                 Required(g, Targets("cargo")))
    BY <1>f, <2>1, <2>2, CargoStampedFields DEF FilesKept, FileKept
  <2>4. /\ files'[g].version = CargoVersion(g, TRUE) /\ files'[g].workspace = files[g].workspace
        /\ files'[g].kind = "cargo"
    BY <2>2, <2>3 DEF Rewrites, CargoWorkspace
  <2>5. Asking(g)'
    <3>0. g \in Packages(start) /\ Asking(g)
      BY <2>2, AskedFacts DEF AskedInv, Working
    <3>1. CASE g \in Heirs
      <4>1. files'[g].version = Inherit /\ files[g].version = Inherit
        BY <3>1, <2>4, AskedFacts, <1>f, KeptFacts DEF CargoVersion, Heirs
      <4>2. WorkspaceVersion(files') = WorkspaceVersion(files)
        BY <2>1, <2>2, <2>4, <1>f DEF WorkspaceVersion, FilesKept
      <4>3. PackageVersion(files', g) = PackageVersion(files, g)
        BY <2>2, <2>4, <4>1, <4>2 DEF PackageVersion
      <4>. QED
        BY <3>0, <3>1, <4>3, <2>2 DEF Asking, Version
    <3>2. CASE g \notin Heirs
      <4>1. PackageVersion(files', g) = files'[g].version
        BY <3>2, <3>0, <2>2, <2>4, StartFacts, KeptFacts DEF PackageVersion, CargoVersion, Heirs
      <4>2. files'[g].version = Version \/ start[g].version = NoVersion
        BY <3>2, <3>0, <2>2, <2>4, KeptFacts DEF CargoVersion, Heirs
      <4>3. start[g].kind = "cargo" /\ (start[g].version = NoVersion => PackageVersion(start, g) = NoVersion)
        BY <3>2, <3>0, <2>2, KeptFacts, PackageFacts
      <4>. QED
        BY <4>1, <4>2, <4>3, <2>2 DEF Asking, Version
    <3>. QED
      BY <3>1, <3>2
  <2>6. \A f \in DOMAIN start \ {g} : files'[f] = files[f]
    BY <2>1, <1>f
  <2>. QED
    BY <2>1, <2>2, <2>4, <2>5, <2>6, AskedStamped
<1>4. CASE StampPackageJson
  <2>1. PICK g \in todo :
          /\ files[g].kind = "js"
          /\ files' = [files EXCEPT ![g] = PackageJsonStamped(g)]
          /\ todo' = todo \ {g}
          /\ IF DenoFollows(g) THEN pc' = "deno" /\ deno' = DenoBeside(g)
             ELSE UNCHANGED <<pc, deno>>
    BY <1>4 DEF StampPackageJson
  <2>2. /\ g \in DOMAIN start /\ start' = start /\ options' = options /\ pc = "packages"
        /\ pc' \in {"packages", "deno"} /\ selected' = selected /\ workspace' = workspace
        /\ g \in Asked /\ g \in Packages(start) /\ start[g].kind = "js" /\ g \notin Heirs
    <3>1. g \in selected /\ g \in Packages(start) /\ pc = "packages"
      BY <1>4, <2>1 DEF StampPackageJson, TodoInv, Working
    <3>2. g \in Asked
      BY <3>1 DEF AskedInv, Working
    <3>. QED
      BY <1>4, <1>f, <2>1, <3>1, <3>2, KeptFacts, PackageFacts DEF StampPackageJson, inputVars
  <2>3. CASE files[g].version = NoVersion
    <3>1. files'[g] = files[g]
      BY <2>1, <2>2, <2>3, <1>f DEF PackageJsonStamped
    <3>2. PackageVersion(start, g) = NoVersion
      BY <2>2, <2>3, KeptFacts, PackageFacts
    <3>3. Asking(g)'
      BY <2>2, <3>2 DEF Asking
    <3>4. \A f \in DOMAIN start \ {g} : files'[f] = files[f]
      BY <2>1, <1>f
    <3>. QED
      BY <2>1, <2>2, <3>1, <3>3, <3>4, AskedStamped
  <2>4. CASE files[g].version # NoVersion
    <3>1. Rewrites(files'[g], files[g], Version, files[g].workspace, Required(g, Targets("js")))
      BY <1>f, <2>1, <2>2, <2>4, PackageJsonStampedFields DEF FilesKept, FileKept
    <3>2. /\ files'[g].version = Version /\ files'[g].workspace = files[g].workspace
          /\ files'[g].kind = "js"
      BY <2>1, <3>1 DEF Rewrites
    <3>3. PackageVersion(files', g) = Version
      BY <3>2, StartFacts DEF PackageVersion
    <3>4. Asking(g)'
      BY <2>2, <3>3 DEF Asking, Version
    <3>5. \A f \in DOMAIN start \ {g} : files'[f] = files[f]
      BY <2>1, <1>f
    <3>. QED
      BY <2>1, <2>2, <3>2, <3>4, <3>5, AskedStamped
  <2>. QED
    BY <2>3, <2>4
<1>5. CASE StampDeno
  <2>1. /\ pc = "deno" /\ pc' = "packages" /\ start' = start /\ options' = options
        /\ selected' = selected /\ todo' = todo /\ workspace' = workspace
        /\ files' = [files EXCEPT ![deno] = DenoStamped(deno)]
    BY <1>5 DEF StampDeno, inputVars
  <2>2. deno \in DOMAIN start /\ deno \notin Packages(start)
    BY <2>1, DenoFileFacts
  <2>3. Rewrites(files'[deno], files[deno], DenoVersion(deno), files[deno].workspace,
                 Required(deno, Targets("js")))
    BY <1>f, <2>1, <2>2, DenoStampedFields DEF FilesKept, FileKept
  <2>4. files'[deno].workspace = files[deno].workspace
    BY <2>3 DEF Rewrites
  <2>5. \A f \in DOMAIN start \ {deno} : files'[f] = files[f]
    BY <2>1, <1>f
  <2>. QED
    BY <2>1, <2>2, <2>4, <2>5, AskedStamped
<1>6. CASE Finish
  BY <1>6, StartKept DEF Finish, inputVars, AskedInv, Working, Asking, PackageVersion, WorkspaceVersion
<1>7. CASE Fail \/ Rerun
  BY <1>7, StartKept DEF Fail, Rerun, inputVars, AskedInv, Working, PackageVersion, WorkspaceVersion
<1>8. CASE UNCHANGED vars
  BY <1>8, StartKept DEF vars, AskedInv, Working, Asking, PackageVersion, WorkspaceVersion
<1>. QED
  BY <1>1, <1>2, <1>3, <1>4, <1>5, <1>6, <1>7, <1>8 DEF Next

-----------------------------------------------------------------------------

LEMMA UninterruptedKept ==
  ASSUME start' = start, options' = options
  PROVE  /\ Uninterrupted' = Uninterrupted /\ (WorkspaceAsked' <=> WorkspaceAsked)
         /\ \A p : Scripted(p)' <=> Scripted(p)
<1>1. \A kind : AskedOf(kind)' = AskedOf(kind)
  BY StartKept DEF AskedOf
<1>2. WorkspaceAsked' <=> WorkspaceAsked
  BY <1>1 DEF WorkspaceAsked, Filtered, Packages
<1>3. RootTouched' <=> RootTouched
  BY <1>1, <1>2 DEF RootTouched
<1>4. Touched' = Touched
  BY <1>1, <1>3 DEF Touched
<1>5. \A f, t : Follows(f, t)' <=> Follows(f, t)
  BY <1>1 DEF Follows
<1>6. \A f : Stamped(f)' = Stamped(f)
  <2>. SUFFICES ASSUME NEW f
                PROVE  Stamped(f)' = Stamped(f)
    OBVIOUS
  <2>. QED
    BY <1>2, <1>5, StartKept, Zenon DEF Stamped
<1>7. Uninterrupted' = Uninterrupted
  BY <1>4, <1>6 DEF Uninterrupted
<1>. QED
  BY <1>2, <1>7 DEF Scripted

LEMMA UninterruptedFacts ==
  ASSUME FilesKept, NEW f \in DOMAIN start
  PROVE  /\ IsFile(start[f])
         /\ Rewrites(Stamped(f), start[f], StampedVersion(f), StampedWorkspace(f),
                     StampedRequires(f))
         /\ f \in Touched => Uninterrupted[f] = Stamped(f)
         /\ f \notin Touched => Uninterrupted[f] = start[f]
<1>1. IsFile(start[f])
  BY StartFacts DEF IsRepository
<1>2. /\ f \in Touched => Uninterrupted[f] = Stamped(f)
      /\ f \notin Touched => Uninterrupted[f] = start[f]
  BY DEF Uninterrupted
<1>. QED
  BY <1>1, <1>2, StampedFields

(***************************************************************************)
(* What is touched: packages asked for, the root, and files of Deno.       *)
(***************************************************************************)
LEMMA TouchedFacts ==
  ASSUME FilesKept
  PROVE  /\ AskedOf("cargo") \subseteq Touched
         /\ \A f \in AskedOf("js") : start[f].version # NoVersion =>
              f \in Touched /\ (start[f].deno => DenoBeside(f) \in Touched)
         /\ RootTouched => Root \in Touched
         /\ \A f \in Touched :
              \/ f \in Asked /\ start[f].kind \in {"cargo", "js"}
                 /\ (start[f].kind = "js" => start[f].version # NoVersion)
              \/ f = Root /\ RootTouched
              \/ \E p \in AskedOf("js") : Scripted(p) /\ f = DenoBeside(p)
         /\ Asked = AskedOf("cargo") \cup AskedOf("js")
<1>1. Asked = AskedOf("cargo") \cup AskedOf("js")
  BY DEF AskedOf, Asked
<1>2. AskedOf("cargo") \subseteq Touched /\ (RootTouched => Root \in Touched)
  BY DEF Touched
<1>3. \A f \in AskedOf("js") : start[f].version # NoVersion =>
         f \in Touched /\ (start[f].deno => DenoBeside(f) \in Touched)
  BY DEF Touched
<1>4. ASSUME NEW f \in Touched
      PROVE  \/ f \in Asked /\ start[f].kind \in {"cargo", "js"}
                /\ (start[f].kind = "js" => start[f].version # NoVersion)
             \/ f = Root /\ RootTouched
             \/ \E p \in AskedOf("js") : Scripted(p) /\ f = DenoBeside(p)
  BY DEF Touched, AskedOf, Scripted
<1>. QED
  BY <1>1, <1>2, <1>3, <1>4

LEMMA RequiredSame ==
  ASSUME FilesKept, NEW f \in DOMAIN start, files[f] \in {start[f], Stamped(f)}, NEW targets,
         \A t \in DOMAIN start[f].requires :
           Follows(f, t) <=> t \in targets /\ start[f].requires[t] # Link
  PROVE  Required(f, targets) = StampedRequires(f)
<1>1. /\ DOMAIN files[f].requires = DOMAIN start[f].requires
      /\ files[f].requires = start[f].requires \/ files[f].requires = StampedRequires(f)
  BY UninterruptedFacts DEF Rewrites, StampedRequires
<1>2. \A t \in DOMAIN start[f].requires :
        (IF t \in targets /\ files[f].requires[t] # Link THEN options.version
         ELSE files[f].requires[t])
        = IF Follows(f, t) THEN Version ELSE start[f].requires[t]
  BY <1>1 DEF StampedRequires, Version
<1>. QED
  BY <1>1, <1>2 DEF Required, StampedRequires

LEMMA TargetsFollow ==
  ASSUME FilesKept, selected = Asked, NEW f \in DOMAIN start, NEW t \in DOMAIN start[f].requires
  PROVE  /\ start[f].kind = "cargo" =>
              (Follows(f, t) <=> t \in Targets("cargo") /\ start[f].requires[t] # Link)
         /\ start[f].kind \in {"js", "deno"} =>
              (Follows(f, t) <=> t \in Targets("js") /\ start[f].requires[t] # Link)
<1>1. CargoOf(selected) = AskedOf("cargo")
  BY AskedFacts, PackageFacts, KeptFacts DEF CargoOf, AskedOf
<1>2. \A kind : {x \in selected : files[x].kind = kind} = AskedOf(kind)
  BY AskedFacts, PackageFacts, KeptFacts DEF AskedOf
<1>3. t \in DOMAIN files
  BY StartFacts DEF IsRepository
<1>4. start[f].kind = "cargo" =>
        (Follows(f, t) <=> t \in Targets("cargo") /\ start[f].requires[t] # Link)
  BY <1>1, <1>2, <1>3 DEF Follows, Targets
<1>5. start[f].kind \in {"js", "deno"} =>
        (Follows(f, t) <=> t \in Targets("js") /\ start[f].requires[t] # Link)
  BY <1>2 DEF Follows, Targets
<1>. QED
  BY <1>4, <1>5

(***************************************************************************)
(* Whatever the files hold on the way, stamping makes of them what a run   *)
(* without a failure makes.                                                *)
(***************************************************************************)
LEMMA CargoMakes ==
  ASSUME FilesKept, selected = Asked, NEW f \in DOMAIN start, start[f].kind = "cargo",
         files[f] \in {start[f], Stamped(f)}, NEW package, NEW inherited,
         package <=> (f \in Asked \/ f # Root),
         CargoWorkspace(f, inherited) = StampedWorkspace(f)
  PROVE  CargoStamped(f, package, inherited) = Stamped(f)
<1>1. IsFile(files[f])
  BY DEF FilesKept, FileKept
<1>2. Rewrites(CargoStamped(f, package, inherited), files[f], CargoVersion(f, package),
               CargoWorkspace(f, inherited), Required(f, Targets("cargo")))
  BY <1>1, CargoStampedFields
<1>3. Rewrites(Stamped(f), start[f], StampedVersion(f), StampedWorkspace(f), StampedRequires(f))
  BY UninterruptedFacts
<1>4. Required(f, Targets("cargo")) = StampedRequires(f)
  BY TargetsFollow, RequiredSame
<1>5. CargoVersion(f, package) = StampedVersion(f)
  BY <1>3, StartFacts DEF CargoVersion, StampedVersion, Rewrites
<1>. QED
  BY <1>2, <1>3, <1>4, <1>5, KeptFacts, SameFile DEF Rewrites

LEMMA PackageJsonMakes ==
  ASSUME FilesKept, selected = Asked, NEW f \in DOMAIN start, start[f].kind = "js",
         start[f].version # NoVersion, files[f] \in {start[f], Stamped(f)}
  PROVE  PackageJsonStamped(f) = Stamped(f)
<1>1. IsFile(files[f]) /\ files[f].version # NoVersion
  BY KeptFacts DEF FilesKept, FileKept
<1>2. Rewrites(PackageJsonStamped(f), files[f], Version, files[f].workspace,
               Required(f, Targets("js")))
  BY <1>1, PackageJsonStampedFields
<1>3. Rewrites(Stamped(f), start[f], StampedVersion(f), StampedWorkspace(f), StampedRequires(f))
  BY UninterruptedFacts
<1>4. Required(f, Targets("js")) = StampedRequires(f)
  BY TargetsFollow, RequiredSame
<1>5. f # Root /\ start[f].version # Inherit
  BY StartFacts DEF IsRepository
<1>6. Version = StampedVersion(f) /\ files[f].workspace = StampedWorkspace(f)
  BY <1>3, <1>5 DEF StampedVersion, StampedWorkspace, Rewrites
<1>. QED
  BY <1>2, <1>3, <1>4, <1>6, KeptFacts, SameFile DEF Rewrites

LEMMA DenoMakes ==
  ASSUME FilesKept, selected = Asked, NEW f \in DOMAIN start, start[f].kind = "deno",
         files[f] \in {start[f], Stamped(f)}
  PROVE  DenoStamped(f) = Stamped(f)
<1>1. IsFile(files[f])
  BY DEF FilesKept, FileKept
<1>2. Rewrites(DenoStamped(f), files[f], DenoVersion(f), files[f].workspace,
               Required(f, Targets("js")))
  BY <1>1, DenoStampedFields
<1>3. Rewrites(Stamped(f), start[f], StampedVersion(f), StampedWorkspace(f), StampedRequires(f))
  BY UninterruptedFacts
<1>4. Required(f, Targets("js")) = StampedRequires(f)
  BY TargetsFollow, RequiredSame
<1>5. f # Root /\ start[f].version # Inherit
  BY StartFacts DEF IsRepository
<1>6. DenoVersion(f) = StampedVersion(f) /\ files[f].workspace = StampedWorkspace(f)
  BY <1>3, <1>5, KeptFacts DEF StampedVersion, StampedWorkspace, DenoVersion, Rewrites
<1>. QED
  BY <1>2, <1>3, <1>4, <1>6, KeptFacts, SameFile DEF Rewrites

(***************************************************************************)
(* A package with an excluded version still has it: a later run selects    *)
(* what the first one did.                                                 *)
(***************************************************************************)
LEMMA ExcludedKept ==
  ASSUME FilesKept, \A f \in DOMAIN start : files[f] \in {start[f], Uninterrupted[f]},
         NEW f \in Packages(start), PackageVersion(start, f) \in options.excludeVersions
  PROVE  PackageVersion(files, f) = PackageVersion(start, f)
<1>1. f \notin Asked /\ f \in DOMAIN start /\ start[f].kind # "deno"
  BY PackageFacts DEF Asked
<1>2. CASE f \in Heirs
  <2>1. ~ WorkspaceAsked
    <3>1. Filtered
      BY DEF Filtered
    <3>2. ASSUME NEW g \in AskedOf("cargo"), start[g].version = Inherit
          PROVE  FALSE
      <4>1. g \in Heirs /\ PackageVersion(start, g) \notin options.excludeVersions
        BY <3>2 DEF AskedOf, Asked, Heirs
      <4>. QED
        BY <4>1, <1>2, PackageFacts DEF Heirs
    <3>. QED
      BY <3>1, <3>2 DEF WorkspaceAsked
  <2>2. Root \in DOMAIN start => files[Root].workspace = start[Root].workspace
    BY <2>1, UninterruptedFacts DEF Rewrites, StampedWorkspace
  <2>3. WorkspaceVersion(files) = WorkspaceVersion(start)
    BY <2>2, StartFacts DEF WorkspaceVersion
  <2>. QED
    BY <1>2, <2>3, PackageFacts
<1>3. CASE f \notin Heirs /\ start[f].kind # "uv"
  <2>1. files[f].version = start[f].version
    <3>1. CASE f \notin Touched
      BY <3>1, <1>1, UninterruptedFacts
    <3>2. CASE f \in Touched
      <4>1. \A p \in AskedOf("js") : Scripted(p) => f # DenoBeside(p)
        BY <1>1, StartFacts DEF IsRepository, Scripted, AskedOf, Asked
      <4>2. f = Root
        BY <4>1, <3>2, <1>1, TouchedFacts
      <4>3. StampedVersion(f) = start[f].version
        BY <4>2, <1>1 DEF StampedVersion
      <4>. QED
        BY <4>3, <3>2, <1>1, UninterruptedFacts DEF Rewrites
    <3>. QED
      BY <3>1, <3>2
  <2>. QED
    BY <1>3, <2>1, PackageFacts
<1>4. CASE start[f].kind = "uv"
  BY <1>4, PackageFacts
<1>. QED
  BY <1>2, <1>3, <1>4

LEMMA SelectsAsked ==
  ASSUME FilesKept, NewVersionCounts,
         \A f \in DOMAIN start : files[f] \in {start[f], Uninterrupted[f]}
  PROVE  Selected = Asked /\ (StampsWorkspace(Selected) <=> WorkspaceAsked)
<1>1. ASSUME NEW f \in Asked
      PROVE  f \in Selected
  <2>1. /\ f \in Packages(start) /\ start[f].kind \in {"cargo", "js"}
        /\ start[f].name \in options.packages \/ options.packages = {}
        /\ start[f].name \notin options.exclude
        /\ PackageVersion(start, f) \notin options.excludeVersions
    BY DEF Asked
  <2>2. PackageVersion(files, f) \notin options.excludeVersions
    BY <2>1, PackageFacts DEF NewVersionCounts, Version
  <2>. QED
    BY <2>1, <2>2, StartFacts, KeptFacts DEF Selected, CurrentVersion
<1>2. ASSUME NEW f \in Selected
      PROVE  f \in Asked
  <2>1. /\ f \in Packages(start) /\ start[f].kind \in {"cargo", "js"}
        /\ start[f].name \in options.packages \/ options.packages = {}
        /\ start[f].name \notin options.exclude
        /\ PackageVersion(files, f) \notin options.excludeVersions
    BY StartFacts, KeptFacts, PackageFacts DEF Selected, CurrentVersion
  <2>2. PackageVersion(start, f) \notin options.excludeVersions
    BY <2>1, ExcludedKept
  <2>. QED
    BY <2>1, <2>2 DEF Asked
<1>3. Selected = Asked
  BY <1>1, <1>2
<1>4. (\E f \in CargoOf(Asked) : files[f].version = Inherit)
        <=> (\E f \in AskedOf("cargo") : start[f].version = Inherit)
  BY AskedFacts, PackageFacts, KeptFacts DEF CargoOf, AskedOf
<1>5. CargoOf(Packages(files)) = {} <=> \A f \in Packages(start) : start[f].kind # "cargo"
  BY StartFacts, PackageFacts, KeptFacts DEF CargoOf
<1>. QED
  BY <1>3, <1>4, <1>5 DEF StampsWorkspace, WorkspaceAsked

LEMMA RepairSelect ==
  ASSUME KeptInv, NewVersionCounts, RepairInv, Select
  PROVE  RepairInv'
<1>1. /\ files' = files /\ start' = start /\ options' = options
      /\ \A f \in DOMAIN start : files[f] \in {start[f], Uninterrupted[f]}
  BY DEF Select, inputVars, RepairInv
<1>2. CASE ~ SelectorsMatch
  <2>1. pc' = "refused"
    BY <1>2 DEF Select
  <2>. QED
    BY <2>1, <1>1, UninterruptedKept DEF RepairInv, Working
<1>3. CASE SelectorsMatch
  <2>1. /\ selected' = Selected /\ todo' = selected' /\ pc' = "root"
        /\ workspace' = StampsWorkspace(selected')
    BY <1>3 DEF Select
  <2>2. selected' = Asked /\ (workspace' <=> WorkspaceAsked)
    BY <2>1, <1>1, SelectsAsked DEF KeptInv
  <2>. QED
    BY <2>1, <2>2, <1>1, UninterruptedKept, StartKept DEF RepairInv
<1>. QED
  BY <1>2, <1>3

LEMMA RepairRoot ==
  ASSUME KeptInv, RepairInv, StampRoot
  PROVE  RepairInv'
<1>. USE DEF KeptInv
<1>1. /\ start' = start /\ options' = options /\ pc = "root" /\ pc' = "packages"
      /\ selected' = selected /\ workspace' = workspace
  BY DEF StampRoot, inputVars
<1>2. /\ \A f \in DOMAIN start : files[f] \in {start[f], Uninterrupted[f]}
      /\ selected = Asked /\ (workspace <=> WorkspaceAsked) /\ todo = Asked
  BY <1>1 DEF RepairInv, Working
<1>3. DOMAIN files = DOMAIN start /\ (Root \in DOMAIN start => start[Root].kind = "cargo")
  BY StartFacts DEF IsRepository
<1>4. RootTouched <=> Root \in DOMAIN files /\ (CargoOf(selected) # {} \/ workspace)
  <2>1. CargoOf(selected) = AskedOf("cargo")
    BY <1>2, AskedFacts, PackageFacts, KeptFacts DEF CargoOf, AskedOf
  <2>. QED
    BY <2>1, <1>2, <1>3 DEF RootTouched
<1>5. /\ \A f \in DOMAIN start \ {Root} : files'[f] = files[f]
      /\ todo \ {Root} \subseteq todo'
      /\ Root \in DOMAIN start => files'[Root] = Uninterrupted[Root]
  <2>1. CASE RootTouched
    <3>1. /\ files' = [files EXCEPT ![Root] = CargoStamped(Root, Root \in selected, workspace)]
          /\ todo \ {Root} \subseteq todo'
      BY <2>1, <1>4 DEF StampRoot
    <3>2. /\ Root \in DOMAIN start /\ Uninterrupted[Root] = Stamped(Root)
          /\ files[Root] \in {start[Root], Stamped(Root)}
      BY <2>1, <1>2, UninterruptedFacts, TouchedFacts DEF RootTouched
    <3>3. CargoWorkspace(Root, workspace) = StampedWorkspace(Root)
      <4>1. files[Root].workspace \in {start[Root].workspace, StampedWorkspace(Root)}
        BY <3>2, UninterruptedFacts DEF Rewrites
      <4>. QED
        BY <4>1, <1>2, StartFacts DEF CargoWorkspace, StampedWorkspace
    <3>4. CargoStamped(Root, Root \in selected, workspace) = Stamped(Root)
      BY <3>2, <3>3, <1>2, <1>3, CargoMakes
    <3>. QED
      BY <3>1, <3>2, <3>4, <1>3
  <2>2. CASE ~ RootTouched
    <3>1. files' = files /\ todo' = todo
      BY <2>2, <1>4 DEF StampRoot
    <3>2. ASSUME Root \in DOMAIN start, Root \in Touched
          PROVE  FALSE
      <4>1. \A p \in AskedOf("js") : Scripted(p) => Root # DenoBeside(p)
        BY <1>3, <3>2, AskedFacts, PackageFacts, StartFacts DEF IsRepository, Scripted, AskedOf
      <4>2. Root \in Asked
        BY <4>1, <3>2, <2>2, TouchedFacts
      <4>. QED
        BY <4>2, <2>2, <3>2, <1>3 DEF RootTouched, AskedOf
    <3>3. Root \in DOMAIN start => files[Root] = Uninterrupted[Root]
      BY <3>2, <1>2, UninterruptedFacts
    <3>. QED
      BY <3>1, <3>3
  <2>. QED
    BY <2>1, <2>2
<1>6. ASSUME NEW f \in DOMAIN start, f # Root
      PROVE  files'[f] = Uninterrupted[f] \/ f \in todo'
               \/ \E p \in todo' : Scripted(p) /\ f = DenoBeside(p)
  <2>1. CASE f \notin Touched
    BY <2>1, <1>2, <1>5, <1>6, UninterruptedFacts
  <2>2. CASE f \in Touched /\ f \in Asked
    BY <2>2, <1>2, <1>5, <1>6
  <2>3. CASE f \in Touched /\ f \notin Asked
    <3>1. PICK p \in AskedOf("js") : Scripted(p) /\ f = DenoBeside(p)
      BY <2>3, <1>6, TouchedFacts
    <3>2. p \in Asked /\ p # Root
      BY <3>1, <1>3, AskedFacts, PackageFacts DEF AskedOf, Scripted
    <3>. QED
      BY <3>1, <3>2, <1>2, <1>5
  <2>. QED
    BY <2>1, <2>2, <2>3
<1>7. \A f \in DOMAIN start : files'[f] \in {start[f], Uninterrupted[f]}
  BY <1>2, <1>5
<1>8. \A f \in DOMAIN start : Settling(f)'
  BY <1>1, <1>5, <1>6, UninterruptedKept DEF Settling
<1>. QED
  BY <1>1, <1>2, <1>5, <1>7, <1>8, UninterruptedKept, StartKept DEF RepairInv, Working

(***************************************************************************)
(* Once the root is done, a step that settles one file is enough.          *)
(***************************************************************************)
LEMMA RepairStamped ==
  ASSUME KeptInv, RepairInv, pc \in {"packages", "deno"}, pc' \in {"packages", "deno"},
         start' = start, options' = options, selected' = selected, workspace' = workspace,
         NEW g \in DOMAIN start, files'[g] = Uninterrupted[g],
         \A f \in DOMAIN start \ {g} : files'[f] = files[f],
         todo \ {g} \subseteq todo',
         pc = "deno" => deno = g,
         g \in todo /\ Scripted(g) =>
           g \in todo' \/ (pc' = "deno" /\ deno' = DenoBeside(g))
  PROVE  RepairInv'
<1>1. /\ \A f \in DOMAIN start : files[f] \in {start[f], Uninterrupted[f]}
      /\ selected = Asked /\ (workspace <=> WorkspaceAsked)
      /\ Root \in DOMAIN start => files[Root] = Uninterrupted[Root]
      /\ \A f \in DOMAIN start : Settling(f)
  BY DEF RepairInv, Working
<1>2. ASSUME NEW f \in DOMAIN start
      PROVE  Settling(f)'
  <2>1. CASE f = g
    BY <2>1, UninterruptedKept DEF Settling
  <2>2. CASE f # g
    <3>1. CASE files[f] = Uninterrupted[f]
      BY <3>1, <2>2, UninterruptedKept DEF Settling
    <3>2. CASE f \in todo
      BY <3>2, <2>2 DEF Settling
    <3>3. CASE \E p \in todo : Scripted(p) /\ f = DenoBeside(p)
      BY <3>3, UninterruptedKept DEF Settling
    <3>. QED
      BY <3>1, <3>2, <3>3, <2>2, <1>1 DEF Settling
  <2>. QED
    BY <2>1, <2>2
<1>3. /\ \A f \in DOMAIN start : files'[f] \in {start[f], Uninterrupted[f]}
      /\ Root \in DOMAIN start => files'[Root] = Uninterrupted[Root]
  BY <1>1
<1>. QED
  BY <1>1, <1>2, <1>3, UninterruptedKept, StartKept DEF RepairInv, Working

LEMMA RepairStep ==
  ASSUME KeptInv, NewVersionCounts, RepairInv, [Next]_vars
  PROVE  RepairInv'
<1>. USE DEF KeptInv
<1>f. DOMAIN files = DOMAIN start /\ Packages(start) \subseteq DOMAIN start
  BY StartFacts
<1>1. CASE Select
  BY <1>1, RepairSelect
<1>2. CASE StampRoot
  BY <1>2, RepairRoot
<1>3. CASE StampCargo
  <2>1. PICK g \in CargoOf(todo) :
          /\ files' = [files EXCEPT ![g] = CargoStamped(g, TRUE, FALSE)]
          /\ todo' = todo \ {g}
    BY <1>3 DEF StampCargo
  <2>2. /\ start' = start /\ options' = options /\ pc = "packages"
        /\ pc' = pc /\ selected' = selected /\ workspace' = workspace
    BY <1>3 DEF StampCargo, inputVars
  <2>3. /\ selected = Asked /\ g \in Asked /\ g \in DOMAIN start /\ start[g].kind = "cargo"
        /\ files[g] \in {start[g], Uninterrupted[g]}
        /\ Root \in DOMAIN start => files[Root] = Uninterrupted[Root]
    BY <1>f, <2>1, <2>2, KeptFacts, AskedFacts DEF CargoOf, TodoInv, Working, RepairInv
  <2>4. Uninterrupted[g] = Stamped(g)
    BY <2>3, TouchedFacts, UninterruptedFacts DEF AskedOf
  <2>5. CargoWorkspace(g, FALSE) = StampedWorkspace(g)
    <3>1. CargoWorkspace(g, FALSE) = files[g].workspace
      BY DEF CargoWorkspace
    <3>2. Stamped(g).workspace = StampedWorkspace(g)
      BY <2>3, UninterruptedFacts DEF Rewrites
    <3>3. CASE g = Root
      BY <3>1, <3>2, <3>3, <2>3, <2>4
    <3>4. CASE g # Root
      BY <3>1, <3>2, <3>4, <2>3, <2>4 DEF StampedWorkspace
    <3>. QED
      BY <3>3, <3>4
  <2>6. CargoStamped(g, TRUE, FALSE) = Stamped(g)
    BY <2>3, <2>4, <2>5, CargoMakes
  <2>7. /\ files'[g] = Uninterrupted[g]
        /\ \A f \in DOMAIN start \ {g} : files'[f] = files[f]
        /\ ~ Scripted(g)
    BY <1>f, <2>1, <2>3, <2>4, <2>6 DEF Scripted
  <2>. QED
    BY <2>1, <2>2, <2>3, <2>7, RepairStamped
<1>4. CASE StampPackageJson
  <2>1. PICK g \in todo :
          /\ files[g].kind = "js"
          /\ files' = [files EXCEPT ![g] = PackageJsonStamped(g)]
          /\ todo' = todo \ {g}
          /\ IF DenoFollows(g) THEN pc' = "deno" /\ deno' = DenoBeside(g)
             ELSE UNCHANGED <<pc, deno>>
    BY <1>4 DEF StampPackageJson
  <2>2. /\ start' = start /\ options' = options /\ pc = "packages"
        /\ pc' \in {"packages", "deno"} /\ selected' = selected /\ workspace' = workspace
    BY <1>4, <2>1 DEF StampPackageJson, inputVars
  <2>3. /\ selected = Asked /\ g \in Asked /\ g \in DOMAIN start /\ start[g].kind = "js"
        /\ files[g] \in {start[g], Uninterrupted[g]}
    BY <1>f, <2>1, <2>2, KeptFacts, AskedFacts DEF TodoInv, Working, RepairInv
  <2>4. PackageJsonStamped(g) = Uninterrupted[g]
    <3>1. CASE start[g].version = NoVersion
      <4>1. \A p \in AskedOf("js") : Scripted(p) => g # DenoBeside(p)
        BY <2>3, AskedFacts, PackageFacts, StartFacts DEF IsRepository, Scripted, AskedOf
      <4>2. g # Root
        BY <2>3, StartFacts DEF IsRepository
      <4>3. g \notin Touched
        BY <3>1, <4>1, <4>2, <2>3, TouchedFacts
      <4>. QED
        BY <3>1, <4>3, <2>3, UninterruptedFacts, KeptFacts DEF PackageJsonStamped
    <3>2. CASE start[g].version # NoVersion
      <4>1. Uninterrupted[g] = Stamped(g)
        BY <3>2, <2>3, TouchedFacts, UninterruptedFacts DEF AskedOf
      <4>. QED
        BY <4>1, <3>2, <2>3, PackageJsonMakes
    <3>. QED
      BY <3>1, <3>2
  <2>5. Scripted(g) => DenoFollows(g)
    BY <2>3, KeptFacts DEF Scripted, DenoFollows
  <2>6. /\ files'[g] = Uninterrupted[g]
        /\ \A f \in DOMAIN start \ {g} : files'[f] = files[f]
        /\ Scripted(g) => pc' = "deno" /\ deno' = DenoBeside(g)
    BY <1>f, <2>1, <2>3, <2>4, <2>5
  <2>. QED
    BY <2>1, <2>2, <2>3, <2>6, RepairStamped
<1>5. CASE StampDeno
  <2>1. /\ pc = "deno" /\ pc' = "packages" /\ start' = start /\ options' = options
        /\ selected' = selected /\ todo' = todo /\ workspace' = workspace
        /\ files' = [files EXCEPT ![deno] = DenoStamped(deno)]
    BY <1>5 DEF StampDeno, inputVars
  <2>2. /\ deno \in DOMAIN start /\ start[deno].kind = "deno" /\ selected = Asked
        /\ files[deno] \in {start[deno], Uninterrupted[deno]}
    BY <2>1, DenoFileFacts DEF RepairInv, Working
  <2>3. deno \in Touched
    <3>1. PICK p \in DOMAIN start : p \in selected /\ Scripted(p) /\ deno = DenoBeside(p)
      BY <2>1 DEF DenoInv
    <3>. QED
      BY <3>1, <2>2, TouchedFacts DEF Scripted, AskedOf
  <2>4. Uninterrupted[deno] = Stamped(deno)
    BY <2>2, <2>3, UninterruptedFacts
  <2>5. DenoStamped(deno) = Uninterrupted[deno]
    BY <2>2, <2>4, DenoMakes
  <2>6. /\ files'[deno] = Uninterrupted[deno]
        /\ \A f \in DOMAIN start \ {deno} : files'[f] = files[f]
        /\ ~ Scripted(deno)
    BY <1>f, <2>1, <2>2, <2>5 DEF Scripted
  <2>. QED
    BY <2>1, <2>2, <2>6, RepairStamped
<1>6. CASE Finish
  <2>1. /\ files' = files /\ start' = start /\ options' = options /\ selected' = selected
        /\ workspace' = workspace /\ todo' = todo /\ pc = "packages" /\ pc' = "done"
    BY <1>6 DEF Finish, inputVars
  <2>2. \A f \in DOMAIN start : Settling(f)'
    BY <2>1, UninterruptedKept DEF Settling, RepairInv, Working
  <2>. QED
    BY <2>1, <2>2, UninterruptedKept, StartKept DEF RepairInv, Working
<1>7. CASE Fail \/ Rerun
  <2>1. /\ files' = files /\ start' = start /\ options' = options /\ pc' \in {"failed", "select"}
    BY <1>7 DEF Fail, Rerun, inputVars
  <2>. QED
    BY <2>1, UninterruptedKept DEF RepairInv, Working
<1>8. CASE UNCHANGED vars
  <2>1. \A f : Settling(f)' <=> Settling(f)
    BY <1>8, UninterruptedKept DEF vars, Settling
  <2>. QED
    BY <1>8, <2>1, UninterruptedKept, StartKept DEF vars, RepairInv, Working
<1>. QED
  BY <1>1, <1>2, <1>3, <1>4, <1>5, <1>6, <1>7, <1>8 DEF Next

-----------------------------------------------------------------------------

LEMMA StampingInvariant == Spec => []KeptInv
<1>1. Init => KeptInv
  BY KeptInit
<1>2. KeptInv /\ [Next]_vars => KeptInv'
  BY KeptStep
<1>. QED
  BY <1>1, <1>2, PTL DEF Spec

LEMMA InputsKept ==
  ASSUME [Next]_vars
  PROVE  start' = start /\ options' = options
BY DEF Next, Select, StampRoot, StampCargo, StampPackageJson, StampDeno, Finish, Fail, Rerun,
       inputVars, vars

AskedWhenTogether == InheritTogether => AskedInv

LEMMA AskedInvariant == Spec => []AskedWhenTogether
<1>1. Init => AskedWhenTogether
  BY DEF Init, AskedWhenTogether, AskedInv, Working
<1>2. KeptInv /\ KeptInv' /\ AskedWhenTogether /\ [Next]_vars => AskedWhenTogether'
  <2>. SUFFICES ASSUME KeptInv, KeptInv', AskedWhenTogether, [Next]_vars
                PROVE  AskedWhenTogether'
    OBVIOUS
  <2>1. InheritTogether' <=> InheritTogether
    BY InputsKept, StartKept
  <2>2. InheritTogether => AskedInv'
    BY AskedStep DEF AskedWhenTogether
  <2>. QED
    BY <2>1, <2>2 DEF AskedWhenTogether
<1>. QED
  BY <1>1, <1>2, StampingInvariant, PTL DEF Spec

RepairWhenCounted == NewVersionCounts => RepairInv

LEMMA RepairInvariant == Spec => []RepairWhenCounted
<1>1. Init => RepairWhenCounted
  BY DEF Init, RepairWhenCounted, RepairInv, Working
<1>2. KeptInv /\ RepairWhenCounted /\ [Next]_vars => RepairWhenCounted'
  <2>. SUFFICES ASSUME KeptInv, RepairWhenCounted, [Next]_vars
                PROVE  RepairWhenCounted'
    OBVIOUS
  <2>1. NewVersionCounts' <=> NewVersionCounts
    BY InputsKept, StartKept
  <2>2. NewVersionCounts => RepairInv'
    BY RepairStep DEF RepairWhenCounted
  <2>. QED
    BY <2>1, <2>2 DEF RepairWhenCounted
<1>. QED
  BY <1>1, <1>2, StampingInvariant, PTL DEF Spec

LEMMA StampedExactly ==
  ASSUME KeptInv, AskedWhenTogether
  PROVE  ExactlyAskedStamped
<1>. SUFFICES ASSUME pc = "done", InheritTogether, NEW f \in Packages(start)
              PROVE  PackageVersion(files, f) =
                       IF f \in Asked /\ PackageVersion(start, f) # NoVersion THEN options.version
                       ELSE PackageVersion(start, f)
  BY DEF ExactlyAskedStamped
<1>1. /\ \A g \in Packages(start) \ Asked : PackageVersion(files, g) = PackageVersion(start, g)
      /\ \A g \in Asked : Asking(g)
      /\ todo = {}
  BY DEF AskedWhenTogether, AskedInv, Working, KeptInv, TodoInv
<1>2. PackageVersion(start, f) = NoVersion => PackageVersion(files, f) = NoVersion
  BY PackageFacts DEF KeptInv
<1>3. f \in Asked =>
        PackageVersion(files, f) = Version \/ PackageVersion(start, f) = NoVersion
  BY <1>1 DEF Asking
<1>. QED
  BY <1>1, <1>2, <1>3 DEF Version

LEMMA Repaired ==
  ASSUME KeptInv, RepairWhenCounted
  PROVE  RerunRepairs
<1>. SUFFICES ASSUME pc = "done", NewVersionCounts
              PROVE  files = Uninterrupted
  BY DEF RerunRepairs
<1>1. \A f \in DOMAIN start : files[f] = Uninterrupted[f]
  BY DEF RepairWhenCounted, RepairInv, Settling, Working, KeptInv, TodoInv
<1>2. files = [f \in DOMAIN start |-> files[f]]
  BY DEF KeptInv, FilesKept
<1>3. Uninterrupted = [f \in DOMAIN start |-> Uninterrupted[f]]
  BY DEF Uninterrupted
<1>. QED
  BY <1>1, <1>2, <1>3

LEMMA RequirementsMet ==
  ASSUME KeptInv, ExactlyAskedStamped, RerunRepairs
  PROVE  RequirementsFollow
<1>. USE DEF KeptInv
<1>. SUFFICES ASSUME pc = "done", InheritTogether, NewVersionCounts,
                     NEW f \in Asked, NEW t \in DOMAIN start[f].requires,
                     start[f].kind = "js" => start[f].version # NoVersion,
                     t \in Asked => PackageVersion(start, t) # NoVersion,
                     Met(start, f, t)
              PROVE  Met(files, f, t)
  BY DEF RequirementsFollow
<1>1. /\ f \in DOMAIN start /\ start[f].kind \in {"cargo", "js"}
      /\ t \in DOMAIN start /\ start[t].kind = start[f].kind
  BY StartFacts, AskedFacts DEF IsRepository, Asked
<1>2. files[f] = Stamped(f)
  BY <1>1, TouchedFacts, UninterruptedFacts DEF RerunRepairs, AskedOf
<1>3. files[f].requires[t] = IF Follows(f, t) THEN Version ELSE start[f].requires[t]
  <2>1. files[f].requires = StampedRequires(f)
    BY <1>1, <1>2, UninterruptedFacts DEF Rewrites
  <2>2. StampedRequires(f)[t] = IF Follows(f, t) THEN Version ELSE start[f].requires[t]
    BY DEF StampedRequires
  <2>. QED
    BY <2>1, <2>2
<1>4. Follows(f, t) <=> start[f].requires[t] # Link /\ t \in Asked
  BY <1>1 DEF Follows, AskedOf
<1>5. files[t].package = start[t].package
  BY <1>1, KeptFacts
<1>6. CASE t \in Asked
  <2>1. t \in Packages(start) /\ start[t].package
    BY <1>6, AskedFacts DEF Packages
  <2>2. PackageVersion(files, t) = Version
    BY <1>6, <2>1 DEF ExactlyAskedStamped, Version
  <2>. QED
    BY <1>3, <1>4, <1>5, <1>6, <2>1, <2>2 DEF Met
<1>7. CASE t \notin Asked
  <2>1. files[f].requires[t] = start[f].requires[t]
    BY <1>3, <1>4, <1>7
  <2>2. start[t].package => PackageVersion(files, t) = PackageVersion(start, t)
    BY <1>1, <1>7 DEF ExactlyAskedStamped, Packages
  <2>. QED
    BY <1>5, <2>1, <2>2 DEF Met
<1>. QED
  BY <1>6, <1>7

(***************************************************************************)
(* When the stamp command ends, exactly the packages it was asked for have *)
(* the new version, whatever runs failed before, at whatever manifest      *)
(* (stamp.rs: stamp_selected).                                             *)
(***************************************************************************)
THEOREM AskedAreStamped == Spec => []ExactlyAskedStamped
<1>1. KeptInv /\ AskedWhenTogether => ExactlyAskedStamped
  BY StampedExactly
<1>. QED
  BY <1>1, StampingInvariant, AskedInvariant, PTL

(***************************************************************************)
(* The run that succeeds leaves the files that a single run without a      *)
(* failure would have left (stamp.rs: stamp_selected).                     *)
(***************************************************************************)
THEOREM RunsRepair == Spec => []RerunRepairs
<1>1. KeptInv /\ RepairWhenCounted => RerunRepairs
  BY Repaired
<1>. QED
  BY <1>1, StampingInvariant, RepairInvariant, PTL

(***************************************************************************)
(* Requirements that were met are met after stamping: they follow the      *)
(* packages that changed and no others (stamp.rs: stamp_cargo_toml_filtered*)
(* and stamp_package_json).                                                *)
(***************************************************************************)
THEOREM RequirementsStayMet == Spec => []RequirementsFollow
<1>1. KeptInv /\ ExactlyAskedStamped /\ RerunRepairs => RequirementsFollow
  BY RequirementsMet
<1>. QED
  BY <1>1, StampingInvariant, AskedAreStamped, RunsRepair, PTL

=============================================================================
