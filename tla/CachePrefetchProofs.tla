------------------------ MODULE CachePrefetchProofs -------------------------
(***************************************************************************)
(* Proofs about the root-task cache, for any number of tasks, candidates   *)
(* and versions: the workers share the candidates, a stale prefetch is     *)
(* never an error, and, as long as no edit brings an earlier version back, *)
(* nothing is stored under a wrong key and a hit is current.               *)
(***************************************************************************)
EXTENDS CachePrefetch, TLAPS

-----------------------------------------------------------------------------

(***************************************************************************)
(* The workers.  The counter is past every candidate claimed, and a worker *)
(* returns only when it is past all of them.                               *)
(***************************************************************************)
Claimed == {Candidates[i] : i \in {j \in DOMAIN Candidates : j < next}}

Sharing ==
  /\ next \in Nat \ {0}
  /\ at \in [Workers -> Nat]
  /\ \A w \in Workers : at[w] < next /\ at[w] <= Len(Candidates)
  /\ \A v, w \in Workers : at[v] = at[w] /\ at[v] # 0 => v = w
  /\ tried = Claimed
  /\ left \subseteq Workers /\ \A w \in left : at[w] = 0
  /\ left # {} => next > Len(Candidates)
  /\ phase # "prefetch" => left = Workers

LEMMA CandidateFacts ==
  /\ Len(Candidates) \in Nat /\ DOMAIN Candidates = 1 .. Len(Candidates)
  /\ \A i \in DOMAIN Candidates : Candidates[i] \in Tasks
  /\ Workers \subseteq Nat
  /\ Candidates # <<>> => Len(Candidates) > 0 /\ 1 \in Workers
  /\ Candidates = <<>> => Workers = {}
BY CandidateAssumption DEF Workers

LEMMA SharingInit == Init => Sharing
<1>. SUFFICES ASSUME Init PROVE Sharing
  OBVIOUS
<1>1. next = 1 /\ left = {} /\ tried = {} /\ at = [w \in Workers |-> 0]
  BY DEF Init
<1>2. tried = Claimed
  BY <1>1, CandidateFacts DEF Claimed
<1>3. phase # "prefetch" => left = Workers
  BY <1>1, CandidateFacts DEF Init
<1>. QED
  BY <1>1, <1>2, <1>3, CandidateFacts DEF Sharing

LEMMA ClaimShares == ASSUME NEW w \in Workers, Sharing, Claim(w) PROVE Sharing'
<1>1. /\ phase = "prefetch" /\ phase' = phase /\ w \notin left /\ at[w] = 0 /\ next' = next + 1
      /\ next \in Nat \ {0}
  BY DEF Claim, Sharing
<1>2. CASE next <= Len(Candidates)
  <2>1. at' = [at EXCEPT ![w] = next] /\ tried' = tried \cup {Candidates[next]} /\ left' = left
    BY <1>2 DEF Claim
  <2>2. tried' = Claimed'
    <3>1. next \in DOMAIN Candidates
      BY <1>1, <1>2, CandidateFacts
    <3>2. \A j \in DOMAIN Candidates : j < next' <=> j < next \/ j = next
      BY <1>1, CandidateFacts
    <3>. QED
      BY <2>1, <3>1, <3>2 DEF Sharing, Claimed
  <2>3. left = {}
    BY <1>1, <1>2, CandidateFacts DEF Sharing
  <2>. QED
    BY <1>1, <1>2, <2>1, <2>2, <2>3, CandidateFacts DEF Sharing
<1>3. CASE ~ (next <= Len(Candidates))
  <2>1. left' = left \cup {w} /\ at' = at /\ tried' = tried
    BY <1>3 DEF Claim
  <2>2. next > Len(Candidates) /\ next' > Len(Candidates)
    BY <1>1, <1>3, CandidateFacts
  <2>3. Claimed' = Claimed
    BY <1>1, <2>2, CandidateFacts DEF Claimed
  <2>. QED
    BY <1>1, <2>1, <2>2, <2>3, CandidateFacts DEF Sharing
<1>. QED
  BY <1>2, <1>3

LEMMA NextShares == Sharing /\ [Next]_vars => Sharing'
<1>. SUFFICES ASSUME Sharing, [Next]_vars PROVE Sharing'
  OBVIOUS
<1>1. ASSUME NEW w \in Workers, PrepareKey(w) \/ Download(w) PROVE Sharing'
  <2>1. /\ at' \in {at, [at EXCEPT ![w] = 0]}
        /\ UNCHANGED <<phase, next, left, tried>>
    BY <1>1 DEF PrepareKey, Download
  <2>2. Claimed' = Claimed
    BY <2>1 DEF Claimed
  <2>. QED
    BY <2>1, <2>2 DEF Sharing
<1>2. CASE EndPrefetch
  BY <1>2 DEF EndPrefetch, Sharing, Claimed, workerVars
<1>3. ASSUME UNCHANGED workerVars, phase' = phase \/ phase # "prefetch" PROVE Sharing'
  BY <1>3 DEF Sharing, Claimed, workerVars
<1>4. CASE Prepare \/ Restore \/ Execute \/ CommandFails \/ CheckKey \/ Save \/ EndRun
  BY <1>3, <1>4 DEF Prepare, Restore, Execute, CommandFails, CheckKey, Save, EndRun, At
<1>5. CASE Others \/ UNCHANGED vars
  BY <1>3, <1>5 DEF Others, Edit, OtherRun, Damage, vars
<1>. QED
  BY <1>1, <1>2, <1>4, <1>5, ClaimShares DEF Next, Worker, Main, Over

(***************************************************************************)
(* No candidate is taken by two workers, and when the first task runs all  *)
(* were taken and no worker is at work (prefetch_root_caches).             *)
(***************************************************************************)
THEOREM WorkersShareCandidates == Spec => []CandidatesShared
<1>1. Sharing => CandidatesShared
  <2>. SUFFICES ASSUME Sharing, phase # "prefetch"
                PROVE  tried = ToSet(Candidates) /\ \A w \in Workers : at[w] = 0
    BY DEF Sharing, CandidatesShared
  <2>1. \A j \in DOMAIN Candidates : j < next
    BY CandidateFacts DEF Sharing
  <2>. QED
    BY <2>1 DEF Sharing, Claimed, ToSet
<1>. QED
  BY <1>1, SharingInit, NextShares, PTL DEF Spec

-----------------------------------------------------------------------------

(***************************************************************************)
(* What a restore finds, and what it leaves.                               *)
(***************************************************************************)
LEMMA RestoreOutcome ==
  Restore => \E a :
    /\ IF Usable THEN a = prefetched[position].archive ELSE a \in {store[position][key], Failed}
    /\ \/ session' \in {"miss", "error"}
       \/ session' = "hit" /\ a \in Versions /\ outputs' = [outputs EXCEPT ![position] = a]
    /\ \/ outputs' = outputs
       \/ \E b : outputs' = [outputs EXCEPT ![position] = b]
<1>. SUFFICES ASSUME Restore
              PROVE  \E a :
                       /\ IF Usable THEN a = prefetched[position].archive
                          ELSE a \in {store[position][key], Failed}
                       /\ \/ session' \in {"miss", "error"}
                          \/ session' = "hit" /\ a \in Versions /\ outputs' = [outputs EXCEPT ![position] = a]
                       /\ \/ outputs' = outputs
                          \/ \E b : outputs' = [outputs EXCEPT ![position] = b]
  OBVIOUS
<1>. DEFINE Found == IF Usable THEN {prefetched[position]}
                     ELSE [key : {key}, archive : {store[position][key], Failed}]
            Leaves(p) ==
              \/ p.archive = Nothing /\ session' = "miss" /\ UNCHANGED outputs
              \/ p.archive \in {Failed, Corrupt} /\ session' = "error" /\ UNCHANGED outputs
              \/ p.archive \in Versions /\ p.key # key /\ session' = "mismatch" /\ UNCHANGED outputs
              \/ /\ p.archive \in Versions /\ p.key = key
                 /\ \/ session' = "hit" /\ outputs' = [outputs EXCEPT ![position] = p.archive]
                    \/ session' = "error" /\ outputs' = [outputs EXCEPT ![position] = Torn]
<1>1. \E p \in Found : Leaves(p)
  BY DEF Restore
<1>2. PICK p \in Found : Leaves(p)
  BY <1>1
<1>3. p.key = key /\ IF Usable THEN p.archive = prefetched[position].archive
                     ELSE p.archive \in {store[position][key], Failed}
  BY DEF Usable
<1>. HIDE DEF Found
<1>. QED
  BY <1>2, <1>3

(***************************************************************************)
(* A prefetched archive is looked at only under its own key.               *)
(***************************************************************************)
THEOREM StaleIsNeverAnError == Spec => []StaleIsNoError
<1>1. Init => StaleIsNoError
  BY DEF Init, StaleIsNoError
<1>2. StaleIsNoError /\ [Next]_vars => StaleIsNoError'
  <2>. SUFFICES ASSUME session # "mismatch", [Next]_vars PROVE session' # "mismatch"
    BY DEF StaleIsNoError
  <2>1. CASE Restore
    BY <2>1, RestoreOutcome
  <2>2. CASE Prepare
    BY <2>2 DEF Prepare
  <2>3. CASE \E w \in Workers : Worker(w)
    BY <2>3 DEF Worker, Claim, PrepareKey, Download, runVars
  <2>4. CASE EndPrefetch \/ CommandFails \/ EndRun \/ Others \/ UNCHANGED vars
    BY <2>4 DEF EndPrefetch, CommandFails, EndRun, Others, Edit, OtherRun, Damage, vars, runVars
  <2>5. CASE Execute \/ CheckKey \/ Save
    BY <2>5 DEF Execute, CheckKey, Save
  <2>. QED
    BY <2>1, <2>2, <2>3, <2>4, <2>5 DEF Next, Main, Over
<1>. QED
  BY <1>1, <1>2, PTL DEF Spec

-----------------------------------------------------------------------------

(***************************************************************************)
(* The data.  Inputs only grow when no edit brings an earlier version      *)
(* back, so a key that is the same at the check was the inputs' version    *)
(* all the time since the task was prepared, and the outputs were made     *)
(* from it.                                                                *)
(***************************************************************************)
Data ==
  /\ editing # "reverting"
  /\ position \in Nat \ {0} /\ (stage # "prepare" => position \in Tasks)
  /\ key \in Versions
  /\ next \in Nat \ {0}
  /\ at \in [Workers -> 0 .. Len(Candidates)]
  /\ workerKey \in [Workers -> Versions \cup {Nothing}]
  /\ inputs \in [Tasks -> Versions]
  /\ DOMAIN outputs = Tasks
  /\ store \in [Tasks -> [Versions -> Versions \cup {Nothing, Corrupt}]]

Honest ==
  /\ StoreIsHonest
  /\ \A t \in DOMAIN prefetched : prefetched[t].archive \in {Nothing, Corrupt, Failed, prefetched[t].key}

Session ==
  LET v == inputs[position]
  IN  /\ stage = "restore" => session # "none"
      /\ stage = "restore" \/ (stage = "execute" /\ session # "none") =>
           key <= v /\ (editing = "none" => key = v)
      /\ stage = "execute" /\ session = "hit" => outputs[position] = key
      /\ stage = "check" => /\ outputs[position] \in Versions
                            /\ key <= outputs[position] /\ outputs[position] <= v
      /\ stage = "save" => outputs[position] = key

CacheInv == Data /\ Honest /\ Session

LEMMA VersionFacts == Versions \subseteq Nat /\ 0 \in Versions /\ Tasks \subseteq Nat
BY CountAssumption DEF Versions, Tasks

LEMMA VersionReflexive == \A v \in Versions : v <= v
<1>1. \A n \in Nat : n <= n
  OBVIOUS
<1>. QED
  BY <1>1, VersionFacts

LEMMA PositionInPlan == ASSUME NEW s, CacheInv, At(s) PROVE position \in Tasks
BY CountAssumption DEF At, CacheInv, Data, Tasks

LEMMA CacheInit == ASSUME "reverting" \notin EditKinds, Init PROVE CacheInv
<1>1. Data
  BY VersionFacts, CandidateFacts DEF Init, Data
<1>2. Honest
  BY DEF Init, Honest, StoreIsHonest
<1>3. Session
  BY DEF Init, Session
<1>. QED
  BY <1>1, <1>2, <1>3 DEF CacheInv

LEMMA WorkerKeeps == ASSUME NEW w \in Workers, CacheInv, Worker(w) PROVE CacheInv'
<1>1. UNCHANGED <<editing, runVars, inputs, outputs, store>>
  BY DEF Worker, Claim, PrepareKey, Download
<1>2. /\ next' \in Nat \ {0}
      /\ at' \in [Workers -> 0 .. Len(Candidates)]
      /\ workerKey' \in [Workers -> Versions \cup {Nothing}]
  <2>0. /\ at \in [Workers -> 0 .. Len(Candidates)] /\ workerKey \in [Workers -> Versions \cup {Nothing}]
        /\ inputs \in [Tasks -> Versions] /\ next \in Nat \ {0}
    BY DEF CacheInv, Data
  <2>1. CASE Claim(w)
    <3>1. CASE next <= Len(Candidates) /\ at' = [at EXCEPT ![w] = next] /\ workerKey' = workerKey
      <4>1. next \in 0 .. Len(Candidates)
        BY <2>0, <3>1, CandidateFacts
      <4>. QED
        BY <2>0, <2>1, <3>1, <4>1 DEF Claim
    <3>2. CASE at' = at /\ workerKey' = workerKey
      BY <2>0, <2>1, <3>2 DEF Claim
    <3>. QED
      BY <2>1, <3>1, <3>2 DEF Claim
  <2>2. CASE PrepareKey(w)
    <3>1. at[w] \in DOMAIN Candidates
      BY <2>0, <2>2, CandidateFacts DEF PrepareKey
    <3>2. inputs[Candidates[at[w]]] \in Versions
      BY <2>0, <3>1, CandidateFacts
    <3>. QED
      BY <2>0, <2>2, <3>2, CandidateFacts DEF PrepareKey
  <2>3. CASE Download(w)
    BY <2>0, <2>3, CandidateFacts DEF Download
  <2>. QED
    BY <2>1, <2>2, <2>3 DEF Worker
<1>3. Data'
  BY <1>1, <1>2 DEF CacheInv, Data, runVars
<1>4. Session'
  BY <1>1 DEF CacheInv, Session, runVars
<1>5. Honest'
  <2>1. StoreIsHonest'
    BY <1>1 DEF CacheInv, Honest, StoreIsHonest
  <2>2. CASE prefetched' = prefetched
    BY <2>1, <2>2 DEF CacheInv, Honest
  <2>3. CASE Download(w)
    <3>. DEFINE t == Candidates[at[w]]
                v == workerKey[w]
    <3>1. t \in Tasks /\ v \in Versions
      BY <2>3, CandidateFacts DEF Download, CacheInv, Data
    <3>2. PICK a \in {store[t][v], Failed} :
            prefetched' = [u \in DOMAIN prefetched \cup {t} |->
                             IF u = t THEN [key |-> v, archive |-> a] ELSE prefetched[u]]
      BY <2>3 DEF Download
    <3>3. a \in {Nothing, Corrupt, Failed, v}
      BY <3>1 DEF CacheInv, Honest, StoreIsHonest
    <3>. HIDE DEF t, v
    <3>4. ASSUME NEW u \in DOMAIN prefetched'
          PROVE  prefetched'[u].archive \in {Nothing, Corrupt, Failed, prefetched'[u].key}
      BY <3>2, <3>3 DEF CacheInv, Honest
    <3>. QED
      BY <2>1, <3>4 DEF Honest
  <2>. QED
    BY <2>2, <2>3 DEF Worker, Claim, PrepareKey
<1>. QED
  BY <1>3, <1>4, <1>5 DEF CacheInv

LEMMA RestoreKeeps == CacheInv /\ Restore => CacheInv'
<1>. SUFFICES ASSUME CacheInv, Restore PROVE CacheInv'
  OBVIOUS
<1>1. /\ stage = "restore" /\ stage' = "execute" /\ position \in Tasks
      /\ prefetched' = [t \in DOMAIN prefetched \ {position} |-> prefetched[t]]
      /\ UNCHANGED <<editing, phase, workerVars, position, key, inputs, store>>
  BY DEF Restore, At, CacheInv, Data
<1>2. PICK a :
        /\ IF Usable THEN a = prefetched[position].archive ELSE a \in {store[position][key], Failed}
        /\ \/ session' \in {"miss", "error"}
           \/ session' = "hit" /\ a \in Versions /\ outputs' = [outputs EXCEPT ![position] = a]
        /\ \/ outputs' = outputs
           \/ \E b : outputs' = [outputs EXCEPT ![position] = b]
  BY RestoreOutcome
<1>3. a \in {Nothing, Corrupt, Failed, key}
  <2>1. key \in Versions
    BY DEF CacheInv, Data
  <2>2. CASE Usable
    BY <1>2, <2>2 DEF Usable, CacheInv, Honest
  <2>3. CASE ~ Usable
    BY <1>1, <1>2, <2>1, <2>3 DEF CacheInv, Honest, StoreIsHonest
  <2>. QED
    BY <2>2, <2>3
<1>4. DOMAIN outputs' = Tasks
  BY <1>2 DEF CacheInv, Data
<1>5. Data'
  BY <1>1, <1>4 DEF CacheInv, Data, workerVars
<1>6. Honest'
  BY <1>1 DEF CacheInv, Honest, StoreIsHonest
<1>7. session' = "hit" => outputs'[position] = key
  BY <1>1, <1>2, <1>3, MarksAssumption DEF CacheInv, Data
<1>8. Session'
  BY <1>1, <1>7 DEF CacheInv, Session
<1>. QED
  BY <1>5, <1>6, <1>8 DEF CacheInv

LEMMA ExecuteKeeps == CacheInv /\ Execute => CacheInv'
<1>. SUFFICES ASSUME CacheInv, Execute PROVE CacheInv'
  OBVIOUS
<1>1. /\ stage = "execute" /\ position \in Tasks
      /\ outputs' = [outputs EXCEPT ![position] = inputs[position]]
      /\ \/ session = "none" /\ position' = position + 1 /\ stage' = "prepare"
         \/ session # "none" /\ stage' = "check" /\ position' = position
      /\ UNCHANGED <<editing, phase, workerVars, prefetched, key, session, store>>
  BY DEF Execute, At, NextTask, CacheInv, Data
<1>2. PICK S \in SUBSET {t \in Tasks : t > position /\ inputs[t] < MaxVersion} :
        inputs' = [t \in Tasks |-> IF t \in S THEN inputs[t] + 1 ELSE inputs[t]]
  BY DEF Execute
<1>3. inputs[position] \in Versions /\ inputs'[position] = inputs[position]
  BY <1>1, <1>2, VersionFacts DEF CacheInv, Data
<1>4. inputs' \in [Tasks -> Versions]
  <2>1. \A t \in S : t \in Tasks /\ inputs[t] + 1 \in Versions
    BY <1>2, CountAssumption DEF CacheInv, Data, Versions
  <2>. QED
    BY <1>2, <2>1 DEF CacheInv, Data
<1>5. Data'
  <2>1. DOMAIN outputs' = Tasks /\ UNCHANGED <<next, at, workerKey>>
    BY <1>1 DEF CacheInv, Data, workerVars
  <2>2. position' \in Nat \ {0} /\ (stage' # "prepare" => position' \in Tasks)
    BY <1>1 DEF CacheInv, Data
  <2>. QED
    BY <1>1, <1>4, <2>1, <2>2 DEF CacheInv, Data
<1>6. Honest'
  BY <1>1 DEF CacheInv, Honest, StoreIsHonest
<1>7. outputs'[position] = inputs[position]
  BY <1>1 DEF CacheInv, Data
<1>8. Session'
  <2>1. CASE stage' = "prepare"
    BY <2>1 DEF Session
  <2>2. CASE stage' = "check"
    <3>1. key <= inputs[position] /\ position' = position /\ key' = key
      BY <1>1, <2>2 DEF CacheInv, Session
    <3>2. /\ outputs'[position'] = inputs[position] /\ inputs'[position'] = inputs[position]
          /\ inputs[position] \in Versions /\ inputs[position] <= inputs[position]
      BY <1>3, <1>7, <3>1, VersionReflexive
    <3>. QED
      BY <2>2, <3>1, <3>2 DEF Session
  <2>. QED
    BY <1>1, <2>1, <2>2
<1>. QED
  BY <1>5, <1>6, <1>8 DEF CacheInv

(***************************************************************************)
(* The check finds the version of the key, so nothing changed in between.  *)
(***************************************************************************)
LEMMA CheckKeyKeeps == CacheInv /\ CheckKey => CacheInv'
<1>. SUFFICES ASSUME CacheInv, CheckKey PROVE CacheInv'
  OBVIOUS
<1>1. /\ stage = "check" /\ position \in Tasks
      /\ \/ inputs[position] = key /\ stage' = "save" /\ position' = position
         \/ position' = position + 1 /\ stage' = "prepare"
      /\ UNCHANGED <<editing, phase, workerVars, prefetched, key, session, inputs, outputs, store>>
  BY DEF CheckKey, At, NextTask, KeyUnchanged, CacheInv, Data
<1>2. /\ outputs[position] \in Nat /\ key \in Nat
      /\ key <= outputs[position] /\ outputs[position] <= inputs[position]
  BY <1>1, VersionFacts DEF CacheInv, Data, Session
<1>3. Data'
  BY <1>1, VersionFacts DEF CacheInv, Data, workerVars
<1>4. Honest'
  BY <1>1 DEF CacheInv, Honest, StoreIsHonest
<1>5. Session'
  BY <1>1, <1>2 DEF CacheInv, Session
<1>. QED
  BY <1>3, <1>4, <1>5 DEF CacheInv

LEMMA SaveKeeps == CacheInv /\ Save => CacheInv'
<1>. SUFFICES ASSUME CacheInv, Save PROVE CacheInv'
  OBVIOUS
<1>1. /\ stage = "save" /\ position \in Tasks
      /\ \/ store' = [store EXCEPT ![position][key] = outputs[position]]
         \/ store' = store
      /\ position' = position + 1 /\ stage' = "prepare"
      /\ UNCHANGED <<editing, phase, workerVars, prefetched, key, session, inputs, outputs>>
  BY DEF Save, At, NextTask, CacheInv, Data
<1>2. outputs[position] = key /\ key \in Versions
  BY <1>1 DEF CacheInv, Data, Session
<1>3. Data' /\ Honest'
  <2>1. store' \in [Tasks -> [Versions -> Versions \cup {Nothing, Corrupt}]] /\ StoreIsHonest'
    <3>1. CASE store' = store
      BY <3>1 DEF CacheInv, Data, Honest, StoreIsHonest
    <3>2. CASE store' = [store EXCEPT ![position][key] = key]
      BY <1>1, <1>2, <3>2 DEF CacheInv, Data, Honest, StoreIsHonest
    <3>. QED
      BY <1>1, <1>2, <3>1, <3>2
  <2>. QED
    BY <1>1, <2>1, VersionFacts DEF CacheInv, Data, Honest, workerVars
<1>4. Session'
  BY <1>1 DEF Session
<1>. QED
  BY <1>3, <1>4 DEF CacheInv

LEMMA OthersKeep == CacheInv /\ Others => CacheInv'
<1>. SUFFICES ASSUME CacheInv, Others PROVE CacheInv'
  OBVIOUS
<1>1. UNCHANGED <<editing, phase, workerVars, prefetched, runVars, outputs>>
  BY DEF Others, Edit, OtherRun, Damage
<1>2. /\ inputs' \in [Tasks -> Versions] /\ \A t \in Tasks : inputs[t] <= inputs'[t]
      /\ editing = "none" => inputs' = inputs
  <2>1. CASE Edit
    <3>1. PICK t \in Tasks, v \in Versions : v > inputs[t] /\ inputs' = [inputs EXCEPT ![t] = v]
      BY <2>1 DEF Edit, CacheInv, Data
    <3>2. inputs \in [Tasks -> Versions] /\ editing # "none"
      BY <2>1 DEF CacheInv, Data, Edit
    <3>3. inputs' \in [Tasks -> Versions]
      BY <3>1, <3>2
    <3>4. ASSUME NEW u \in Tasks PROVE inputs[u] <= inputs'[u]
      <4>1. inputs[u] \in Nat /\ v \in Nat
        BY <3>2, VersionFacts
      <4>2. inputs'[u] = IF u = t THEN v ELSE inputs[u]
        BY <3>1, <3>2
      <4>. QED
        BY <3>1, <4>1, <4>2
    <3>. QED
      BY <3>2, <3>3, <3>4
  <2>2. CASE OtherRun \/ Damage
    <3>1. inputs' = inputs /\ inputs \in [Tasks -> Versions]
      BY <2>2 DEF OtherRun, Damage, CacheInv, Data
    <3>2. \A t \in Tasks : inputs[t] \in Nat
      BY <3>1, VersionFacts
    <3>. QED
      BY <3>1, <3>2
  <2>. QED
    BY <2>1, <2>2 DEF Others
<1>3. store' \in [Tasks -> [Versions -> Versions \cup {Nothing, Corrupt}]] /\ StoreIsHonest'
  <2>1. CASE store' = store
    BY <2>1 DEF CacheInv, Data, Honest, StoreIsHonest
  <2>2. ASSUME NEW t \in Tasks, NEW v \in Versions, NEW a \in {v, Corrupt},
               store' = [store EXCEPT ![t][v] = a]
        PROVE  store' \in [Tasks -> [Versions -> Versions \cup {Nothing, Corrupt}]] /\ StoreIsHonest'
    BY <2>2 DEF CacheInv, Data, Honest, StoreIsHonest
  <2>. QED
    BY <2>1, <2>2 DEF Others, Edit, OtherRun, Damage
<1>4. Data' /\ Honest'
  BY <1>1, <1>2, <1>3 DEF CacheInv, Data, Honest, workerVars, runVars
<1>5. Session'
  <2>1. stage = "prepare" \/ position \in Tasks
    BY DEF CacheInv, Data
  <2>2. CASE stage = "prepare"
    BY <1>1, <2>2 DEF Session, runVars
  <2>3. CASE position \in Tasks
    <3>1. /\ inputs[position] \in Nat /\ inputs'[position] \in Nat /\ key \in Nat
          /\ inputs[position] <= inputs'[position]
          /\ editing = "none" => inputs'[position] = inputs[position]
      BY <1>2, <2>3, VersionFacts DEF CacheInv, Data
    <3>2. UNCHANGED <<editing, position, stage, key, session, outputs>>
      BY <1>1 DEF runVars
    <3>3. stage = "restore" \/ (stage = "execute" /\ session # "none") =>
            key <= inputs'[position] /\ (editing = "none" => key = inputs'[position])
      BY <3>1 DEF CacheInv, Session
    <3>4. stage = "check" => /\ outputs[position] \in Versions
                            /\ key <= outputs[position] /\ outputs[position] <= inputs'[position]
      <4>. SUFFICES ASSUME stage = "check"
                    PROVE  /\ outputs[position] \in Versions
                           /\ key <= outputs[position] /\ outputs[position] <= inputs'[position]
        OBVIOUS
      <4>1. /\ outputs[position] \in Versions /\ outputs[position] \in Nat
            /\ key <= outputs[position] /\ outputs[position] <= inputs[position]
        BY VersionFacts DEF CacheInv, Session
      <4>. QED
        BY <3>1, <4>1
    <3>. QED
      BY <3>2, <3>3, <3>4 DEF CacheInv, Session
  <2>. QED
    BY <2>1, <2>2, <2>3
<1>. QED
  BY <1>4, <1>5 DEF CacheInv

LEMMA CacheNext == CacheInv /\ [Next]_vars => CacheInv'
<1>. SUFFICES ASSUME CacheInv, [Next]_vars PROVE CacheInv'
  OBVIOUS
<1>1. CASE EndPrefetch \/ CommandFails \/ EndRun \/ UNCHANGED vars
  <2>1. UNCHANGED <<editing, workerVars, prefetched, runVars, inputs, outputs, store>>
    BY <1>1 DEF EndPrefetch, CommandFails, EndRun, vars
  <2>. QED
    BY <2>1 DEF CacheInv, Data, Honest, StoreIsHonest, Session, workerVars, runVars
<1>2. CASE Prepare
  <2>1. /\ position \in Tasks /\ position' = position
        /\ \/ key' = inputs[position] /\ stage' = "restore" /\ session' = "miss"
           \/ stage' = "execute" /\ session' = "none" /\ key' = key
        /\ UNCHANGED <<editing, phase, workerVars, prefetched, inputs, outputs, store>>
    <3>1. position \in Tasks
      BY <1>2, PositionInPlan DEF Prepare
    <3>. QED
      BY <1>2, <3>1 DEF Prepare
  <2>2. inputs[position] \in Versions
    BY <2>1 DEF CacheInv, Data
  <2>3. Data' /\ Honest'
    BY <2>1, <2>2 DEF CacheInv, Data, Honest, StoreIsHonest, workerVars
  <2>4. Session'
    <3>1. inputs[position] <= inputs[position]
      BY <2>2, VersionReflexive
    <3>2. inputs'[position'] = inputs[position]
      BY <2>1
    <3>3. CASE stage' = "restore" /\ key' = inputs[position] /\ session' = "miss"
      BY <3>1, <3>2, <3>3 DEF Session
    <3>4. CASE stage' = "execute" /\ session' = "none"
      BY <3>4 DEF Session
    <3>. QED
      BY <2>1, <3>3, <3>4
  <2>. QED
    BY <2>3, <2>4 DEF CacheInv
<1>. QED
  BY <1>1, <1>2, WorkerKeeps, RestoreKeeps, ExecuteKeeps, CheckKeyKeeps, SaveKeeps, OthersKeep
     DEF Next, Main, Over

(***************************************************************************)
(* Provided no edit brings an earlier version back, what is stored under a *)
(* key was built from the inputs the key stands for (cache::Session::save).*)
(***************************************************************************)
THEOREM StoredUnderItsKey ==
  ASSUME "reverting" \notin EditKinds
  PROVE  Spec => []StoreIsHonest
<1>1. Init => CacheInv
  BY CacheInit
<1>2. CacheInv => StoreIsHonest
  BY DEF CacheInv, Honest
<1>. QED
  BY <1>1, <1>2, CacheNext, PTL DEF Spec

(***************************************************************************)
(* And then a hit leaves outputs built from the inputs the task has at its *)
(* boundary, however long before the archive was downloaded.               *)
(***************************************************************************)
THEOREM HitsAreCurrent ==
  ASSUME "reverting" \notin EditKinds
  PROVE  Spec => []HitIsCurrent
<1>1. Init => CacheInv
  BY CacheInit
<1>2. CacheInv => HitIsCurrent
  BY DEF CacheInv, Session, HitIsCurrent
<1>. QED
  BY <1>1, <1>2, CacheNext, PTL DEF Spec

=============================================================================
