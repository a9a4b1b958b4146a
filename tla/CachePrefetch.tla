---------------------------- MODULE CachePrefetch ---------------------------
(***************************************************************************)
(* The intermediate-file cache of root tasks: prefetch_root_caches         *)
(* (main.rs) downloads archives in worker threads, then the tasks run in   *)
(* order, each restoring, executing and saving (execute_root_plan and      *)
(* cache::Session).  Meanwhile an editor may change files, the commands    *)
(* change each other's inputs, and runs elsewhere use the same store.      *)
(*                                                                         *)
(* A task's inputs are a version: what prepare hashes.  A key is a task    *)
(* and a version.  What an archive or an output tree holds is the version  *)
(* it was built from.  Every root task here is cached; what the cache      *)
(* flags make of an error is RootRun's.                                    *)
(***************************************************************************)
EXTENDS Naturals, Sequences, FiniteSets, SequencesExt

CONSTANTS
  TaskCount,    \* the root plan is 1 .. TaskCount
  Candidates,   \* the sequence of tasks whose key can be known at the start
  MaxVersion,   \* bounds the changes of a task's inputs
  EditKinds,    \* how files may be edited meanwhile: "none", "forward" or
                \* "reverting", when an edit may bring an earlier version back
  Nothing, Corrupt, Torn, Failed   \* no archive, a damaged one, an output
                                   \* tree replaced in part, a failed download

Tasks    == 1 .. TaskCount
Versions == 0 .. MaxVersion
Workers  == 1 .. (IF Len(Candidates) < 4 THEN Len(Candidates) ELSE 4)

ASSUME CountAssumption     == TaskCount \in Nat /\ MaxVersion \in Nat
ASSUME CandidateAssumption == Candidates \in Seq(Tasks) /\ IsInjective(Candidates)
ASSUME EditAssumption      == EditKinds \subseteq {"none", "forward", "reverting"}
ASSUME MarksAssumption     == {Nothing, Corrupt, Torn, Failed} \cap Versions = {}

VARIABLES
  editing,    \* how files are edited in this run
  phase,      \* "prefetch", "run" or "over"
  next,       \* the shared counter of the workers
  at,         \* the candidate a worker is at, 0 between two
  workerKey,  \* the version it prepared, Nothing before
  left,       \* the workers that have returned
  tried,      \* the candidates claimed by a worker
  prefetched, \* key and archive, for the tasks received
  position,   \* the task at hand
  stage,      \* "prepare", "restore", "execute", "check" or "save"
  key,        \* its session's version
  session,    \* "none", "miss", "hit", "error" or "mismatch"
  inputs, outputs,   \* the workspace, by task
  store              \* the archive under each key

workerVars == <<next, at, workerKey, left, tried>>
runVars    == <<position, stage, key, session>>
vars       == <<editing, phase, workerVars, prefetched, runVars, inputs, outputs, store>>

-----------------------------------------------------------------------------

Init ==
  /\ editing \in EditKinds
  /\ phase = IF Candidates = <<>> THEN "run" ELSE "prefetch"
  /\ next = 1 /\ left = {} /\ tried = {}
  /\ at = [w \in Workers |-> 0]
  /\ workerKey = [w \in Workers |-> Nothing]
  /\ prefetched = <<>>
  /\ position = 1 /\ stage = "prepare" /\ key = 0 /\ session = "none"
  /\ inputs = [t \in Tasks |-> 0]
  /\ outputs = [t \in Tasks |-> Nothing]
  /\ store = [t \in Tasks |-> [v \in Versions |-> Nothing]]

(***************************************************************************)
(* A worker takes the next candidate (fetch_add), or returns.              *)
(***************************************************************************)
Claim(w) ==
  /\ phase = "prefetch" /\ w \notin left /\ at[w] = 0
  /\ next' = next + 1
  /\ IF next <= Len(Candidates)
     THEN /\ at' = [at EXCEPT ![w] = next]
          /\ tried' = tried \cup {Candidates[next]}
          /\ UNCHANGED left
     ELSE left' = left \cup {w} /\ UNCHANGED <<at, tried>>
  /\ UNCHANGED <<editing, phase, workerKey, prefetched, runVars, inputs, outputs, store>>

(***************************************************************************)
(* Session::prepare in a worker; a candidate that cannot be prepared is    *)
(* left for the task boundary.                                             *)
(***************************************************************************)
PrepareKey(w) ==
  /\ at[w] # 0 /\ workerKey[w] = Nothing
  /\ \/ workerKey' = [workerKey EXCEPT ![w] = inputs[Candidates[at[w]]]] /\ UNCHANGED at
     \/ at' = [at EXCEPT ![w] = 0] /\ UNCHANGED workerKey
  /\ UNCHANGED <<editing, phase, next, left, tried, prefetched, runVars, inputs, outputs, store>>

(***************************************************************************)
(* Session::prefetch, and the send of its result.                          *)
(***************************************************************************)
Download(w) ==
  /\ at[w] # 0 /\ workerKey[w] # Nothing
  /\ LET t == Candidates[at[w]]
     IN  \E a \in {store[t][workerKey[w]], Failed} :
           prefetched' = [u \in DOMAIN prefetched \cup {t} |->
                            IF u = t THEN [key |-> workerKey[w], archive |-> a]
                            ELSE prefetched[u]]
  /\ at' = [at EXCEPT ![w] = 0]
  /\ workerKey' = [workerKey EXCEPT ![w] = Nothing]
  /\ UNCHANGED <<editing, phase, next, left, tried, runVars, inputs, outputs, store>>

\* Faulty: a result is expected of every candidate.
EndPrefetchComplete ==
  /\ phase = "prefetch" /\ left = Workers
  /\ DOMAIN prefetched = ToSet(Candidates)
  /\ phase' = "run"
  /\ UNCHANGED <<editing, workerVars, prefetched, runVars, inputs, outputs, store>>

(***************************************************************************)
(* The thread scope ends when every worker has returned.                   *)
(***************************************************************************)
EndPrefetch ==
  /\ phase = "prefetch" /\ left = Workers
  /\ phase' = "run"
  /\ UNCHANGED <<editing, workerVars, prefetched, runVars, inputs, outputs, store>>

-----------------------------------------------------------------------------

At(s) == phase = "run" /\ position <= TaskCount /\ stage = s

NextTask == position' = position + 1 /\ stage' = "prepare"

\* Faulty: the key of the prefetch is not computed again.
PrepareOnce ==
  /\ At("prepare")
  /\ \/ /\ key' = IF position \in DOMAIN prefetched THEN prefetched[position].key
                  ELSE inputs[position]
        /\ stage' = "restore" /\ session' = "miss"
     \/ stage' = "execute" /\ session' = "none" /\ UNCHANGED key
  /\ UNCHANGED <<editing, phase, workerVars, prefetched, position, inputs, outputs, store>>

Prepare ==
  /\ At("prepare")
  /\ \/ key' = inputs[position] /\ stage' = "restore" /\ session' = "miss"
     \/ stage' = "execute" /\ session' = "none" /\ UNCHANGED key
  /\ UNCHANGED <<editing, phase, workerVars, prefetched, position, inputs, outputs, store>>

\* Faulty: whatever was fetched is used.
UsableAnyKey == position \in DOMAIN prefetched

(***************************************************************************)
(* The prefetched archive is used only under the key it was fetched for.   *)
(***************************************************************************)
Usable == position \in DOMAIN prefetched /\ prefetched[position].key = key

(***************************************************************************)
(* restore_prefetched: an archive is unpacked aside and verified (its own  *)
(* key, its checksums) before the output paths are replaced, one after     *)
(* the other.                                                              *)
(***************************************************************************)
Restore ==
  /\ At("restore")
  /\ \E p \in IF Usable THEN {prefetched[position]}
              ELSE [key : {key}, archive : {store[position][key], Failed}] :
       \/ /\ p.archive = Nothing
          /\ session' = "miss" /\ UNCHANGED outputs
       \/ /\ p.archive \in {Failed, Corrupt}
          /\ session' = "error" /\ UNCHANGED outputs
       \/ /\ p.archive \in Versions /\ p.key # key
          /\ session' = "mismatch" /\ UNCHANGED outputs
       \/ /\ p.archive \in Versions /\ p.key = key
          /\ \/ session' = "hit" /\ outputs' = [outputs EXCEPT ![position] = p.archive]
             \/ session' = "error" /\ outputs' = [outputs EXCEPT ![position] = Torn]
  /\ prefetched' = [t \in DOMAIN prefetched \ {position} |-> prefetched[t]]
  /\ stage' = "execute"
  /\ UNCHANGED <<editing, phase, workerVars, position, key, inputs, store>>

(***************************************************************************)
(* The commands run whatever was restored, and bring the outputs up to the *)
(* inputs they read.  They may change the inputs of later tasks.           *)
(***************************************************************************)
Execute ==
  /\ At("execute")
  /\ outputs' = [outputs EXCEPT ![position] = inputs[position]]
  /\ \E S \in SUBSET {t \in Tasks : t > position /\ inputs[t] < MaxVersion} :
       inputs' = [t \in Tasks |-> IF t \in S THEN inputs[t] + 1 ELSE inputs[t]]
  /\ IF session = "none" THEN NextTask ELSE stage' = "check" /\ UNCHANGED position
  /\ UNCHANGED <<editing, phase, workerVars, prefetched, key, session, store>>

CommandFails ==
  /\ At("execute")
  /\ phase' = "over"
  /\ UNCHANGED <<editing, workerVars, prefetched, runVars, inputs, outputs, store>>

\* Faulty: the key is not compared with a new one.
KeyPrepared == session # "none"

(***************************************************************************)
(* save: the key is computed again, and only then the outputs are packed   *)
(* and uploaded.  Either part may fail; the run goes on.                   *)
(***************************************************************************)
KeyUnchanged == inputs[position] = key

CheckKey ==
  /\ At("check")
  /\ \/ KeyUnchanged /\ stage' = "save" /\ UNCHANGED position
     \/ NextTask
  /\ UNCHANGED <<editing, phase, workerVars, prefetched, key, session, inputs, outputs, store>>

Save ==
  /\ At("save")
  /\ \/ store' = [store EXCEPT ![position][key] = outputs[position]]
     \/ UNCHANGED store
  /\ NextTask
  /\ UNCHANGED <<editing, phase, workerVars, prefetched, key, session, inputs, outputs>>

EndRun ==
  /\ phase = "run" /\ position > TaskCount
  /\ phase' = "over"
  /\ UNCHANGED <<editing, workerVars, prefetched, runVars, inputs, outputs, store>>

-----------------------------------------------------------------------------

Edit ==
  /\ editing # "none" /\ phase # "over"
  /\ \E t \in Tasks, v \in Versions :
       /\ v > inputs[t] \/ (editing = "reverting" /\ v # inputs[t])
       /\ inputs' = [inputs EXCEPT ![t] = v]
  /\ UNCHANGED <<editing, phase, workerVars, prefetched, runVars, outputs, store>>

(***************************************************************************)
(* A run elsewhere saves what it built from a version under its key; an    *)
(* archive may be damaged.                                                 *)
(***************************************************************************)
OtherRun ==
  /\ phase # "over"
  /\ \E t \in Tasks, v \in Versions :
       /\ store[t][v] # v
       /\ store' = [store EXCEPT ![t][v] = v]
  /\ UNCHANGED <<editing, phase, workerVars, prefetched, runVars, inputs, outputs>>

Damage ==
  /\ phase # "over"
  /\ \E t \in Tasks, v \in Versions :
       /\ store[t][v] \in Versions
       /\ store' = [store EXCEPT ![t][v] = Corrupt]
  /\ UNCHANGED <<editing, phase, workerVars, prefetched, runVars, inputs, outputs>>

Worker(w) == Claim(w) \/ PrepareKey(w) \/ Download(w)

Main ==
  \/ EndPrefetch
  \/ Prepare \/ Restore \/ Execute \/ CommandFails \/ CheckKey \/ Save
  \/ EndRun

Others == Edit \/ OtherRun \/ Damage

Over == phase = "over" /\ UNCHANGED vars

Next == (\E w \in Workers : Worker(w)) \/ Main \/ Others \/ Over

Spec     == Init /\ [][Next]_vars
FairSpec == Spec /\ WF_vars(Main) /\ \A w \in Workers : WF_vars(Worker(w))

-----------------------------------------------------------------------------

TypeOK ==
  /\ editing \in EditKinds
  /\ phase \in {"prefetch", "run", "over"}
  /\ next \in 1 .. Len(Candidates) + Cardinality(Workers) + 1
  /\ at \in [Workers -> 0 .. Len(Candidates)]
  /\ workerKey \in [Workers -> Versions \cup {Nothing}]
  /\ \A w \in Workers : at[w] = 0 => workerKey[w] = Nothing
  /\ left \subseteq Workers /\ tried \subseteq Tasks
  /\ \A t \in DOMAIN prefetched :
       prefetched[t] \in [key : Versions, archive : Versions \cup {Nothing, Corrupt, Failed}]
  /\ position \in 1 .. TaskCount + 1
  /\ stage \in {"prepare", "restore", "execute", "check", "save"}
  /\ session \in {"none", "miss", "hit", "error", "mismatch"}
  /\ inputs \in [Tasks -> Versions]
  /\ outputs \in [Tasks -> Versions \cup {Nothing, Torn}]
  /\ store \in [Tasks -> [Versions -> Versions \cup {Nothing, Corrupt}]]

(***************************************************************************)
(* "inputs are checked again before saving so a concurrent edit cannot     *)
(* publish outputs under an obsolete key" (README.md:377): what is stored  *)
(* under a key was built from the inputs the key stands for.               *)
(***************************************************************************)
StoreIsHonest ==
  \A t \in Tasks, v \in Versions : store[t][v] \in {Nothing, Corrupt, v}

(***************************************************************************)
(* What a hit leaves in the workspace was built from the inputs the task   *)
(* has at its boundary, however long before it was downloaded: "A          *)
(* prerequisite changing an input invalidates the prefetched entry"        *)
(* (README.md:406).                                                        *)
(***************************************************************************)
HitIsCurrent ==
  phase = "run" /\ stage = "execute" /\ session = "hit" =>
    /\ outputs[position] = key
    /\ editing = "none" => key = inputs[position]

(***************************************************************************)
(* A prefetched archive that has become stale is a reason to download      *)
(* again, never an error: with --cache-required an error ends the run.     *)
(***************************************************************************)
StaleIsNoError == session # "mismatch"

(***************************************************************************)
(* Every candidate is taken by exactly one worker, and by the time the     *)
(* first task runs no worker is at work.                                   *)
(***************************************************************************)
CandidatesShared ==
  /\ \A v, w \in Workers : at[v] = at[w] /\ at[v] # 0 => v = w
  /\ phase # "prefetch" => tried = ToSet(Candidates) /\ \A w \in Workers : at[w] = 0

(***************************************************************************)
(* The prefetch and the run end, whatever is edited or stored meanwhile.   *)
(***************************************************************************)
RunEnds == <>(phase = "over")

=============================================================================
