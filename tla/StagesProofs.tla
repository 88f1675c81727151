---------------------------- MODULE StagesProofs ----------------------------
(***************************************************************************)
(* Theorems about the stages of the backend, beside its records, for any   *)
(* numbers of clients, stages, records, names and workers.                 *)
(*                                                                         *)
(* Stages are readers beside the records, so RecordsProofs gives what the  *)
(* steps of records keep.  What a template needs rests on where its calls  *)
(* are: a call that may stage reads all of the template itself, from its   *)
(* submission to the end of its workflow.                                  *)
(***************************************************************************)
EXTENDS Stages, PromiseProofs

StageTypes ==
    /\ stages \in [Client -> SUBSET Stage]
    /\ fixed \in [Stage -> SUBSET Value]
    /\ keeps \in [Stage -> SUBSET Value]
    /\ staged \in [Stage -> {"unknown", "open", "staged", "failed"}]
    /\ staging \in [Stage -> SUBSET Record]
    /\ through \in [Stage -> SUBSET Record]

\* A stage that is not open yet is nowhere, and a template references values of
\* records there are; the stage keeps no more than these.
Opened ==
    /\ \A s \in Stage :
        /\ staged[s] = "unknown" => keeps[s] = {} /\ through[s] = {}
        /\ fixed[s] \subseteq Existing \X Name
        /\ keeps[s] \subseteq fixed[s]
        /\ through[s] \subseteq Existing
    /\ \A c \in Client : \A s \in stages[c] : staged[s] # "unknown"

\* Until a stage has staged, its calls read the template themselves.
CallsRead ==
    \A s \in Stage : \A r \in through[s] : staged[s] = "open" =>
        /\ Pending(r) /\ at[r] = "idle" => fixed[s] \subseteq unread[r]
        /\ at[r] = "computing" => fixed[s] \subseteq held[r]

\* Who makes the callable is a call of the stage, alone at it, whose workflow runs.
Making ==
    \A s \in Stage : \A r \in staging[s] :
        /\ staging[s] = {r}
        /\ r \in through[s]
        /\ at[r] = "computing"
        /\ staged[s] = "open"

Templates == StageTypes /\ Opened /\ CallsRead /\ Making

\* The invariant of the records, with stages as the others who read.
Keepers(v) == {s \in Stage : v \in keeps[s]}
KeptThere ==
    \A s \in Stage : \A v \in keeps[s] :
        status[v[1]] = "completed" => v \in memory \cup store \/ v[2] \in omitted[v[1]]
RecordsInv ==
    /\ Types /\ Fresh /\ Places /\ Waits /\ Scheduled
    /\ Written /\ Kept /\ StagesCounted /\ Served /\ KeptThere

StagesInv == RecordsInv /\ Templates

-----------------------------------------------------------------------------
(* Counting the stages that keep a value *)

LEMMA KeepersCounted ==
  \A v : /\ IsFiniteSet(Keepers(v)) /\ Cardinality(Keepers(v)) \in Nat
         /\ Cardinality(Keepers(v)) = 0 <=> Keepers(v) = {}
  <1> SUFFICES ASSUME NEW v
               PROVE  /\ IsFiniteSet(Keepers(v)) /\ Cardinality(Keepers(v)) \in Nat
                      /\ Cardinality(Keepers(v)) = 0 <=> Keepers(v) = {}
    OBVIOUS
  <1>1. Keepers(v) \subseteq Stage
    BY DEF Keepers
  <1>2. IsFiniteSet(Keepers(v))
    BY <1>1, StagesAssumption, FS_Subset
  <1> QED
    BY <1>2, FS_CardinalityType, FS_EmptySet

LEMMA KeepersCountedNext ==
  \A v : /\ IsFiniteSet(Keepers(v)') /\ Cardinality(Keepers(v)') \in Nat
         /\ Cardinality(Keepers(v)') = 0 <=> Keepers(v)' = {}
  <1> SUFFICES ASSUME NEW v
               PROVE  /\ IsFiniteSet(Keepers(v)') /\ Cardinality(Keepers(v)') \in Nat
                      /\ Cardinality(Keepers(v)') = 0 <=> Keepers(v)' = {}
    OBVIOUS
  <1>1. Keepers(v)' \subseteq Stage
    BY DEF Keepers
  <1>2. IsFiniteSet(Keepers(v)')
    BY <1>1, StagesAssumption, FS_Subset
  <1> QED
    BY <1>2, FS_CardinalityType, FS_EmptySet

\* Stages are others who read, as RecordsProofs has them.
LEMMA StagesBeside ==
  ASSUME NEW others \in [Value -> Nat], keeps \in [Stage -> SUBSET Value],
         \A v \in Value : others[v] = Cardinality(Keepers(v))
  PROVE  RecordsInv <=> InvBeside(others)
  <1>1. StagesCounted <=> CountedBeside(others)
    BY DEF StagesCounted, CountedBeside, Keepers
  <1>2. \A v \in Value : others[v] # 0 <=> \E s \in Stage : v \in keeps[s]
    BY KeepersCounted DEF Keepers
  <1>3. KeptThere <=> ServedBeside(others)
    BY <1>2 DEF KeptThere, ServedBeside
  <1> QED
    BY <1>1, <1>3 DEF RecordsInv, InvBeside

LEMMA StagesBesideNext ==
  ASSUME NEW others \in [Value -> Nat], keeps' \in [Stage -> SUBSET Value],
         \A v \in Value : others[v] = Cardinality(Keepers(v)'), InvBeside(others)'
  PROVE  RecordsInv'
  <1>1. StagesCounted'
    BY DEF InvBeside, StagesCounted, CountedBeside, Keepers
  <1>2. \A v \in Value : others[v] # 0 <=> \E s \in Stage : v \in keeps'[s]
    BY KeepersCountedNext DEF Keepers
  <1>3. KeptThere'
    BY <1>2 DEF InvBeside, KeptThere, ServedBeside
  <1> QED
    BY <1>1, <1>3 DEF RecordsInv, InvBeside

\* What stages let go of, the counter lets go of.
LEMMA LettingGoOfTemplates ==
  ASSUME RecordsInv, StageTypes, NEW ss \in SUBSET Stage, LetGoOfTemplates(ss)
  PROVE  /\ keeps' \in [Stage -> SUBSET Value] /\ readers' \in [Value -> Int]
         /\ \A s \in Stage : keeps'[s] = IF s \in ss THEN {} ELSE keeps[s]
         /\ \A v \in Value :
               readers'[v] = readers[v] + Cardinality(Keepers(v)') - Cardinality(Keepers(v))
  <1>1. \A v \in Value : readers[v] \in Int
    BY DEF RecordsInv, Types
  <1>2. keeps' \in [Stage -> SUBSET Value] /\ \A s \in Stage : keeps'[s] = IF s \in ss THEN {} ELSE keeps[s]
    BY DEF LetGoOfTemplates, StageTypes
  <1>3. ASSUME NEW v \in Value
        PROVE  /\ readers'[v] \in Int
               /\ readers'[v] = readers[v] + Cardinality(Keepers(v)') - Cardinality(Keepers(v))
    <2> DEFINE K == Keepers(v)
               G == LettingGo(ss, v)
    <2>1. G = {s \in K : s \in ss} /\ Keepers(v)' = K \ G
      BY <1>2 DEF LettingGo, Keepers
    <2>2. readers'[v] = readers[v] - Cardinality(G)
      BY DEF LetGoOfTemplates
    <2>3. IsFiniteSet(K) /\ Cardinality(K) \in Nat
      BY KeepersCounted
    <2> HIDE DEF K, G
    <2>4. IsFiniteSet(G) /\ Cardinality(G) \in Nat /\ K \cap G = G
      BY <2>1, <2>3, FS_Subset, FS_CardinalityType
    <2>5. Cardinality(K \ G) = Cardinality(K) - Cardinality(G)
      BY <2>3, <2>4, FS_Difference
    <2>6. readers[v] \in Int
      BY <1>1
    <2>7. Cardinality(Keepers(v)') = Cardinality(K) - Cardinality(G)
      BY <2>1, <2>5
    <2>8. Cardinality(Keepers(v)) = Cardinality(K)
      BY DEF K
    <2> QED
      BY ONLY <2>2, <2>3, <2>4, <2>6, <2>7, <2>8
  <1> QED
    BY <1>2, <1>3 DEF LetGoOfTemplates

\* Steps of stages alone: what they read changes with the counter, and records
\* stay as they are.
LEMMA ReadersOfStages ==
  ASSUME RecordsInv, UNCHANGED <<history, unread, held, values, running, todo>>,
         clients' \subseteq clients, kept' \in [Client -> SUBSET Record],
         \A c \in clients' : kept'[c] \subseteq kept[c],
         drops' \subseteq Record, readers' \in [Value -> Int],
         \A v \in Value :
            readers'[v] = readers[v] + Cardinality(Keepers(v)') - Cardinality(Keepers(v)),
         KeptThere'
  PROVE  RecordsInv'
  <1> USE DEF history, values, running
  <1>1. Types'
    BY DEF RecordsInv, Types
  <1>2. Fresh' /\ Places' /\ Waits' /\ Scheduled' /\ Written' /\ Served'
    BY DEF RecordsInv, Fresh, Places, Waits, Scheduled, Written, Served
  <1>3. Kept'
    BY DEF RecordsInv, Kept
  <1>4. StagesCounted'
    <2> SUFFICES ASSUME NEW v \in Value
                 PROVE  readers'[v] = Cardinality(ReadersOf(v)) + Cardinality(Keepers(v)')
      BY DEF StagesCounted, ReadersOf, Keepers
    <2>1. readers[v] = Cardinality(ReadersOf(v)) + Cardinality(Keepers(v))
      BY DEF RecordsInv, StagesCounted, ReadersOf, Keepers
    <2>2. ReadersOf(v) \in SUBSET Record
      BY DEF ReadersOf
    <2>3. Cardinality(ReadersOf(v)) \in Nat /\ Cardinality(Keepers(v)) \in Nat
      BY <2>2, Counting, KeepersCounted
    <2>4. Cardinality(Keepers(v)') \in Nat
      BY KeepersCountedNext
    <2>5. readers'[v] = readers[v] + Cardinality(Keepers(v)') - Cardinality(Keepers(v))
      OBVIOUS
    <2> QED
      BY ONLY <2>1, <2>3, <2>4, <2>5
  <1> QED
    BY <1>1, <1>2, <1>3, <1>4 DEF RecordsInv

-----------------------------------------------------------------------------
(* Steps of records, which leave the stages as they are *)

LEMMA PlainInv ==
  ASSUME RecordsInv, StageTypes, UNCHANGED keeps,
         ASSUME NEW others \in [Value -> Nat], InvBeside(others) PROVE InvBeside(others)'
  PROVE  RecordsInv'
  <1> DEFINE others == [v \in Value |-> Cardinality(Keepers(v))]
  <1>1. PICK o \in [Value -> Nat] : \A v \in Value : o[v] = Cardinality(Keepers(v))
    <2>1. others \in [Value -> Nat] /\ \A v \in Value : others[v] = Cardinality(Keepers(v))
      BY KeepersCounted
    <2> QED
      BY <2>1
  <1>2. InvBeside(o)
    BY <1>1, StagesBeside DEF StageTypes
  <1>3. InvBeside(o)'
    BY <1>2
  <1>4. \A v \in Value : o[v] = Cardinality(Keepers(v)')
    BY <1>1 DEF Keepers
  <1>5. keeps' \in [Stage -> SUBSET Value]
    BY DEF StageTypes
  <1> QED
    BY <1>3, <1>4, <1>5, StagesBesideNext

-----------------------------------------------------------------------------
(* How a step of records moves the calls of stages along *)

\* What is submitted stays submitted; a record reads no more and no less while
\* it has yet to start, takes all of it along when it starts, and ends only
\* once its stages have ended their staging.
Advances ==
    /\ count' >= count
    /\ \A r \in Existing :
        /\ Pending(r)' /\ at'[r] = "idle" =>
              Pending(r) /\ at[r] = "idle" /\ unread'[r] = unread[r]
        /\ at'[r] = "computing" =>
              \/ at[r] = "computing" /\ held'[r] = held[r]
              \/ Pending(r) /\ at[r] = "idle" /\ held'[r] = unread[r]
        /\ at[r] = "computing" =>
              at'[r] = "computing" \/ \A s \in Stage : r \in through[s] => staged[s] # "open"

LEMMA RestAdvances ==
  ASSUME count' >= count, UNCHANGED <<status, at, unread, held>>
  PROVE  Advances
  BY DEF Advances, Pending

LEMMA AcceptAdvances ==
  ASSUME RecordsInv, NEW c, NEW k \in 1..MaxBatch, NEW reads, NEW names,
         Accept(c, k, reads, names)
  PROVE  Advances /\ Existing' = Existing \cup New(k) /\ New(k) \cap Existing = {}
  <1>1. count \in Nat /\ k \in Nat /\ count' = count + k /\ Existing = 1..count
    BY RecordsAssumption DEF RecordsInv, Types, Accept, Existing
  <1>2. Existing' = Existing \cup New(k) /\ New(k) \cap Existing = {} /\ count' >= count
    BY <1>1 DEF Existing, New
  <1>3. \A r \in Existing : r \in Record
    BY RecordsAssumption DEF RecordsInv, Types, Existing, Record
  <1>4. \A r \in Existing : status'[r] = status[r] /\ unread'[r] = unread[r]
    BY <1>2, <1>3 DEF Accept
  <1>5. at' = at /\ held' = held
    BY DEF Accept
  <1> QED
    BY <1>2, <1>4, <1>5 DEF Advances, Pending

LEMMA CascadeAdvances ==
  ASSUME RecordsInv, Cascade
  PROVE  Advances
  <1>0. Types
    BY DEF RecordsInv
  <1>1. CASE \E job \in todo : FinishNext(job[1], job[2])
    <2>1. PICK job \in todo : FinishNext(job[1], job[2])
      BY <1>1
    <2> DEFINE r == job[1]
               how == job[2]
    <2>2. r \in Record /\ how \in {"failed", "cancelled"} /\ count \in Int
      BY <1>0, RecordsAssumption DEF Types
    <2>3. count' = count /\ at' = at /\ held' = held
      BY <2>1 DEF FinishNext
    <2>4. CASE Pending(r)
      <3>1. status' = [status EXCEPT ![r] = how] /\ unread' = [unread EXCEPT ![r] = {}]
        BY <2>1, <2>4 DEF FinishNext
      <3>2. \A x \in Record : Pending(x)' => x # r /\ Pending(x) /\ unread'[x] = unread[x]
        BY <1>0, <2>2, <3>1 DEF Types, Pending
      <3>3. Existing \subseteq Record
        BY <1>0, RecordsAssumption DEF Types, Existing, Record
      <3> QED
        BY <2>2, <2>3, <3>2, <3>3 DEF Advances
    <2>5. CASE ~Pending(r)
      <3>1. status' = status /\ unread' = unread
        BY <2>1, <2>5 DEF FinishNext
      <3> QED
        BY <2>2, <2>3, <3>1, RestAdvances
    <2> QED
      BY <2>4, <2>5
  <1>2. CASE \E r \in drops : DropNext(r)
    <2>1. count \in Int
      BY <1>0, RecordsAssumption DEF Types
    <2>2. count' = count /\ UNCHANGED <<status, at, unread, held>>
      BY <1>2 DEF DropNext, history, keeping, running
    <2> QED
      BY <2>1, <2>2, RestAdvances
  <1> QED
    BY <1>1, <1>2 DEF Cascade

LEMMA WorkerAdvances ==
  ASSUME RecordsInv, NEW r \in Record,
         \/ Start(r)
         \/ MayReturn(r) /\ \E names \in SUBSET Name : Return(r, names)
         \/ MayRaise(r) /\ Raise(r)
         \/ \E n \in Name : Write(r, n)
         \/ WriteFails(r)
         \/ Complete(r)
  PROVE  Advances
  <1>0. Types /\ Places
    BY DEF RecordsInv
  <1>1. count \in Int /\ Existing \subseteq Record
    BY <1>0, RecordsAssumption DEF Types, Existing, Record
  <1>2. CASE Start(r)
    <2>1. count' = count /\ status' = status /\ r \in queued
      BY <1>2 DEF Start, history
    <2>2. CASE Pending(r)
      <3>1. /\ at' = [at EXCEPT ![r] = "computing"]
            /\ held' = [held EXCEPT ![r] = unread[r]]
            /\ unread' = [unread EXCEPT ![r] = {}]
        BY <1>2, <2>2 DEF Start
      <3>2. at[r] = "idle"
        BY <1>0, <2>1 DEF Places
      <3>3. /\ at'[r] = "computing" /\ held'[r] = unread[r]
            /\ \A x \in Record : x # r => at'[x] = at[x] /\ held'[x] = held[x] /\ unread'[x] = unread[x]
        BY <1>0, <3>1 DEF Types
      <3> QED
        BY <1>1, <2>1, <2>2, <3>2, <3>3 DEF Advances, Pending
    <2>3. CASE ~Pending(r)
      <3>1. UNCHANGED <<at, held, unread>>
        BY <1>2, <2>3 DEF Start
      <3> QED
        BY <1>1, <2>1, <3>1, RestAdvances
    <2> QED
      BY <2>2, <2>3
  <1>3. CASE MayReturn(r) /\ \E names \in SUBSET Name : Return(r, names)
    <2>1. /\ count' = count /\ status' = status /\ unread' = unread
          /\ at' = [at EXCEPT ![r] = "writing"] /\ held' = [held EXCEPT ![r] = {}]
      BY <1>3 DEF Return, history
    <2>2. \A s \in Stage : r \in through[s] => staged[s] # "open"
      BY <1>3 DEF MayReturn
    <2>3. at'[r] = "writing" /\ \A x \in Record : x # r => at'[x] = at[x] /\ held'[x] = held[x]
      BY <1>0, <2>1 DEF Types
    <2> QED
      BY <1>1, <2>1, <2>2, <2>3 DEF Advances, Pending
  <1>4. CASE \/ MayRaise(r) /\ Raise(r)
             \/ WriteFails(r)
             \/ Complete(r)
    <2>1. /\ count' = count /\ unread' = unread /\ at[r] # "idle"
          /\ at' = [at EXCEPT ![r] = "idle"]
      BY <1>4 DEF Raise, WriteFails, Complete, keeping
    <2>2. held' = held \/ held' = [held EXCEPT ![r] = {}]
      BY <1>4 DEF Raise, WriteFails, Complete, keeping
    <2>3. \/ Pending(r) /\ \E how \in {"failed", "completed"} : status' = [status EXCEPT ![r] = how]
          \/ ~Pending(r) /\ status' = status
      BY <1>4 DEF Raise, WriteFails, Complete, Fail
    <2>4. ~Pending(r)' /\ \A x \in Record : x # r => Pending(x)' = Pending(x)
      BY <1>0, <2>3 DEF Types, Pending
    <2>5. at[r] = "computing" => \A s \in Stage : r \in through[s] => staged[s] # "open"
      BY <1>4 DEF MayRaise, WriteFails, Complete
    <2>6. at'[r] = "idle" /\ \A x \in Record : x # r => at'[x] = at[x] /\ held'[x] = held[x]
      BY <1>0, <2>1, <2>2 DEF Types
    <2> QED
      BY <1>1, <2>1, <2>4, <2>5, <2>6 DEF Advances
  <1>5. CASE \E n \in Name : Write(r, n)
    <2>1. count' = count /\ UNCHANGED <<status, at, unread, held>>
      BY <1>5 DEF Write, history, keeping
    <2> QED
      BY <1>1, <2>1, RestAdvances
  <1> QED
    BY <1>2, <1>3, <1>4, <1>5

LEMMA TemplatesAdvance ==
  ASSUME RecordsInv, Templates, Advances, count' \in Nat, UNCHANGED stageVars
  PROVE  Templates'
  <1> USE DEF Templates
  <1>1. Existing \subseteq Existing'
    BY RecordsAssumption DEF RecordsInv, Types, Advances, Existing
  <1>2. UNCHANGED <<stages, fixed, keeps, staged, staging, through>>
    BY DEF stageVars
  <1>3. StageTypes'
    BY <1>2 DEF StageTypes
  <1>4. Opened'
    <2>1. \A s \in Stage : fixed[s] \subseteq Existing' \X Name /\ through[s] \subseteq Existing'
      BY <1>1 DEF Opened
    <2> QED
      BY <1>2, <2>1 DEF Opened
  <1>5. CallsRead'
    <2> SUFFICES ASSUME NEW s \in Stage, NEW r \in through[s], staged[s] = "open"
                 PROVE  /\ Pending(r)' /\ at'[r] = "idle" => fixed[s] \subseteq unread'[r]
                        /\ at'[r] = "computing" => fixed[s] \subseteq held'[r]
      BY <1>2 DEF CallsRead, Pending
    <2>1. r \in Existing
      BY DEF Opened
    <2> QED
      BY <2>1 DEF CallsRead, Advances
  <1>6. Making'
    <2> SUFFICES ASSUME NEW s \in Stage, NEW r \in staging[s]
                 PROVE  /\ staging[s] = {r} /\ r \in through[s]
                        /\ at'[r] = "computing" /\ staged[s] = "open"
      BY <1>2 DEF Making
    <2>1. /\ staging[s] = {r} /\ r \in through[s] /\ r \in Existing
          /\ at[r] = "computing" /\ staged[s] = "open"
      BY DEF Making, Opened
    <2> QED
      BY <2>1 DEF Advances
  <1> QED
    BY <1>3, <1>4, <1>5, <1>6

-----------------------------------------------------------------------------
(* Steps of stages *)

\* What a client may read of a completed record is there.
LEMMA ReadableThere ==
  ASSUME RecordsInv, NEW c \in clients, NEW v \in Value, MayRead(c, v),
         status[v[1]] = "completed"
  PROVE  v \in memory \cup store
  <1>1. v[1] \in Record /\ v[2] \in Name /\ v = <<v[1], v[2]>>
    BY DEF Value
  <1> QED
    BY <1>1 DEF RecordsInv, MayRead, Kept, Written

LEMMA OpenStageInv ==
  ASSUME StagesInv, NEW c \in Client, NEW s \in Stage,
         NEW vs \in SUBSET (Existing \X Name), OpenStage(c, s, vs)
  PROVE  StagesInv'
  <1>0. RecordsInv /\ StageTypes /\ Opened /\ CallsRead /\ Making /\ Types
    BY DEF StagesInv, Templates, RecordsInv
  <1>1. /\ UNCHANGED <<history, clients, kept, unread, held, values, running, todo, drops>>
        /\ UNCHANGED <<staging, through>>
        /\ c \in clients /\ staged[s] = "unknown"
        /\ \A v \in vs : MayRead(c, v)
        /\ stages' = [stages EXCEPT ![c] = @ \cup {s}]
        /\ fixed' = [fixed EXCEPT ![s] = vs]
        /\ keeps' = [keeps EXCEPT ![s] = vs]
        /\ readers' = [v \in Value |-> IF v \in vs THEN readers[v] + 1 ELSE readers[v]]
        /\ staged' = [staged EXCEPT ![s] = "open"]
    BY DEF OpenStage, work
  <1>2. Existing \subseteq Record
    BY <1>0, RecordsAssumption DEF Types, Existing, Record
  <1>3. vs \subseteq Value
    BY <1>2 DEF Value
  <1>4. keeps[s] = {} /\ through[s] = {}
    BY <1>0, <1>1 DEF Opened
  <1>5. /\ fixed'[s] = vs /\ keeps'[s] = vs /\ staged'[s] = "open"
        /\ \A z \in Stage : z # s =>
              fixed'[z] = fixed[z] /\ keeps'[z] = keeps[z] /\ staged'[z] = staged[z]
        /\ \A d \in Client : stages'[d] \subseteq stages[d] \cup {s}
    BY <1>0, <1>1 DEF StageTypes
  <1>6. StageTypes'
    BY <1>0, <1>1, <1>3 DEF StageTypes
  <1>7. Opened'
    <2>1. Existing' = Existing
      BY <1>1 DEF history, Existing
    <2>2. \A z \in Stage :
             /\ staged'[z] = "unknown" => keeps'[z] = {} /\ through[z] = {}
             /\ fixed'[z] \subseteq Existing \X Name
             /\ keeps'[z] \subseteq fixed'[z]
             /\ through[z] \subseteq Existing
      BY <1>0, <1>4, <1>5 DEF Opened
    <2>3. \A d \in Client : \A z \in stages'[d] : staged'[z] # "unknown"
      BY <1>0, <1>5 DEF Opened, StageTypes
    <2> QED
      BY <1>1, <2>1, <2>2, <2>3 DEF Opened
  <1>8. CallsRead' /\ Making'
    BY <1>0, <1>1, <1>4, <1>5 DEF CallsRead, Making, Pending, history, running
  <1>9. KeptThere'
    <2> SUFFICES ASSUME NEW z \in Stage, NEW v \in keeps'[z], status[v[1]] = "completed"
                 PROVE  v \in memory \cup store \/ v[2] \in omitted[v[1]]
      BY <1>1 DEF KeptThere, history, values
    <2>1. CASE z = s
      <3>1. v \in Value /\ MayRead(c, v)
        BY <1>1, <1>3, <1>5, <2>1
      <3> QED
        BY <1>0, <1>1, <3>1, ReadableThere
    <2>2. CASE z # s
      BY <1>0, <1>5, <2>2 DEF RecordsInv, KeptThere
    <2> QED
      BY <2>1, <2>2
  <1>10. ASSUME NEW v \in Value
         PROVE  /\ readers'[v] \in Int
                /\ readers'[v] = readers[v] + Cardinality(Keepers(v)') - Cardinality(Keepers(v))
    <2>1. readers[v] \in Int /\ IsFiniteSet(Keepers(v)) /\ Cardinality(Keepers(v)) \in Nat
      BY <1>0, KeepersCounted DEF Types
    <2>2. CASE v \in vs
      <3>1. Keepers(v)' = Keepers(v) \cup {s} /\ s \notin Keepers(v)
        BY <1>4, <1>5, <2>2 DEF Keepers
      <3>2. Cardinality(Keepers(v) \cup {s}) = Cardinality(Keepers(v)) + 1
        BY <2>1, <3>1, FS_AddElement
      <3>3. readers'[v] = readers[v] + 1
        BY <1>1, <2>2
      <3> QED
        BY <2>1, <3>1, <3>2, <3>3
    <2>3. CASE v \notin vs
      <3>1. Keepers(v)' = Keepers(v)
        BY <1>4, <1>5, <2>3 DEF Keepers
      <3>2. readers'[v] = readers[v]
        BY <1>1, <2>3
      <3> QED
        BY <2>1, <3>1, <3>2
    <2> QED
      BY <2>2, <2>3
  <1>11. readers' \in [Value -> Int]
    BY <1>1, <1>10
  <1>12. RecordsInv'
    BY <1>0, <1>1, <1>9, <1>10, <1>11, ReadersOfStages DEF Types
  <1> QED
    BY <1>6, <1>7, <1>8, <1>12 DEF StagesInv, Templates

\* And so is what a call may read, of what its stage keeps.
LEMMA ReadThrough ==
  ASSUME RecordsInv, NEW c \in clients, NEW s \in Stage, NEW v \in Value,
         MayReadThrough(c, s, v)
  PROVE  /\ status[v[1]] \notin {"failed", "cancelled"} /\ v[2] \notin omitted[v[1]]
         /\ status[v[1]] = "completed" => v \in memory \cup store
  <1>1. CASE MayRead(c, v)
    BY <1>1, ReadableThere DEF MayRead
  <1>2. CASE /\ v \in keeps[s] /\ status[v[1]] \notin {"failed", "cancelled"}
             /\ v[2] \notin omitted[v[1]]
    BY <1>2 DEF RecordsInv, KeptThere
  <1> QED
    BY <1>1, <1>2 DEF MayReadThrough

LEMMA SubmitCallsInv ==
  ASSUME StagesInv, NEW c \in Client, NEW s \in stages[c], NEW k \in 1..MaxBatch,
         count + k <= MaxRecords, NEW blanks \in Entries(k),
         NEW names \in SUBSET Persistable, SubmitCalls(c, s, k, blanks, names)
  PROVE  StagesInv'
  <1> DEFINE reads == [r \in New(k) |-> blanks[r] \cup FixedPart(s)]
  <1>0. RecordsInv /\ StageTypes /\ Opened /\ CallsRead /\ Making /\ Types
    BY DEF StagesInv, Templates, RecordsInv
  <1>1. s \in Stage /\ staged[s] # "unknown"
    BY <1>0 DEF StageTypes, Opened
  <1>2. /\ c \in clients
        /\ \A r \in New(k) : \A v \in reads[r] : MayReadThrough(c, s, v)
        /\ Accept(c, k, reads, names)
        /\ through' = [through EXCEPT ![s] = @ \cup New(k)]
        /\ UNCHANGED <<stages, fixed, keeps, staged, staging>>
    BY DEF SubmitCalls
  <1>3. reads \in [New(k) -> SUBSET (Existing \X Name)]
    BY <1>0, <1>1 DEF Entries, FixedPart, Opened
  <1>4. Existing \subseteq Record
    BY <1>0, RecordsAssumption DEF Types, Existing, Record
  <1>5. \A r \in New(k) : reads[r] = blanks[r] \cup FixedPart(s)
    OBVIOUS
  <1> HIDE DEF reads
  <1>6. \A r \in New(k) : \A v \in reads[r] :
           /\ status[v[1]] \notin {"failed", "cancelled"}
           /\ status[v[1]] = "completed" => v \in memory \cup store \/ v[2] \in omitted[v[1]]
    <2> SUFFICES ASSUME NEW r \in New(k), NEW v \in reads[r]
                 PROVE  /\ status[v[1]] \notin {"failed", "cancelled"}
                        /\ status[v[1]] = "completed" =>
                              v \in memory \cup store \/ v[2] \in omitted[v[1]]
      OBVIOUS
    <2>1. v \in Value
      BY <1>3, <1>4 DEF Value
    <2>2. MayReadThrough(c, s, v)
      BY <1>2
    <2> QED
      BY <1>0, <1>1, <1>2, <2>1, <2>2, ReadThrough
  <1>7. names \in SUBSET Name
    BY StagesAssumption
  <1>8. RecordsInv'
    <2>1. ASSUME NEW others \in [Value -> Nat], InvBeside(others) PROVE InvBeside(others)'
      BY <1>2, <1>3, <1>6, <1>7, <2>1, AcceptInv
    <2>2. UNCHANGED keeps
      BY <1>2
    <2> QED
      BY <1>0, <2>1, <2>2, PlainInv
  <1>9. Advances /\ Existing' = Existing \cup New(k) /\ New(k) \cap Existing = {}
    BY <1>0, <1>2, AcceptAdvances
  <1>10. New(k) \subseteq Record
    BY <1>8, <1>9, RecordsAssumption DEF RecordsInv, Types, Existing, Record
  <1>11. /\ through'[s] = through[s] \cup New(k)
         /\ \A z \in Stage : z # s => through'[z] = through[z]
    BY <1>0, <1>1, <1>2 DEF StageTypes
  <1>12. StageTypes'
    BY <1>0, <1>2, <1>10 DEF StageTypes
  <1>13. Opened'
    <2>1. \A z \in Stage :
             /\ staged[z] = "unknown" => keeps[z] = {} /\ through'[z] = {}
             /\ fixed[z] \subseteq Existing' \X Name
             /\ keeps[z] \subseteq fixed[z]
             /\ through'[z] \subseteq Existing'
      BY <1>0, <1>1, <1>9, <1>11 DEF Opened
    <2> QED
      BY <1>0, <1>2, <2>1 DEF Opened
  <1>14. \A r \in New(k) : unread'[r] = reads[r] /\ at'[r] = "idle"
    <2>1. \A r \in New(k) : r > count
      BY <1>0, RecordsAssumption DEF Types, New
    <2> QED
      BY <1>0, <1>2, <1>10, <2>1 DEF Accept, RecordsInv, Fresh
  <1>15. CallsRead'
    <2> SUFFICES ASSUME NEW z \in Stage, NEW r \in through'[z], staged[z] = "open"
                 PROVE  /\ Pending(r)' /\ at'[r] = "idle" => fixed[z] \subseteq unread'[r]
                        /\ at'[r] = "computing" => fixed[z] \subseteq held'[r]
      BY <1>2 DEF CallsRead, Pending
    <2>1. CASE z = s /\ r \in New(k)
      <3>1. FixedPart(z) = fixed[z]
        BY DEF FixedPart
      <3> QED
        BY <1>5, <1>14, <2>1, <3>1
    <2>2. CASE r \in through[z]
      <3>1. r \in Existing
        BY <1>0, <2>2 DEF Opened
      <3> QED
        BY <1>0, <1>9, <2>2, <3>1 DEF CallsRead, Advances
    <2> QED
      BY <1>11, <2>1, <2>2
  <1>16. Making'
    <2>1. at' = at
      BY <1>2 DEF Accept
    <2>2. \A z \in Stage : through[z] \subseteq through'[z]
      BY <1>11
    <2> QED
      BY <1>0, <1>2, <2>1, <2>2 DEF Making
  <1> QED
    BY <1>8, <1>12, <1>13, <1>15, <1>16 DEF StagesInv, Templates

\* Stages let go of their templates, because a client releases them or because
\* their staging has ended.
LEMMA LetGoInv ==
  ASSUME StagesInv, NEW ss \in SUBSET Stage, LetGoOfTemplates(ss),
         UNCHANGED <<history, unread, held, values, running, todo, fixed, through>>,
         clients' \subseteq clients, kept' \in [Client -> SUBSET Record],
         \A c \in clients' : kept'[c] \subseteq kept[c],
         drops' \subseteq Record,
         stages' \in [Client -> SUBSET Stage], \A c \in Client : stages'[c] \subseteq stages[c],
         staged' \in [Stage -> {"unknown", "open", "staged", "failed"}],
         \A s \in Stage : staged'[s] = "unknown" <=> staged[s] = "unknown",
         \A s \in Stage : staged'[s] = "open" => staged[s] = "open",
         staging' \in [Stage -> SUBSET Record], \A s \in Stage : staging'[s] \subseteq staging[s],
         \A s \in Stage : staging'[s] # {} => staged'[s] = staged[s]
  PROVE  StagesInv'
  <1>0. RecordsInv /\ StageTypes /\ Opened /\ CallsRead /\ Making
    BY DEF StagesInv, Templates
  <1>1. /\ keeps' \in [Stage -> SUBSET Value] /\ readers' \in [Value -> Int]
        /\ \A s \in Stage : keeps'[s] = IF s \in ss THEN {} ELSE keeps[s]
        /\ \A v \in Value :
              readers'[v] = readers[v] + Cardinality(Keepers(v)') - Cardinality(Keepers(v))
    BY <1>0, LettingGoOfTemplates
  <1>2. \A s \in Stage : keeps'[s] \subseteq keeps[s]
    BY <1>1
  <1>3. KeptThere'
    BY <1>0, <1>2 DEF RecordsInv, KeptThere, history, values
  <1>4. RecordsInv'
    BY <1>0, <1>1, <1>3, ReadersOfStages
  <1>5. StageTypes'
    BY <1>0, <1>1 DEF StageTypes
  <1>6. Opened'
    <2>1. Existing' = Existing
      BY DEF history, Existing
    <2> QED
      BY <1>0, <1>2, <2>1 DEF Opened
  <1>7. CallsRead'
    BY <1>0 DEF CallsRead, Pending, history, running
  <1>8. Making'
    <2> SUFFICES ASSUME NEW s \in Stage, NEW r \in staging'[s]
                 PROVE  /\ staging'[s] = {r} /\ r \in through[s]
                        /\ at[r] = "computing" /\ staged'[s] = "open"
      BY DEF Making, running
    <2>1. /\ r \in staging[s] /\ staging[s] = {r} /\ r \in through[s]
          /\ at[r] = "computing" /\ staged[s] = "open"
      BY <1>0 DEF Making
    <2> QED
      BY <2>1
  <1> QED
    BY <1>4, <1>5, <1>6, <1>7, <1>8 DEF StagesInv, Templates

LEMMA NoLongerReadOf == NoLongerRead \subseteq Record
  BY DEF NoLongerRead, Producers, Value

LEMMA ReleaseStagesInv ==
  ASSUME StagesInv, NEW c \in Client, NEW ss \in SUBSET stages[c], ReleaseStages(c, ss)
  PROVE  StagesInv'
  <1>0. RecordsInv /\ StageTypes /\ Types
    BY DEF StagesInv, Templates, RecordsInv
  <1>1. /\ UNCHANGED <<history, clients, kept, unread, held, values, running, todo,
                       fixed, staged, staging, through>>
        /\ LetGoOfTemplates(ss) /\ drops' \subseteq Record
        /\ stages' = [stages EXCEPT ![c] = @ \ ss]
    BY NoLongerReadOf DEF ReleaseStages
  <1>2. ss \in SUBSET Stage
    BY <1>0 DEF StageTypes
  <1>3. stages' \in [Client -> SUBSET Stage] /\ \A d \in Client : stages'[d] \subseteq stages[d]
    BY <1>0, <1>1 DEF StageTypes
  <1>4. kept' \in [Client -> SUBSET Record]
    BY <1>0, <1>1 DEF Types
  <1>5. /\ staged' \in [Stage -> {"unknown", "open", "staged", "failed"}]
        /\ staging' \in [Stage -> SUBSET Record]
    BY <1>0, <1>1 DEF StageTypes
  <1> QED
    BY <1>1, <1>2, <1>3, <1>4, <1>5, LetGoInv

LEMMA EndClientInv ==
  ASSUME StagesInv, NEW c \in Client, EndClient(c)
  PROVE  StagesInv'
  <1>0. RecordsInv /\ StageTypes /\ Types
    BY DEF StagesInv, Templates, RecordsInv
  <1>1. /\ UNCHANGED <<history, unread, held, values, running, todo,
                       fixed, staged, staging, through>>
        /\ LetGoOfTemplates(stages[c])
        /\ drops' = kept[c] \cup NoLongerRead /\ clients' = clients \ {c}
        /\ kept' = [kept EXCEPT ![c] = {}]
        /\ stages' = [stages EXCEPT ![c] = {}]
    BY DEF EndClient
  <1>2. stages[c] \in SUBSET Stage
    BY <1>0 DEF StageTypes
  <1>3. stages' \in [Client -> SUBSET Stage] /\ \A d \in Client : stages'[d] \subseteq stages[d]
    BY <1>0, <1>1 DEF StageTypes
  <1>4. /\ kept' \in [Client -> SUBSET Record]
        /\ \A d \in Client : kept'[d] \subseteq kept[d]
        /\ clients \subseteq Client /\ drops' \subseteq Record
    BY <1>0, <1>1, NoLongerReadOf DEF Types
  <1>5. /\ staged' \in [Stage -> {"unknown", "open", "staged", "failed"}]
        /\ staging' \in [Stage -> SUBSET Record]
    BY <1>0, <1>1 DEF StageTypes
  <1> QED
    BY <1>1, <1>2, <1>3, <1>4, <1>5, LetGoInv

LEMMA EndStagingInv ==
  ASSUME StagesInv, NEW r \in Record, NEW s \in Stage, NEW how \in {"staged", "failed"},
         EndStaging(r, s, how)
  PROVE  StagesInv'
  <1>0. RecordsInv /\ StageTypes /\ Types /\ Making
    BY DEF StagesInv, Templates, RecordsInv
  <1>1. /\ UNCHANGED <<history, clients, kept, unread, held, values, running, todo,
                       stages, fixed, through>>
        /\ staging[s] = {r}
        /\ LetGoOfTemplates({s}) /\ drops' \subseteq Record
        /\ staging' = [staging EXCEPT ![s] = {}]
        /\ staged' = [staged EXCEPT ![s] = how]
    BY NoLongerReadOf DEF EndStaging
  <1>2. staged[s] = "open"
    BY <1>0, <1>1 DEF Making
  <1>3. stages' \in [Client -> SUBSET Stage] /\ kept' \in [Client -> SUBSET Record]
    BY <1>0, <1>1 DEF StageTypes, Types
  <1>4. /\ staged' \in [Stage -> {"unknown", "open", "staged", "failed"}]
        /\ staging' \in [Stage -> SUBSET Record]
        /\ \A z \in Stage : staged'[z] = "unknown" <=> staged[z] = "unknown"
        /\ \A z \in Stage : staged'[z] = "open" => staged[z] = "open"
        /\ \A z \in Stage : staging'[z] \subseteq staging[z]
        /\ \A z \in Stage : staging'[z] # {} => staged'[z] = staged[z]
    BY <1>0, <1>1, <1>2 DEF StageTypes
  <1>5. /\ \A c \in clients' : kept'[c] \subseteq kept[c]
        /\ \A c \in Client : stages'[c] \subseteq stages[c]
        /\ clients' \subseteq clients
    BY <1>1
  <1> QED
    BY <1>1, <1>3, <1>4, <1>5, LetGoInv

LEMMA BeginStagingInv ==
  ASSUME StagesInv, NEW r \in Record, NEW s \in Stage, BeginStaging(r, s)
  PROVE  StagesInv'
  <1>0. RecordsInv /\ StageTypes /\ Opened /\ CallsRead /\ Making
    BY DEF StagesInv, Templates
  <1>1. /\ UNCHANGED vars /\ UNCHANGED <<stages, fixed, keeps, staged, through>>
        /\ r \in through[s] /\ at[r] = "computing" /\ staged[s] = "open"
        /\ staging' = [staging EXCEPT ![s] = {r}]
    BY DEF BeginStaging
  <1>2. UNCHANGED <<history, keeping, values, running, work>>
    BY <1>1 DEF vars
  <1>3. RecordsInv'
    <2>1. /\ UNCHANGED <<history, unread, held, values, running, todo, clients, drops>>
          /\ kept' = kept /\ readers' = readers
      BY <1>2 DEF keeping, work
    <2>2. KeptThere'
      BY <1>0, <1>1, <2>1 DEF RecordsInv, KeptThere, history, values
    <2>3. ASSUME NEW v \in Value
          PROVE  readers'[v] = readers[v] + Cardinality(Keepers(v)') - Cardinality(Keepers(v))
      <3>1. Keepers(v)' = Keepers(v)
        BY <1>1 DEF Keepers
      <3>2. readers[v] \in Int /\ Cardinality(Keepers(v)) \in Nat
        BY <1>0, KeepersCounted DEF RecordsInv, Types
      <3> QED
        BY <2>1, <3>1, <3>2
    <2>4. kept \in [Client -> SUBSET Record] /\ readers \in [Value -> Int] /\ drops \subseteq Record
      BY <1>0 DEF RecordsInv, Types
    <2> QED
      BY <1>0, <2>1, <2>2, <2>3, <2>4, ReadersOfStages
  <1>4. StageTypes' /\ Opened' /\ CallsRead'
    BY <1>0, <1>1, <1>2 DEF StageTypes, Opened, CallsRead, Existing, Pending,
                            history, keeping, running
  <1>5. Making'
    <2>1. staging'[s] = {r} /\ \A z \in Stage : z # s => staging'[z] = staging[z]
      BY <1>0, <1>1 DEF StageTypes
    <2> QED
      BY <1>0, <1>1, <1>2, <2>1 DEF Making, running
  <1> QED
    BY <1>3, <1>4, <1>5 DEF StagesInv, Templates

\* A step of records, beside which the stages stay as they are.
LEMMA RecordStepInv ==
  ASSUME StagesInv, UNCHANGED stageVars, Advances,
         ASSUME NEW others \in [Value -> Nat], InvBeside(others) PROVE InvBeside(others)'
  PROVE  StagesInv'
  <1>1. RecordsInv /\ StageTypes /\ Templates /\ UNCHANGED keeps
    BY DEF StagesInv, Templates, stageVars
  <1>2. RecordsInv'
    BY <1>1, PlainInv
  <1>3. count' \in Nat
    BY <1>2, RecordsAssumption DEF RecordsInv, Types
  <1> QED
    BY <1>1, <1>2, <1>3, TemplatesAdvance DEF StagesInv

-----------------------------------------------------------------------------
(* The theorems *)

LEMMA InitStagesInv == InitStages => StagesInv
  <1> SUFFICES ASSUME InitStages PROVE StagesInv
    OBVIOUS
  <1>1. Inv
    BY InitInv DEF InitStages
  <1>2. KeptThere
    BY DEF InitStages, KeptThere
  <1>3. StagesCounted
    <2> SUFFICES ASSUME NEW v \in Value
                 PROVE  readers[v] = Cardinality(ReadersOf(v)) + Cardinality(Keepers(v))
      BY DEF StagesCounted, ReadersOf, Keepers
    <2>1. ReadersOf(v) \in SUBSET Record /\ readers[v] = Cardinality(ReadersOf(v))
      BY <1>1 DEF Inv, ReadersCounted, ReadersOf
    <2>2. Keepers(v) = {}
      BY DEF InitStages, Keepers
    <2>3. Cardinality(Keepers(v)) = 0
      BY <2>2, FS_EmptySet
    <2>4. Cardinality(ReadersOf(v)) \in Nat
      BY <2>1, Counting
    <2> QED
      BY <2>1, <2>3, <2>4
  <1>4. Templates
    BY DEF InitStages, Templates, StageTypes, Opened, CallsRead, Making
  <1> QED
    BY <1>1, <1>2, <1>3, <1>4 DEF StagesInv, RecordsInv, Inv

LEMMA StepStagesInv == StagesInv /\ [NextStages]_allVars => StagesInv'
  <1> SUFFICES ASSUME StagesInv, [NextStages]_allVars PROVE StagesInv'
    OBVIOUS
  <1>0. RecordsInv /\ StageTypes /\ Types /\ count \in Int
    BY RecordsAssumption DEF StagesInv, Templates, RecordsInv, Types
  <1>1. ASSUME NEW c \in Client, CallOfStages(c)
        PROVE  StagesInv'
    <2>1. CASE /\ \/ OpenClient(c)
                  \/ \E rs \in SUBSET Unended \ {{}} : Cancel(c, rs)
                  \/ \E rs \in SUBSET kept[c] \ {{}} : Release(c, rs)
               /\ UNCHANGED stageVars
      <3>1. count' >= count /\ UNCHANGED <<status, at, unread, held>>
        BY <1>0, <2>1 DEF OpenClient, Cancel, Release, history, keeping, running
      <3> QED
        BY <2>1, <3>1, RestAdvances, ClientInv, RecordStepInv
    <2>2. CASE \E k \in 1..MaxBatch :
                  /\ count + k <= MaxRecords
                  /\ \E reads \in Entries(k), names \in SUBSET Persistable :
                        Submit(c, k, reads, names) /\ UNCHANGED stageVars
      <3>0. PICK k \in 1..MaxBatch :
               /\ count + k <= MaxRecords
               /\ \E reads \in Entries(k), names \in SUBSET Persistable :
                     Submit(c, k, reads, names) /\ UNCHANGED stageVars
        BY <2>2
      <3>1. PICK reads \in Entries(k), names \in SUBSET Persistable :
               Submit(c, k, reads, names) /\ UNCHANGED stageVars
        BY <3>0
      <3>2. names \in SUBSET Name
        BY StagesAssumption
      <3>3. Advances
        BY <1>0, <3>1, AcceptAdvances DEF Submit
      <3>4. ASSUME NEW others \in [Value -> Nat], InvBeside(others) PROVE InvBeside(others)'
        BY <3>0, <3>1, <3>2, <3>4, SubmitInv
      <3> QED
        BY <3>1, <3>3, <3>4, RecordStepInv
    <2>3. CASE \E s \in Stage, vs \in SUBSET (Existing \X Name) :
                  Cardinality(vs) <= MaxReads /\ OpenStage(c, s, vs)
      BY <2>3, OpenStageInv
    <2>4. CASE \E k \in 1..MaxBatch, s \in stages[c] :
                  /\ count + k <= MaxRecords
                  /\ \E blanks \in Entries(k), names \in SUBSET Persistable :
                        SubmitCalls(c, s, k, blanks, names)
      BY <2>4, SubmitCallsInv
    <2>5. CASE \E ss \in SUBSET stages[c] \ {{}} : ReleaseStages(c, ss)
      BY <2>5, ReleaseStagesInv
    <2>6. CASE EndClient(c)
      BY <2>6, EndClientInv
    <2> QED
      BY <1>1, <2>1, <2>2, <2>3, <2>4, <2>5, <2>6 DEF CallOfStages
  <1>2. CASE CascadeStages
    <2>1. Cascade /\ UNCHANGED stageVars
      BY <1>2 DEF CascadeStages
    <2>2. ASSUME NEW others \in [Value -> Nat], InvBeside(others) PROVE InvBeside(others)'
      BY <2>1, <2>2, StepBeside DEF Next
    <2> QED
      BY <1>0, <2>1, <2>2, CascadeAdvances, RecordStepInv
  <1>3. ASSUME NEW r \in Record, WorkerStepStages(r)
        PROVE  StagesInv'
    <2>1. CASE \E s \in Stage : BeginStaging(r, s)
      BY <2>1, BeginStagingInv
    <2>2. CASE \E s \in Stage : Staged(r, s) \/ StagingFails(r, s)
      BY <2>2, EndStagingInv DEF Staged, StagingFails
    <2>3. CASE /\ \/ Start(r)
                  \/ MayReturn(r) /\ \E names \in SUBSET Name : Return(r, names)
                  \/ MayRaise(r) /\ Raise(r)
                  \/ \E n \in Name : Write(r, n)
                  \/ WriteFails(r)
                  \/ Complete(r)
               /\ UNCHANGED stageVars
      <3>1. WorkerStep(r) /\ Advances
        BY <1>0, <2>3, WorkerAdvances DEF WorkerStep
      <3>2. ASSUME NEW others \in [Value -> Nat], InvBeside(others) PROVE InvBeside(others)'
        BY <3>1, <3>2, StepBeside DEF Next
      <3> QED
        BY <2>3, <3>1, <3>2, RecordStepInv
    <2> QED
      BY <1>3, <2>1, <2>2, <2>3 DEF WorkerStepStages
  <1>4. CASE UNCHANGED allVars
    <2>1. UNCHANGED vars /\ UNCHANGED stageVars
      BY <1>4 DEF allVars
    <2>2. count' >= count /\ UNCHANGED <<status, at, unread, held>>
      BY <1>0, <2>1 DEF vars, history, keeping, running
    <2>3. ASSUME NEW others \in [Value -> Nat], InvBeside(others) PROVE InvBeside(others)'
      BY <2>1, <2>3, StepBeside
    <2> QED
      BY <2>1, <2>2, <2>3, RestAdvances, RecordStepInv
  <1> QED
    BY <1>1, <1>2, <1>3, <1>4 DEF NextStages

LEMMA StagesHold == SpecStages => []StagesInv
  BY InitStagesInv, StepStagesInv, PTL DEF SpecStages

\* The counter of readers is exact beside stages too: a stage counts as one
\* reader of what it references, and lets go once, though its staging ends while
\* its client releases it or ends.
THEOREM CountsStages == SpecStages => []StagesCounted
  <1>1. StagesInv => StagesCounted
    BY DEF StagesInv, RecordsInv
  <1> QED
    BY <1>1, StagesHold, PTL

\* The call that makes a stage's callable reads all of the template, completed,
\* while it does, though the stage was released and the call cancelled since;
\* and what an open stage keeps is there for the calls to come.
THEOREM ServesStages == SpecStages => []StagesServed
  <1>1. StagesInv => StagesServed
    <2> SUFFICES ASSUME StagesInv, NEW s \in Stage
                 PROVE  /\ \A r \in staging[s] :
                              /\ fixed[s] \subseteq held[r]
                              /\ \A v \in fixed[s] : status[v[1]] = "completed"
                        /\ \A v \in keeps[s] : status[v[1]] = "completed" =>
                              v \in memory \cup store \/ v[2] \in omitted[v[1]]
      BY DEF StagesServed
    <2>1. ASSUME NEW r \in staging[s]
          PROVE  fixed[s] \subseteq held[r] /\ \A v \in fixed[s] : status[v[1]] = "completed"
      <3>1. r \in through[s] /\ at[r] = "computing" /\ staged[s] = "open" /\ r \in Record
        BY DEF StagesInv, Templates, Making, StageTypes
      <3>2. fixed[s] \subseteq held[r]
        BY <3>1 DEF StagesInv, Templates, CallsRead
      <3> QED
        BY <3>1, <3>2 DEF StagesInv, RecordsInv, Waits
    <2> QED
      BY <2>1 DEF StagesInv, RecordsInv, KeptThere
  <1> QED
    BY <1>1, StagesHold, PTL

\* Records among stages are served as they are alone: what a call reads, of its
\* own references and of its stage's template, has completed and is there.
THEOREM ServesCalls == SpecStages => []ReadsServed
  <1>1. StagesInv => ReadsServed
    BY DEF StagesInv, RecordsInv, Served, Waits, ReadsServed
  <1> QED
    BY <1>1, StagesHold, PTL

-----------------------------------------------------------------------------
(* The refinement, among stages *)

LEMMA StagesSound == StagesInv => Sound
  <1> SUFFICES ASSUME StagesInv, NEW v \in Value, readers[v] = 0
               PROVE  \A r \in Record : v \notin unread[r] \cup held[r]
    BY DEF StagesInv, RecordsInv, Sound
  <1>1. 0 = Cardinality(ReadersOf(v)) + Cardinality(Keepers(v)) /\ ReadersOf(v) \in SUBSET Record
    BY DEF StagesInv, RecordsInv, StagesCounted, ReadersOf, Keepers
  <1>2. /\ Cardinality(ReadersOf(v)) \in Nat /\ Cardinality(Keepers(v)) \in Nat
        /\ Cardinality(ReadersOf(v)) = 0 <=> ReadersOf(v) = {}
    BY <1>1, Counting, KeepersCounted
  <1>3. ReadersOf(v) = {}
    BY <1>1, <1>2
  <1> QED
    BY <1>3 DEF ReadersOf

\* What a step among stages is to the records: one of theirs, calls accepted, or
\* one of stages and their clients, of which the lifecycle knows nothing.
CallsAccepted ==
    \E c \in Client, k \in 1..MaxBatch :
        /\ count + k <= MaxRecords
        /\ \E s \in stages[c], blanks \in Entries(k), names \in SUBSET Persistable :
              SubmitCalls(c, s, k, blanks, names)

Opens == \E c \in Client, s \in Stage, vs \in SUBSET (Existing \X Name) : OpenStage(c, s, vs)
LetsGo ==
    \/ \E c \in Client, ss \in SUBSET Stage : ReleaseStages(c, ss)
    \/ \E c \in Client : EndClient(c)
    \/ \E r \in Record, s \in Stage, how \in {"staged", "failed"} : EndStaging(r, s, how)

LEMMA StepAmongStages ==
  ASSUME StageTypes, [NextStages]_allVars
  PROVE  [Next]_vars \/ CallsAccepted \/ Opens \/ LetsGo
  <1>1. ASSUME NEW c \in Client, CallOfStages(c)
        PROVE  CallOf(c) \/ CallsAccepted \/ Opens \/ LetsGo
    <2>1. CASE \E k \in 1..MaxBatch :
                  /\ count + k <= MaxRecords
                  /\ \E reads \in Entries(k), names \in SUBSET Persistable :
                        Submit(c, k, reads, names) /\ UNCHANGED stageVars
      <3>1. SUBSET Persistable \subseteq SUBSET Name
        BY StagesAssumption
      <3>2. \E k \in 1..MaxBatch :
               /\ count + k <= MaxRecords
               /\ \E reads \in Entries(k), names \in SUBSET Name : Submit(c, k, reads, names)
        BY <2>1, <3>1
      <3> QED
        BY <3>2 DEF CallOf
    <2>2. CASE \E k \in 1..MaxBatch, s \in stages[c] :
                  /\ count + k <= MaxRecords
                  /\ \E blanks \in Entries(k), names \in SUBSET Persistable :
                        SubmitCalls(c, s, k, blanks, names)
      BY <2>2 DEF CallsAccepted
    <2>3. CASE \E s \in Stage, vs \in SUBSET (Existing \X Name) :
                  Cardinality(vs) <= MaxReads /\ OpenStage(c, s, vs)
      BY <2>3 DEF Opens
    <2>4. CASE \E ss \in SUBSET stages[c] \ {{}} : ReleaseStages(c, ss)
      <3>1. stages[c] \subseteq Stage
        BY DEF StageTypes
      <3> QED
        BY <2>4, <3>1 DEF LetsGo
    <2>5. CASE EndClient(c)
      BY <2>5 DEF LetsGo
    <2>6. CASE \/ OpenClient(c)
               \/ \E rs \in SUBSET Unended \ {{}} : Cancel(c, rs)
               \/ \E rs \in SUBSET kept[c] \ {{}} : Release(c, rs)
      BY <2>6 DEF CallOf
    <2> QED
      BY <1>1, <2>1, <2>2, <2>3, <2>4, <2>5, <2>6 DEF CallOfStages
  <1>2. ASSUME NEW r \in Record, WorkerStepStages(r)
        PROVE  WorkerStep(r) \/ UNCHANGED vars \/ LetsGo
    <2>1. CASE \E s \in Stage : BeginStaging(r, s)
      BY <2>1 DEF BeginStaging
    <2>2. CASE \E s \in Stage : Staged(r, s) \/ StagingFails(r, s)
      BY <2>2 DEF Staged, StagingFails, LetsGo
    <2> QED
      BY <1>2, <2>1, <2>2 DEF WorkerStepStages, WorkerStep
  <1> QED
    BY <1>1, <1>2 DEF NextStages, CascadeStages, Next, allVars

LEMMA StagesKeepRecords ==
  ASSUME Opens \/ LetsGo
  PROVE  UNCHANGED <<history, unread, held, values, running>>
  BY DEF Opens, LetsGo, OpenStage, ReleaseStages, EndClient, EndStaging

LEMMA CallsKeep ==
  ASSUME StagesInv, StagesInv', Retains, CallsAccepted
  PROVE  Retains' /\ Promise!Next
  <1>1. PICK c \in Client, k \in 1..MaxBatch :
           /\ count + k <= MaxRecords
           /\ \E s \in stages[c], blanks \in Entries(k), names \in SUBSET Persistable :
                 SubmitCalls(c, s, k, blanks, names)
    BY DEF CallsAccepted
  <1>2. PICK s \in stages[c], blanks \in Entries(k), names \in SUBSET Persistable :
           SubmitCalls(c, s, k, blanks, names)
    BY <1>1
  <1> DEFINE reads == [r \in New(k) |-> blanks[r] \cup FixedPart(s)]
  <1>3. /\ c \in clients /\ Accept(c, k, reads, names)
        /\ \A r \in New(k) : \A v \in reads[r] : MayReadThrough(c, s, v)
    BY <1>2 DEF SubmitCalls
  <1>4. RecordsInv /\ Types /\ Types' /\ Sound /\ PromiseInv
    BY StagesSound DEF StagesInv, RecordsInv, PromiseInv
  <1>5. s \in Stage /\ fixed[s] \subseteq Existing \X Name /\ names \in SUBSET Name
    BY StagesAssumption DEF StagesInv, Templates, StageTypes, Opened
  <1>6. reads \in [New(k) -> SUBSET (Existing \X Name)]
    BY <1>5 DEF Entries, FixedPart
  <1>7. Existing \subseteq Record /\ New(k) \in SUBSET Record
    BY <1>1, <1>4, RecordsAssumption DEF Types, Existing, New, Record
  <1> HIDE DEF reads
  <1>8. ASSUME NEW r \in New(k), NEW v \in reads[r]
        PROVE  /\ status[v[1]] \notin {"failed", "cancelled"}
               /\ status[v[1]] = "completed" => v \in Live
    <2>1. v \in Value /\ MayReadThrough(c, s, v)
      BY <1>3, <1>6, <1>7 DEF Value
    <2> QED
      BY <1>3, <1>4, <1>5, <2>1, ReadThrough DEF Live
  <1>9. Retains'
    BY <1>1, <1>3, <1>4, <1>5, RetainsAccept
  <1>10. Promise!Submit(New(k))
    BY <1>1, <1>3, <1>4, <1>5, <1>6, <1>8, AcceptKeeps
  <1> QED
    BY <1>7, <1>9, <1>10 DEF Promise!Next

LEMMA StagesStepKeeps ==
  StagesInv /\ StagesInv' /\ Retains /\ [NextStages]_allVars
     => Retains' /\ [Promise!Next]_Promise!vars
  <1> SUFFICES ASSUME StagesInv, StagesInv', Retains, [NextStages]_allVars
               PROVE  Retains' /\ [Promise!Next]_Promise!vars
    OBVIOUS
  <1>1. CASE [Next]_vars
    <2>0. (StagesInv => Sound)'
      BY StagesSound, PTL
    <2>1. Sound /\ Sound'
      BY <2>0, StagesSound
    <2>2. Retains'
      BY <1>1, <2>1, RetainsStep
    <2> QED
      BY <1>1, <2>1, <2>2, StepKeeps DEF PromiseInv
  <1>2. CASE CallsAccepted
    BY <1>2, CallsKeep
  <1>3. CASE Opens \/ LetsGo
    <2>1. UNCHANGED <<history, unread, held, values, running>>
      BY <1>3, StagesKeepRecords
    <2> QED
      BY <2>1 DEF history, values, running, Retains, Pending, State, Live, Promise!vars
  <1> QED
    BY <1>1, <1>2, <1>3, StepAmongStages DEF StagesInv, Templates

\* Among stages too, the records keep what protocol.py promises: the template of
\* a stage is read by its calls as any reference is, and what a stage lets go of
\* was read by no record that has yet to compute.
THEOREM ImplementsAmongStages == SpecStages => KeepsPromise
  <1>1. InitStages => Retains /\ Promise!Init
    BY DEF InitStages, Init, Retains, Pending, Promise!Init, State, Live
  <1> QED
    BY <1>1, InitStagesInv, StepStagesInv, StagesStepKeeps, PTL
    DEF SpecStages, KeepsPromise, Promise!Spec

-----------------------------------------------------------------------------
(* What nothing keeps, among stages *)

LEMMA StagesNumbered == StagesInv => Numbered
  <1> SUFFICES ASSUME StagesInv, NEW v \in Value PROVE readers[v] \in Nat
    BY DEF StagesInv, RecordsInv, Numbered
  <1>1. /\ readers[v] = Cardinality(ReadersOf(v)) + Cardinality(Keepers(v))
        /\ ReadersOf(v) \in SUBSET Record
    BY DEF StagesInv, RecordsInv, StagesCounted, ReadersOf, Keepers
  <1>2. Cardinality(ReadersOf(v)) \in Nat /\ Cardinality(Keepers(v)) \in Nat
    BY <1>1, Counting, KeepersCounted
  <1> QED
    BY <1>1, <1>2

\* A call accepted keeps what it reads for the template as its own references.
LEMMA CallsDue ==
  ASSUME Numbered, Numbered', CallsAccepted
  PROVE  DueKept
  <1>1. PICK c \in Client, k \in 1..MaxBatch :
           /\ count + k <= MaxRecords
           /\ \E s \in stages[c], blanks \in Entries(k), names \in SUBSET Persistable :
                 SubmitCalls(c, s, k, blanks, names)
    BY DEF CallsAccepted
  <1>2. PICK s \in stages[c], blanks \in Entries(k), names \in SUBSET Persistable :
           SubmitCalls(c, s, k, blanks, names)
    BY <1>1
  <1> DEFINE reads == [r \in New(k) |-> blanks[r] \cup FixedPart(s)]
  <1>3. c \in clients /\ names \in SUBSET Name /\ Accept(c, k, reads, names)
    BY <1>2, StagesAssumption DEF SubmitCalls
  <1> HIDE DEF reads
  <1> QED
    BY <1>1, <1>3, AcceptDue

\* A stage that opens, and one that lets go, alone or with its client's records.
LEMMA StagesDue ==
  ASSUME Numbered, Numbered', Opens \/ LetsGo
  PROVE  DueKept
  <1>0. /\ Types /\ Types' /\ \A v \in Value : readers[v] \in Nat /\ readers'[v] \in Nat
        /\ \A r \in Record : Pending(r) => r \in Existing
    <2>1. Types /\ Types' /\ \A v \in Value : readers[v] \in Nat /\ readers'[v] \in Nat
      BY DEF Numbered
    <2>2. ASSUME NEW r \in Record, Pending(r) PROVE r \in Existing
      BY <2>1, <2>2, RecordsAssumption DEF Numbered, Fresh, Pending, Existing, Record, Types
    <2> QED
      BY <2>1, <2>2
  <1>1. UNCHANGED <<count, status, persists, memory, todo>>
    BY DEF Opens, LetsGo, OpenStage, ReleaseStages, EndClient, EndStaging, history, values, work
  <1>2. CASE Opens
    <2>1. PICK c \in Client, s \in Stage, vs \in SUBSET (Existing \X Name) : OpenStage(c, s, vs)
      BY <1>2 DEF Opens
    <2>2. /\ UNCHANGED <<clients, kept, drops>>
          /\ \A v \in Value : readers'[v] = IF v \in vs THEN readers[v] + 1 ELSE readers[v]
      BY <2>1 DEF OpenStage, work
    <2>3. \A v \in Value : readers[v] > 0 => readers'[v] > 0
      BY <1>0, <2>2
    <2>4. \A r \in Record : KeptBySome(r) => KeptBySome(r)'
      BY <2>2 DEF KeptBySome
    <2> QED
      BY <1>0, <1>1, <2>2, <2>3, <2>4, DueStep DEF Pending
  <1>3. CASE LetsGo
    <2>1. drops = {} /\ NoLongerRead \subseteq drops'
      BY <1>3 DEF LetsGo, ReleaseStages, EndClient, EndStaging, Locked
    <2>2. \A v \in Value : readers[v] > 0 => readers'[v] > 0 \/ v[1] \in drops'
      BY <1>0, <2>1 DEF NoLongerRead, Producers
    <2>3. \A r \in Record : KeptBySome(r) => KeptBySome(r)' \/ r \in drops'
      <3>1. CASE UNCHANGED <<clients, kept>>
        BY <3>1 DEF KeptBySome
      <3>2. CASE \E c \in Client : EndClient(c)
        BY <1>0, <3>2 DEF EndClient, KeptBySome, Types
      <3> QED
        BY <1>3, <3>1, <3>2 DEF LetsGo, ReleaseStages, EndStaging
    <2> QED
      BY <1>0, <1>1, <2>1, <2>2, <2>3, DueStep DEF Pending
  <1> QED
    BY <1>2, <1>3

LEMMA KeepersHoldAmongStages == SpecStages => [](StagesInv /\ KeepersInv)
  <1>1. InitStages => KeepersInv
    BY RecordsAssumption
    DEF InitStages, Init, KeepersInv, ValuesInv, MemoryCompleted, OrphansDue, UnkeptDue, Existing
  <1>2. StagesInv /\ StagesInv' /\ KeepersInv /\ [NextStages]_allVars => KeepersInv'
    <2>1. (StagesInv => Numbered)'
      BY StagesNumbered, PTL
    <2> QED
      BY <2>1, StagesNumbered, StepAmongStages, KeepersStep, CallsDue, StagesDue
      DEF StagesInv, Templates, DueKept, KeepersInv
  <1> QED
    BY <1>1, <1>2, InitStagesInv, StepStagesInv, PTL DEF SpecStages

\* Work that nothing keeps is cancelled among stages too: once the lock is let go,
\* every pending record has a client, the store, a record or a stage to compute for.
THEOREM LeavesNoOrphansAmongStages == SpecStages => []NoOrphans
  <1>1. KeepersInv => NoOrphans
    BY DEF KeepersInv, OrphansDue, NoOrphans, Locked
  <1> QED
    BY <1>1, KeepersHoldAmongStages, PTL

\* And values that nothing keeps are dropped: a stage that has staged, whose staging
\* has failed, or that was released with its client leaves no value behind.
THEOREM KeepsNothingUnkeptAmongStages == SpecStages => []NothingUnkept
  <1>1. KeepersInv => NothingUnkept
    BY DEF KeepersInv, ValuesInv, UnkeptDue, NothingUnkept, Locked
  <1> QED
    BY <1>1, KeepersHoldAmongStages, PTL

=============================================================================
