---------------------------- MODULE TellingProofs ----------------------------
(***************************************************************************)
(* More theorems about accumulators: a record or a step that waits is told *)
(* when what it waits for comes, or fails to; what nobody needs goes; and  *)
(* waits never go round in a circle.                                       *)
(*                                                                         *)
(* Each turn of a loop under the lock leaves it to a later turn to look    *)
(* again at what it changed: at the dependents of an output, at the        *)
(* accumulators that may advance, and at the keys without a reader.  The   *)
(* invariant says what is left to be looked at, in each state in between.  *)
(***************************************************************************)
EXTENDS AccumulatorsProofs

\* What a record waits for will start it or fail it.
Scheduled ==
    \A r \in Record :
        /\ Pending(r) => (waiting[r] # {} <=> r \notin queued /\ at[r] = "idle")
        /\ \A k \in waiting[r] : r \in dependents[k] \/ <<r, "failed">> \in todo
        /\ \A k \in Key : r \in dependents[k] =>
              /\ Pending(r) /\ k \in waiting[r]
              /\ IF k \in State THEN ~stopped[k[1]] /\ added[k[1]] # k[2] ELSE Pending(k[2])

\* A submission pins the states its requests read, and no others.
Asked ==
    \A t \in Thread : call[t].op = "submit" =>
        \A p \in call[t].pins : \E i \in DOMAIN call[t].requests : p[1] \in call[t].requests[i].accs

\* A step is held back, or will be looked at.
HeldBack(a) ==
    ~Unread(a) \/ <<a, added[a]>> \in drops \/ \E r \in Head(steps[a]) : Pending(r)
Told == \A a \in Acc : steps[a] # <<>> /\ ~busy[a] => a \in ready \/ HeldBack(a)

\* What nobody needs is dropped, or will be: what was computed of a state, with
\* the driver if no step follows; steps; and the hold of a state's record.
Gone(a) ==
    /\ stopped[a] => driver[a] = None /\ computed[a] = None
    /\ frozen[a] # 0 /\ steps[a] = <<>> /\ ~released[a] => computed[a] = None
DriversGo == \A a \in Acc : Unread(a) => <<a, added[a]>> \in drops \/ Gone(a)
StepsGo ==
    \A a \in Acc : released[a] =>
        Len(steps[a]) = Needed(a) \/ \E n \in 0..MaxPushes : <<a, n>> \in drops
HoldsGo ==
    \A r \in Record : held[r] \cap State # {} /\ at[r] = "idle" =>
        r \in kept \/ readers[Out(r)] > 0 \/ Out(r) \in drops

TellInv == ReadInv /\ Scheduled /\ Asked /\ Told /\ DriversGo /\ StepsGo /\ HoldsGo

-----------------------------------------------------------------------------
(* What an action that tells nobody leaves as it is *)

\* Each key that loses its last reader is looked at.
Emptying == \A k \in Key : readers[k] > 0 /\ readers'[k] = 0 => k \in drops'

LEMMA CountsBoth ==
  ASSUME ReadInv, ReadInv'
  PROVE  /\ \A k \in Key : readers[k] \in Nat /\ readers'[k] \in Nat
         /\ \A a \in Acc : added[a] \in None..MaxPushes /\ added'[a] \in None..MaxPushes
         /\ \A a \in Acc : added[a] # None => <<a, added[a]>> \in State
  <1>1. \A k \in Key : readers[k] \in Nat
    BY NeverNegative DEF ReadInv
  <1>2. CoreInv'
    BY DEF ReadInv
  <1>3. (CoreInv => \A k \in Key : readers[k] \in Nat)'
    BY NeverNegative, PTL
  <1>4. \A k \in Key : readers'[k] \in Nat
    BY <1>2, <1>3
  <1>5. \A a \in Acc : added[a] \in None..MaxPushes /\ added'[a] \in None..MaxPushes
    BY DEF ReadInv, CoreInv, Types
  <1>6. \A a \in Acc : added[a] # None => added[a] \in 0..MaxPushes
    BY <1>5, Counts DEF None
  <1> QED
    BY <1>1, <1>4, <1>5, <1>6, Keys

LEMMA Empties ==
  ASSUME ReadInv, ReadInv', NEW less, LetGo(less), Emptied(less) \subseteq drops',
         \A k \in Key : less[k] \in Int
  PROVE  Emptying
  <1> SUFFICES ASSUME NEW k \in Key, readers[k] > 0, readers'[k] = 0
               PROVE  k \in Emptied(less)
    BY DEF Emptying
  <1>1. readers[k] \in Nat /\ readers'[k] = readers[k] - less[k] /\ less[k] \in Int
    BY CountsBoth DEF LetGo
  <1>2. less[k] > 0 /\ readers[k] = less[k]
    BY <1>1
  <1> QED
    BY <1>2 DEF Emptied

LEMMA OnceInt == \A ks : \A k \in Key : Once(ks)[k] \in Int
  BY DEF Once

LEMMA RestInt ==
  ASSUME CoreInv, NEW a \in Acc, NEW i \in 0..Len(steps[a])
  PROVE  \A k \in Key : OfSteps(Rest(a, i))[k] \in Int
  <1> SUFFICES ASSUME NEW k \in Key PROVE OfSteps(Rest(a, i))[k] \in Int
    OBVIOUS
  <1> DEFINE some == {s \in Rest(a, i) : k \in Sources(steps[s[1]][s[2]])}
  <1>1. Len(steps[a]) \in Nat /\ Len(steps[a]) <= MaxPushes + 1
    <2>1. /\ Len(steps[a]) \in Nat /\ added[a] \in None..MaxPushes /\ pushes[a] \in None..MaxPushes
          /\ added[a] + Len(steps[a]) <= pushes[a]
      BY LenProperties DEF CoreInv, Types, Progress
    <2> QED
      BY <2>1, Counts DEF None
  <1>2. some \subseteq Acc \X (1..(MaxPushes + 1))
    <2>1. \A j \in (i + 1)..Len(steps[a]) : j \in 1..(MaxPushes + 1)
      BY <1>1, Counts
    <2> QED
      BY <2>1 DEF Rest
  <1>3. OfSteps(Rest(a, i))[k] = Cardinality(some)
    BY DEF OfSteps
  <1> HIDE DEF some
  <1> QED
    BY <1>2, <1>3, AllFinite, FS_Subset, FS_CardinalityType

\* A state of which no reader is left has one no more; one of which a reader is
\* left had one, or is pinned anew.
LEMMA StillUnread ==
  ASSUME ReadInv, ReadInv', NEW a \in Acc, added'[a] = added[a], Emptying, Unread(a)'
  PROVE  Unread(a) \/ <<a, added[a]>> \in drops'
  <1> SUFFICES ASSUME added[a] # None, readers[<<a, added[a]>>] # 0
               PROVE  <<a, added[a]>> \in drops'
    BY DEF Unread
  <1>1. <<a, added[a]>> \in Key /\ readers[<<a, added[a]>>] > 0
    BY CountsBoth, Keys
  <1>2. readers'[<<a, added[a]>>] = 0
    BY DEF Unread
  <1> QED
    BY <1>1, <1>2 DEF Emptying

LEMMA ScheduledStays ==
  ASSUME Scheduled, UNCHANGED <<status, waiting, queued, dependents, stopped, added>>,
         todo \subseteq todo',
         \A r \in Record : Pending(r) => (at'[r] = "idle" <=> at[r] = "idle")
  PROVE  Scheduled'
  BY DEF Scheduled, Pending

LEMMA ToldStays ==
  ASSUME ReadInv, ReadInv', Told, Emptying,
         \A a \in Acc : steps'[a] # <<>> /\ ~busy'[a] =>
            \/ a \in ready'
            \/ /\ steps[a] # <<>> /\ ~busy[a] /\ a \notin ready
               /\ Head(steps'[a]) = Head(steps[a]) /\ added'[a] = added[a]
               /\ \A r \in Head(steps[a]) : Pending(r) => Pending(r)'
               /\ <<a, added[a]>> \in drops => <<a, added[a]>> \in drops'
  PROVE  Told'
  <1> SUFFICES ASSUME NEW a \in Acc, steps[a] # <<>>, ~busy[a], a \notin ready,
                      Head(steps'[a]) = Head(steps[a]), added'[a] = added[a],
                      \A r \in Head(steps[a]) : Pending(r) => Pending(r)',
                      <<a, added[a]>> \in drops => <<a, added[a]>> \in drops'
               PROVE  HeldBack(a)'
    BY DEF Told
  <1>1. HeldBack(a)
    BY DEF Told
  <1>2. CASE ~Unread(a)
    <2>1. ~Unread(a)' \/ <<a, added[a]>> \in drops'
      BY <1>2, StillUnread
    <2> QED
      BY <2>1 DEF HeldBack
  <1>3. CASE <<a, added[a]>> \in drops \/ \E r \in Head(steps[a]) : Pending(r)
    BY <1>3 DEF HeldBack
  <1> QED
    BY <1>1, <1>2, <1>3 DEF HeldBack

LEMMA DriversGoStays ==
  ASSUME ReadInv, ReadInv', DriversGo, Emptying,
         \A a \in Acc : \/ ~Unread(a)'
                        \/ <<a, added'[a]>> \in drops'
                        \/ Gone(a)'
                        \/ /\ added'[a] = added[a]
                           /\ <<a, added[a]>> \in drops => <<a, added[a]>> \in drops'
                           /\ Unread(a) /\ Gone(a) => Gone(a)'
  PROVE  DriversGo'
  <1> SUFFICES ASSUME NEW a \in Acc, Unread(a)', <<a, added'[a]>> \notin drops'
               PROVE  Gone(a)'
    BY DEF DriversGo
  <1> SUFFICES ASSUME added'[a] = added[a],
                      <<a, added[a]>> \in drops => <<a, added[a]>> \in drops',
                      Unread(a) /\ Gone(a) => Gone(a)'
               PROVE  Gone(a)'
    OBVIOUS
  <1>1. Unread(a)
    BY StillUnread
  <1> QED
    BY <1>1 DEF DriversGo

\* The steps needed: all, if there is none after which they could be cut.
CutsAt(a, i) ==
    /\ busy[a] => i >= 1
    /\ \A n \in 0..MaxPushes : readers[<<a, n>>] > 0 => n - added[a] <= i

LEMMA AllNeeded ==
  CoreInv => \A a \in Acc :
                /\ Len(steps[a]) \in Nat
                /\ Len(steps[a]) = Needed(a) <=> \A i \in 0..(Len(steps[a]) - 1) : ~CutsAt(a, i)
  <1> SUFFICES ASSUME CoreInv, NEW a \in Acc
               PROVE  /\ Len(steps[a]) \in Nat
                      /\ Len(steps[a]) = Needed(a) <=> \A i \in 0..(Len(steps[a]) - 1) : ~CutsAt(a, i)
    OBVIOUS
  <1>1. Len(steps[a]) \in Nat
    BY LenProperties DEF CoreInv, Types
  <1>2. /\ Needed(a) \in 0..Len(steps[a])
        /\ busy[a] => Needed(a) >= 1
        /\ Needed(a) = Len(steps[a]) \/ CutsAt(a, Needed(a))
        /\ \A i \in 0..Len(steps[a]) : CutsAt(a, i) => Needed(a) <= i
    BY NeededSteps DEF CutsAt
  <1> QED
    BY <1>1, <1>2

LEMMA NeededNext ==
  ReadInv' => \A a \in Acc :
                 /\ Len(steps'[a]) \in Nat
                 /\ Len(steps'[a]) = Needed(a)' <=> \A i \in 0..(Len(steps'[a]) - 1) : ~CutsAt(a, i)'
  <1>1. (CoreInv => \A a \in Acc :
                /\ Len(steps[a]) \in Nat
                /\ Len(steps[a]) = Needed(a) <=> \A i \in 0..(Len(steps[a]) - 1) : ~CutsAt(a, i))'
    BY AllNeeded, PTL
  <1> QED
    BY <1>1 DEF ReadInv

LEMMA StepsGoStays ==
  ASSUME ReadInv, ReadInv', StepsGo, Emptying,
         \A a \in Acc : released'[a] =>
            \/ \E n \in 0..MaxPushes : <<a, n>> \in drops'
            \/ Len(steps'[a]) = Needed(a)'
            \/ /\ released[a] /\ steps'[a] = steps[a] /\ added'[a] = added[a]
               /\ busy[a] => busy'[a]
               /\ \A n \in 0..MaxPushes : <<a, n>> \notin drops
  PROVE  StepsGo'
  <1> SUFFICES ASSUME NEW a \in Acc, released[a], steps'[a] = steps[a], added'[a] = added[a],
                      busy[a] => busy'[a],
                      \A n \in 0..MaxPushes : <<a, n>> \notin drops,
                      \A n \in 0..MaxPushes : <<a, n>> \notin drops'
               PROVE  Len(steps'[a]) = Needed(a)'
    BY DEF StepsGo
  <1>1. Len(steps[a]) \in Nat /\ \A i \in 0..(Len(steps[a]) - 1) : ~CutsAt(a, i)
    BY AllNeeded DEF ReadInv, StepsGo
  <1>2. \A n \in 0..MaxPushes : readers[<<a, n>>] > 0 => readers'[<<a, n>>] > 0
    <2> SUFFICES ASSUME NEW n \in 0..MaxPushes, readers[<<a, n>>] > 0 PROVE readers'[<<a, n>>] > 0
      OBVIOUS
    <2>1. <<a, n>> \in Key
      BY Keys
    <2>2. readers'[<<a, n>>] # 0 /\ readers'[<<a, n>>] \in Nat
      BY <2>1, CountsBoth DEF Emptying
    <2> QED
      BY <2>2
  <1>3. \A i \in 0..(Len(steps'[a]) - 1) : ~CutsAt(a, i)'
    BY <1>1, <1>2 DEF CutsAt
  <1> QED
    BY <1>3, NeededNext

LEMMA HoldsGoStays ==
  ASSUME ReadInv, ReadInv', HoldsGo, Emptying,
         \A r \in Record : held'[r] \cap State # {} /\ at'[r] = "idle" =>
            \/ Out(r) \in drops' \/ r \in kept' \/ readers'[Out(r)] > 0
            \/ /\ held[r] \cap State # {} /\ at[r] = "idle"
               /\ r \notin kept
               /\ Out(r) \notin drops
  PROVE  HoldsGo'
  <1> SUFFICES ASSUME NEW r \in Record, Out(r) \notin drops', held[r] \cap State # {}, at[r] = "idle",
                      r \notin kept, Out(r) \notin drops
               PROVE  readers'[Out(r)] > 0
    BY DEF HoldsGo
  <1>1. readers[Out(r)] > 0 /\ Out(r) \in Key
    BY Keys DEF HoldsGo
  <1>2. readers'[Out(r)] # 0 /\ readers'[Out(r)] \in Nat
    BY <1>1, CountsBoth DEF Emptying
  <1> QED
    BY <1>2

\* An action that does no step, and says which records ended.
LEMMA Unmoved ==
  ASSUME TellInv, ReadInv', Emptying,
         UNCHANGED <<steps, added, busy, driver, computed, stopped, frozen, released>>,
         drops \cap State \subseteq drops', ready \subseteq ready',
         \A r \in Record : Pending(r) => Pending(r)' \/ HasSteps \subseteq ready'
  PROVE  Told' /\ DriversGo' /\ StepsGo'
  <1>0. ReadInv /\ Told /\ DriversGo /\ StepsGo
    BY DEF TellInv
  <1>1. \A a \in Acc : <<a, added[a]>> \in drops => <<a, added[a]>> \in drops'
    <2> SUFFICES ASSUME NEW a \in Acc, <<a, added[a]>> \in drops PROVE <<a, added[a]>> \in drops'
      OBVIOUS
    <2>1. <<a, added[a]>> \in Key
      BY <1>0 DEF ReadInv, CoreInv, Types
    <2>2. <<a, added[a]>> \in State
      <3> SUFFICES ASSUME <<a, added[a]>> \notin State PROVE FALSE
        OBVIOUS
      <3>1. PICK r \in Record : <<a, added[a]>> = Out(r)
        BY <2>1, Keys
      <3>2. Out(r)[1] = a
        BY <3>1
      <3> QED
        BY <3>2, Keys
    <2> QED
      BY <2>2
  <1>2. Told'
    <2> SUFFICES ASSUME NEW a \in Acc, steps[a] # <<>>, ~busy[a], a \notin ready'
                 PROVE  /\ a \notin ready
                        /\ \A r \in Head(steps[a]) : Pending(r) => Pending(r)'
      BY <1>0, <1>1, ToldStays
    <2>1. Head(steps[a]) \subseteq Record
      BY <1>0 DEF ReadInv, CoreInv, Types
    <2>2. a \in HasSteps
      BY DEF HasSteps
    <2> QED
      BY <2>1, <2>2
  <1>3. DriversGo'
    <2>1. \A a \in Acc : Gone(a) => Gone(a)'
      BY DEF Gone
    <2> QED
      BY <1>0, <1>1, <2>1, DriversGoStays
  <1>4. StepsGo'
    <2>1. \A a \in Acc, n \in 0..MaxPushes : <<a, n>> \in drops => <<a, n>> \in drops'
      BY Keys
    <2> QED
      BY <1>0, <2>1, StepsGoStays
  <1> QED
    BY <1>2, <1>3, <1>4

\* A call goes on, or the client lets go or cancels.
LEMMA LightTells ==
  ASSUME TellInv, ReadInv', Asked', Emptying,
         UNCHANGED <<status, waiting, queued, dependents, held, at, steps, added, busy, driver,
                     computed, stopped, frozen, released>>,
         todo \subseteq todo', drops \subseteq drops', ready \subseteq ready',
         \A r \in kept : r \in kept' \/ Out(r) \in drops'
  PROVE  TellInv'
  <1>0. ReadInv /\ Scheduled /\ HoldsGo
    BY DEF TellInv
  <1>1. Told' /\ DriversGo' /\ StepsGo'
    BY Unmoved DEF Pending
  <1>2. Scheduled'
    BY <1>0, ScheduledStays
  <1>3. HoldsGo'
    BY <1>0, HoldsGoStays
  <1> QED
    BY <1>1, <1>2, <1>3 DEF TellInv

LEMMA Keeping == UNCHANGED readers => Emptying
  BY DEF Emptying

LEMMA EnterTells ==
  ASSUME TellInv, NEW t \in Thread, NEW op, NEW phase, NEW pins \in SUBSET State, NEW requests,
         Enter(t, op, phase, pins, requests),
         op = "submit" => \A p \in pins : \E i \in DOMAIN requests : p[1] \in requests[i].accs,
         ReadInv'
  PROVE  TellInv'
  <1>0. ReadInv /\ Asked
    BY DEF TellInv
  <1>1. /\ call' = [call EXCEPT ![t] = [op |-> op, phase |-> phase, pins |-> pins, requests |-> requests]]
        /\ readers' = [k \in Key |-> readers[k] + Once(pins)[k]]
        /\ kept' = kept
        /\ UNCHANGED <<status, waiting, queued, dependents, held, at, steps, added, busy, driver,
                       computed, stopped, frozen, released, todo, drops, ready>>
    BY DEF Enter, history, running, progress, work
  <1>2. Emptying
    <2> SUFFICES ASSUME NEW k \in Key, readers[k] > 0 PROVE readers'[k] # 0
      BY DEF Emptying
    <2>1. readers[k] \in Nat /\ Once(pins)[k] \in {0, 1} /\ readers'[k] = readers[k] + Once(pins)[k]
      BY <1>0, <1>1, CountsBoth DEF Once
    <2> QED
      BY <2>1
  <1>3. Asked'
    <2>1. call'[t] = [op |-> op, phase |-> phase, pins |-> pins, requests |-> requests]
          /\ \A u \in Thread \ {t} : call'[u] = call[u]
      BY <1>0, <1>1 DEF ReadInv, CoreInv, Types
    <2> QED
      BY <1>0, <2>1 DEF Asked
  <1> QED
    BY <1>1, <1>2, <1>3, LightTells

LEMMA CallTells ==
  ASSUME TellInv, NEW t \in Thread, CallOf(t), ReadInv'
  PROVE  TellInv'
  <1>0. CoreInv
    BY DEF TellInv, ReadInv
  <1>1. \A accs : \A p \in Pins(accs) : p \in State /\ p[1] \in accs
    BY <1>0, PinsStates DEF Pins
  <1>2. ASSUME NEW k \in 1..MaxBatch, NEW requests \in Requests(k), PinStates(t, requests)
        PROVE  TellInv'
    <2> DEFINE pins == Pins(UNION {requests[i].accs : i \in DOMAIN requests})
    <2>1. Enter(t, "submit", "checking", pins, requests)
      BY <1>2 DEF PinStates
    <2>2. \A p \in pins : p \in State /\ \E i \in DOMAIN requests : p[1] \in requests[i].accs
      BY <1>1
    <2> HIDE DEF pins
    <2> QED
      BY <2>1, <2>2, EnterTells
  <1>3. ASSUME NEW a \in Acc, NEW op \in {"freeze", "read"}, NEW phase,
               a \in open, ~stopped[a], Enter(t, op, phase, {<<a, pushes[a]>>}, <<>>)
        PROVE  TellInv'
    <2> DEFINE pins == {<<a, pushes[a]>>}
    <2>1. pins = Pins({a})
      BY <1>3 DEF Pins
    <2>2. pins \in SUBSET State
      BY <1>1, <2>1
    <2>3. Enter(t, op, phase, pins, <<>>)
      BY <1>3
    <2> HIDE DEF pins
    <2> QED
      BY <2>2, <2>3, EnterTells
  <1>4. ASSUME NEW a \in Acc, BeginFreeze(t, a) \/ BeginRead(t, a)
        PROVE  TellInv'
    BY <1>3, <1>4 DEF BeginFreeze, BeginRead
  <1> QED
    BY <1>2, <1>4 DEF CallOf

LEMMA ClientTells ==
  ASSUME TellInv, (\E r \in Existing : Cancel(r)) \/ ReleaseOne \/ CloseClient, ReadInv'
  PROVE  TellInv'
  <1>0. Asked
    BY DEF TellInv
  <1>1. ASSUME NEW r \in Existing, Cancel(r) PROVE TellInv'
    <2>1. /\ readers' = readers /\ kept' = kept /\ call' = call
          /\ todo = {} /\ drops = {} /\ ready' = ready
          /\ UNCHANGED <<status, waiting, queued, dependents, held, at, steps, added, busy, driver,
                         computed, stopped, frozen, released>>
      BY <1>1 DEF Cancel, history, client, reading, running, progress, flags, Locked
    <2> QED
      BY <1>0, <2>1, Keeping, LightTells DEF Asked
  <1>2. ASSUME NEW rs \in SUBSET kept, NEW accs \in SUBSET open, Release(rs, accs)
        PROVE  TellInv'
    <2>1. /\ readers' = readers /\ kept' = kept \ rs /\ call' = call
          /\ drops' = Sources(rs) /\ todo' = todo /\ ready' = ready /\ drops = {}
          /\ UNCHANGED <<status, waiting, queued, dependents, held, at, steps, added, busy, driver,
                         computed, stopped, frozen, released>>
      BY <1>2 DEF Release, history, reading, running, progress, flags, Locked
    <2>2. \A r \in kept : r \in kept' \/ Out(r) \in drops'
      BY <2>1 DEF Sources
    <2> QED
      BY <1>0, <2>1, <2>2, Keeping, LightTells DEF Asked
  <1>3. CASE ReleaseOne \/ CloseClient
    BY <1>2, <1>3 DEF ReleaseOne, CloseClient
  <1> QED
    BY <1>1, <1>3

\* Outputs are computed of a state that is read.
LEMMA ComputeTells ==
  ASSUME TellInv, ReadInv', Asked', Scheduled', HoldsGo',
         NEW s \in State, readers[s] > 0, added[s[1]] = s[2], Compute(s[1]) \/ UNCHANGED computed,
         UNCHANGED <<status, readers, steps, added, busy, driver, stopped, frozen, released, drops, ready>>
  PROVE  TellInv'
  <1>0. ReadInv /\ Told /\ DriversGo /\ StepsGo /\ Emptying
    BY Keeping DEF TellInv
  <1>1. s[1] \in Acc /\ ~Unread(s[1])'
    BY <1>0, Current, Keys DEF Unread
  <1>2. \A a \in Acc \ {s[1]} : computed'[a] = computed[a]
    BY <1>0, <1>1 DEF Compute, ReadInv, CoreInv, Types
  <1>3. Told'
    BY <1>0, ToldStays DEF Pending
  <1>4. DriversGo'
    <2>1. \A a \in Acc : ~Unread(a)' \/ (Gone(a) => Gone(a)')
      BY <1>1, <1>2 DEF Gone
    <2> QED
      BY <1>0, <2>1, DriversGoStays
  <1>5. StepsGo'
    BY <1>0, StepsGoStays
  <1> QED
    BY <1>3, <1>4, <1>5 DEF TellInv

LEMMA CallStepTells ==
  ASSUME TellInv, NEW t \in Thread, Refuse(t) \/ StopWaiting(t) \/ Copy(t) \/ EndCall(t), ReadInv'
  PROVE  TellInv'
  <1>0. ReadInv /\ CoreInv /\ Types /\ Asked /\ Scheduled /\ HoldsGo
    BY DEF TellInv, ReadInv, CoreInv
  <1>1. ASSUME NEW phase, call' = [call EXCEPT ![t].phase = phase] PROVE Asked'
    <2>1. \A u \in Thread : call'[u].op = call[u].op /\ call'[u].pins = call[u].pins
                            /\ call'[u].requests = call[u].requests
      BY <1>0, <1>1 DEF Types, Calls
    <2> QED
      BY <1>0, <2>1 DEF Asked
  <1>2. CASE Refuse(t) \/ StopWaiting(t)
    <2>1. /\ \E phase : call' = [call EXCEPT ![t].phase = phase]
          /\ readers' = readers /\ kept' = kept
          /\ UNCHANGED <<status, waiting, queued, dependents, held, at, steps, added, busy, driver,
                         computed, stopped, frozen, released, todo, drops, ready>>
      BY <1>2 DEF Refuse, StopWaiting, history, reading, running, progress, flags, work
    <2> QED
      BY <1>1, <2>1, Keeping, LightTells
  <1>3. CASE Copy(t)
    <2>1. PICK p \in call[t].pins :
            /\ call[t].phase = "copying"
            /\ Compute(p[1]) \/ UNCHANGED computed
            /\ call' = [call EXCEPT ![t].phase = "ending"]
            /\ UNCHANGED <<status, readers, kept, waiting, queued, dependents, held, at, steps, added,
                           busy, driver, stopped, frozen, released, todo, drops, ready>>
      BY <1>3 DEF Copy, history, reading, running, flags, work
    <2>2. p \in State /\ readers[p] > 0 /\ added[p[1]] = p[2]
      BY <1>0, <2>1, Holding DEF ReadInv, Waits
    <2>3. Scheduled'
      BY <1>0, <2>1, ScheduledStays
    <2>4. HoldsGo'
      BY <1>0, <2>1 DEF HoldsGo
    <2> QED
      BY <1>1, <2>1, <2>2, <2>3, <2>4, ComputeTells
  <1>4. CASE EndCall(t)
    <2> DEFINE less == Once(call[t].pins)
    <2>1. /\ call' = [call EXCEPT ![t] = Idle]
          /\ LetGo(less) /\ drops' = Emptied(less) /\ drops = {}
          /\ kept' = kept
          /\ UNCHANGED <<status, waiting, queued, dependents, held, at, steps, added, busy, driver,
                         computed, stopped, frozen, released, todo, ready>>
      BY <1>4 DEF EndCall, history, running, progress, Locked
    <2>2. \A k \in Key : less[k] \in Int
      BY OnceInt
    <2> HIDE DEF less
    <2>3. Emptying
      BY <1>0, <2>1, <2>2, Empties
    <2>4. Asked'
      <3>1. call'[t] = Idle /\ \A u \in Thread \ {t} : call'[u] = call[u]
        BY <1>0, <2>1 DEF Types
      <3> QED
        BY <1>0, <3>1 DEF Asked, Idle
    <2> QED
      BY <2>1, <2>3, <2>4, LightTells
  <1> QED
    BY <1>2, <1>3, <1>4

-----------------------------------------------------------------------------
(* Records *)

LEMMA AskedStays == Asked /\ UNCHANGED call => Asked'
  BY DEF Asked

LEMMA StartTells ==
  ASSUME TellInv, NEW r \in Record, Start(r), ReadInv'
  PROVE  TellInv'
  <1>0. ReadInv /\ CoreInv /\ Types /\ Scheduled /\ HoldsGo /\ Asked'
    BY AskedStays DEF TellInv, ReadInv, CoreInv, Start, client
  <1>1. /\ r \in queued /\ queued' = queued \ {r}
        /\ kept' = kept /\ readers' = readers
        /\ UNCHANGED <<status, waiting, dependents, steps, added, busy, driver, computed, stopped,
                       frozen, released, todo, drops, ready>>
        /\ IF Pending(r)
           THEN at' = [at EXCEPT ![r] = "computing"] /\ held' = [held EXCEPT ![r] = unread[r]]
           ELSE at' = at /\ held' = held
    BY DEF Start, client, history, progress, flags, work
  <1>2. /\ \A x \in Record : x # r \/ ~Pending(r) => at'[x] = at[x] /\ held'[x] = held[x]
        /\ Pending(r) => at'[r] = "computing"
    BY <1>0, <1>1 DEF Types
  <1>3. Told' /\ DriversGo' /\ StepsGo'
    BY <1>1, Keeping, Unmoved DEF Pending
  <1>4. Scheduled'
    <2>1. waiting[r] = {}
      BY <1>0, <1>1 DEF CoreInv, Places
    <2> QED
      BY <1>0, <1>1, <1>2, <2>1 DEF Scheduled, Pending
  <1>5. HoldsGo'
    BY <1>0, <1>1, <1>2 DEF HoldsGo
  <1> QED
    BY <1>0, <1>3, <1>4, <1>5 DEF TellInv

LEMMA ReturnTells ==
  ASSUME TellInv, NEW r \in Record, Return(r) \/ ReturnState(r), ReadInv'
  PROVE  TellInv'
  <1>0. ReadInv /\ CoreInv /\ Types /\ Scheduled /\ HoldsGo /\ Asked'
    BY AskedStays DEF TellInv, ReadInv, CoreInv, Return, ReturnState, client
  <1>1. CASE Return(r)
    <2> DEFINE less == Once(held[r])
    <2>1. /\ at[r] = "computing" /\ at' = [at EXCEPT ![r] = "returned"]
          /\ held' = [held EXCEPT ![r] = {}]
          /\ LetGo(less) /\ drops' = Emptied(less) /\ drops = {} /\ kept' = kept
          /\ UNCHANGED <<status, waiting, queued, dependents, steps, added, busy, driver, computed,
                         stopped, frozen, released, todo, ready>>
      BY <1>1 DEF Return, client, history, progress, flags, Locked
    <2>2. \A k \in Key : less[k] \in Int
      BY OnceInt
    <2> HIDE DEF less
    <2>3. Emptying
      BY <1>0, <2>1, <2>2, Empties
    <2>4. Told' /\ DriversGo' /\ StepsGo'
      BY <2>1, <2>3, Unmoved DEF Pending
    <2>5. Scheduled'
      BY <1>0, <2>1, ScheduledStays DEF Types
    <2>6. HoldsGo'
      BY <1>0, <2>1, <2>3, HoldsGoStays DEF Types
    <2> QED
      BY <1>0, <2>4, <2>5, <2>6 DEF TellInv
  <1>2. CASE ReturnState(r)
    <2>1. PICK k \in held[r] \cap State :
            /\ at[r] = "computing" /\ at' = [at EXCEPT ![r] = "returned"]
            /\ Compute(k[1])
            /\ kept' = kept
            /\ UNCHANGED <<status, readers, held, waiting, queued, dependents, steps, added, busy, driver,
                           stopped, frozen, released, todo, drops, ready>>
      BY <1>2 DEF ReturnState, client, history, reading, flags, work
    <2>2. readers[k] > 0 /\ added[k[1]] = k[2]
      BY <1>0, Holding DEF ReadInv, Waits, There
    <2>3. Scheduled'
      BY <1>0, <2>1, ScheduledStays DEF Types
    <2>4. HoldsGo'
      BY <1>0, <2>1 DEF HoldsGo, Types
    <2> QED
      BY <1>0, <2>1, <2>2, <2>3, <2>4, ComputeTells
  <1> QED
    BY <1>1, <1>2

\* A record that fails or is cancelled leaves word for those that wait for it.
LEMMA EndsScheduled ==
  ASSUME ReadInv, Scheduled, NEW r \in Record, NEW how, how \notin {"none", "pending"},
         status' = [status EXCEPT ![r] = how],
         waiting'[r] = {},
         \A x \in Record \ {r} : waiting'[x] = waiting[x] /\ (at'[x] = "idle" <=> at[x] = "idle"),
         \A k \in Key : dependents'[k] = IF k = Out(r) THEN {} ELSE dependents[k] \ {r},
         Fails(r) \subseteq todo',
         \A x \in Record \ {r} : <<x, "failed">> \in todo => <<x, "failed">> \in todo',
         UNCHANGED <<queued, stopped, added>>
  PROVE  Scheduled'
  <1>1. status'[r] = how /\ \A x \in Record \ {r} : status'[x] = status[x]
    BY DEF ReadInv, CoreInv, Types
  <1> SUFFICES ASSUME NEW x \in Record
               PROVE  /\ Pending(x)' => (waiting'[x] # {} <=> x \notin queued' /\ at'[x] = "idle")
                      /\ \A k \in waiting'[x] : x \in dependents'[k] \/ <<x, "failed">> \in todo'
                      /\ \A k \in Key : x \in dependents'[k] =>
                            /\ Pending(x)' /\ k \in waiting'[x]
                            /\ IF k \in State THEN ~stopped'[k[1]] /\ added'[k[1]] # k[2]
                               ELSE Pending(k[2])'
    BY DEF Scheduled
  <1>2. CASE x = r
    BY <1>1, <1>2 DEF Pending
  <1>3. CASE x # r
    <2>1. Pending(x)' <=> Pending(x)
      BY <1>1, <1>3 DEF Pending
    <2>2. \A k \in waiting'[x] : x \in dependents'[k] \/ <<x, "failed">> \in todo'
      <3> SUFFICES ASSUME NEW k \in waiting[x], x \in dependents[k]
                   PROVE  x \in dependents'[k] \/ <<x, "failed">> \in todo'
        BY <1>3 DEF Scheduled
      <3>1. k \in Key
        BY DEF ReadInv, CoreInv, Types
      <3>2. CASE k = Out(r)
        BY <3>2 DEF Fails
      <3>3. CASE k # Out(r)
        BY <1>3, <3>1, <3>3
      <3> QED
        BY <3>2, <3>3
    <2>3. ASSUME NEW k \in Key, x \in dependents'[k]
          PROVE  /\ Pending(x) /\ k \in waiting[x]
                 /\ IF k \in State THEN ~stopped[k[1]] /\ added[k[1]] # k[2] ELSE Pending(k[2])'
      <3>1. k # Out(r) /\ x \in dependents[k]
        BY <2>3
      <3>2. k \notin State => k[2] \in Record /\ k[2] # r
        BY <3>1, Keys
      <3>3. /\ Pending(x) /\ k \in waiting[x]
            /\ IF k \in State THEN ~stopped[k[1]] /\ added[k[1]] # k[2] ELSE Pending(k[2])
        BY <3>1 DEF Scheduled
      <3>4. k \notin State => Pending(k[2])'
        BY <1>1, <3>2, <3>3 DEF Pending
      <3> QED
        BY <3>3, <3>4
    <2> QED
      BY <1>3, <2>1, <2>2, <2>3 DEF Scheduled
  <1> QED
    BY <1>2, <1>3

LEMMA RaiseTells ==
  ASSUME TellInv, NEW r \in Record, Raise(r), ReadInv'
  PROVE  TellInv'
  <1>0. ReadInv /\ CoreInv /\ Types /\ Scheduled /\ HoldsGo /\ Asked'
    BY AskedStays DEF TellInv, ReadInv, CoreInv, Raise, client
  <1> DEFINE less == Once(held[r])
  <1>1. /\ at[r] = "computing" /\ at' = [at EXCEPT ![r] = "idle"]
        /\ LetGo(less) /\ drops' = Emptied(less) /\ held' = [held EXCEPT ![r] = {}]
        /\ todo = {} /\ drops = {} /\ ready = {} /\ kept' = kept
        /\ UNCHANGED <<waiting, queued, steps, added, busy, driver, computed, stopped, frozen, released>>
        /\ IF Pending(r)
           THEN /\ status' = [status EXCEPT ![r] = "failed"]
                /\ dependents' = [dependents EXCEPT ![Out(r)] = {}]
                /\ todo' = Fails(r)
                /\ ready' = HasSteps
           ELSE UNCHANGED <<status, dependents, todo, ready>>
    BY DEF Raise, client, progress, flags, Locked
  <1>2. \A k \in Key : less[k] \in Int
    BY OnceInt
  <1> HIDE DEF less
  <1>3. Emptying
    BY <1>0, <1>1, <1>2, Empties
  <1>4. Told' /\ DriversGo' /\ StepsGo'
    <2>1. \A x \in Record : Pending(x) => Pending(x)' \/ HasSteps \subseteq ready'
      BY <1>1 DEF Pending
    <2> QED
      BY <1>1, <1>3, <2>1, Unmoved
  <1>5. waiting[r] = {} /\ \A k \in Key : r \notin dependents[k]
    <2>1. waiting[r] = {}
      BY <1>0, <1>1 DEF CoreInv, Places
    <2> QED
      BY <1>0, <2>1 DEF Scheduled
  <1>6. Scheduled'
    <2>1. \A x \in Record \ {r} : at'[x] = at[x]
      BY <1>0, <1>1 DEF Types
    <2>2. CASE Pending(r)
      <3>1. \A k \in Key : dependents'[k] = IF k = Out(r) THEN {} ELSE dependents[k] \ {r}
        BY <1>0, <1>1, <1>5, <2>2 DEF Types
      <3> QED
        BY <1>0, <1>1, <1>5, <2>1, <2>2, <3>1, EndsScheduled
    <2>3. CASE ~Pending(r)
      BY <1>0, <1>1, <2>1, <2>3, ScheduledStays
    <2> QED
      BY <2>2, <2>3
  <1>7. HoldsGo'
    <2>1. held'[r] = {} /\ \A x \in Record \ {r} : held'[x] = held[x] /\ at'[x] = at[x]
      BY <1>0, <1>1 DEF Types
    <2> QED
      BY <1>0, <1>1, <1>3, <2>1, HoldsGoStays
  <1> QED
    BY <1>0, <1>4, <1>6, <1>7 DEF TellInv

LEMMA FinishTells ==
  ASSUME TellInv, NEW r \in Record, NEW how \in {"failed", "cancelled"}, FinishNext(r, how), ReadInv'
  PROVE  TellInv'
  <1>0. ReadInv /\ CoreInv /\ Types /\ Scheduled /\ HoldsGo /\ Asked'
    BY AskedStays DEF TellInv, ReadInv, CoreInv, FinishNext, client
  <1>1. /\ kept' = kept
        /\ UNCHANGED <<held, queued, at, steps, added, busy, driver, computed, stopped, frozen, released>>
    BY DEF FinishNext, client, progress, flags
  <1>2. CASE Pending(r)
    <2> DEFINE less == Once(unread[r])
    <2>1. /\ status' = [status EXCEPT ![r] = how]
          /\ LetGo(less) /\ drops' = drops \cup Emptied(less)
          /\ waiting' = [waiting EXCEPT ![r] = {}]
          /\ dependents' = [k \in Key |->
                              IF k = Out(r) THEN {}
                              ELSE dependents[k] \ {d \in {r} : k \in waiting[d]}]
          /\ todo' = (todo \ {<<r, how>>}) \cup Fails(r)
          /\ ready' = ready \cup HasSteps
      BY <1>2 DEF FinishNext
    <2>2. \A k \in Key : less[k] \in Int
      BY OnceInt
    <2> HIDE DEF less
    <2>3. Emptying
      BY <1>0, <2>1, <2>2, Empties
    <2>4. Told' /\ DriversGo' /\ StepsGo'
      BY <1>1, <2>1, <2>3, Unmoved
    <2>5. Scheduled'
      <3>1. \A k \in Key : dependents'[k] = IF k = Out(r) THEN {} ELSE dependents[k] \ {r}
        BY <1>0, <2>1 DEF Scheduled
      <3>2. waiting'[r] = {} /\ \A x \in Record \ {r} : waiting'[x] = waiting[x]
        BY <1>0, <2>1 DEF Types
      <3>3. \A x \in Record \ {r} : <<x, "failed">> \in todo => <<x, "failed">> \in todo'
        BY <2>1
      <3> QED
        BY <1>0, <1>1, <2>1, <3>1, <3>2, <3>3, EndsScheduled
    <2>6. HoldsGo'
      BY <1>0, <1>1, <2>1, <2>3, HoldsGoStays
    <2> QED
      BY <1>0, <2>4, <2>5, <2>6 DEF TellInv
  <1>3. CASE ~Pending(r)
    <2>1. /\ todo' = todo \ {<<r, how>>}
          /\ UNCHANGED <<status, readers, drops, waiting, dependents, ready>>
      BY <1>3 DEF FinishNext
    <2>2. Told' /\ DriversGo' /\ StepsGo'
      BY <1>1, <2>1, Keeping, Unmoved DEF Pending
    <2>3. waiting[r] = {}
      BY <1>0, <1>3 DEF CoreInv, Places
    <2>4. Scheduled'
      BY <1>0, <1>1, <2>1, <2>3 DEF Scheduled, Pending
    <2>5. HoldsGo'
      BY <1>0, <1>1, <2>1 DEF HoldsGo
    <2> QED
      BY <1>0, <2>2, <2>4, <2>5 DEF TellInv
  <1> QED
    BY <1>2, <1>3

LEMMA DropRecordTells ==
  ASSUME TellInv, NEW r \in Record, DropRecord(r), ReadInv'
  PROVE  TellInv'
  <1>0. ReadInv /\ CoreInv /\ Types /\ Scheduled /\ HoldsGo /\ Asked'
    BY AskedStays DEF TellInv, ReadInv, CoreInv, DropRecord, client
  <1> DEFINE gone == r \notin kept /\ readers[Out(r)] = 0 /\ ~Pending(r)
             leaves == IF gone THEN LeavesState(r) ELSE {}
             less == Once(leaves)
  <1>1. /\ todo \subseteq todo'
        /\ held' = [held EXCEPT ![r] = IF gone THEN @ \ LeavesState(r) ELSE @]
        /\ LetGo(less) /\ drops' = (drops \ {Out(r)}) \cup Emptied(less)
        /\ kept' = kept
        /\ UNCHANGED <<status, waiting, queued, dependents, at, steps, added, busy, driver, computed,
                       stopped, frozen, released, ready>>
    BY DEF DropRecord, client, history, running, progress, flags
  <1>2. \A k \in Key : less[k] \in Int
    BY OnceInt
  <1>3. ~gone => readers'[Out(r)] = readers[Out(r)]
    <2> SUFFICES ASSUME ~gone PROVE readers'[Out(r)] = readers[Out(r)]
      OBVIOUS
    <2>1. Out(r) \in Key /\ readers[Out(r)] \in Int
      BY <1>0, Keys DEF Types
    <2>2. readers'[Out(r)] = readers[Out(r)] - 0
      BY <1>1, <2>1 DEF LetGo, Once
    <2> QED
      BY <2>1, <2>2
  <1> HIDE DEF less
  <1>4. Emptying
    BY <1>0, <1>1, <1>2, Empties
  <1>5. Told' /\ DriversGo' /\ StepsGo'
    BY <1>1, <1>4, Keys, Unmoved DEF Pending
  <1>6. Scheduled'
    BY <1>0, <1>1, ScheduledStays
  <1>7. HoldsGo'
    <2>1. ASSUME NEW x \in Record \ {r}, held'[x] \cap State # {}, at[x] = "idle"
          PROVE  held[x] \cap State # {} /\ (Out(x) \in drops => Out(x) \in drops')
      BY <1>0, <1>1, <2>1 DEF Types, Out
    <2>2. ASSUME held'[r] \cap State # {}, at[r] = "idle"
          PROVE  r \in kept \/ readers'[Out(r)] > 0
      <3>1. held'[r] = IF gone THEN held[r] \ LeavesState(r) ELSE held[r]
        BY <1>0, <1>1 DEF Types
      <3>2. held[r] \cap State # {}
        BY <2>2, <3>1
      <3>3. r \in stateOf /\ status[r] = "completed"
        BY <1>0, <2>2, <3>2 DEF CoreInv, Places
      <3>4. ~gone
        BY <2>2, <3>1, <3>3 DEF LeavesState
      <3>5. r \in kept \/ readers[Out(r)] # 0
        BY <3>3, <3>4 DEF Pending
      <3>6. readers[Out(r)] \in Nat
        BY <1>0, CountsBoth, Keys
      <3> QED
        BY <1>3, <3>4, <3>5, <3>6
    <2> QED
      BY <1>0, <1>1, <1>4, <2>1, <2>2, HoldsGoStays
  <1> QED
    BY <1>0, <1>5, <1>6, <1>7 DEF TellInv

\* Those that wait for a key that comes wait for it no more.
LEMMA SatisfyTells ==
  ASSUME ReadInv, Scheduled, todo = {}, NEW key \in Key, Satisfy(key), NEW x \in Record
  PROVE  /\ Pending(x) => (waiting'[x] # {} <=> x \notin queued' /\ at[x] = "idle")
         /\ \A k \in waiting'[x] : x \in dependents'[k]
         /\ \A k \in Key : x \in dependents'[k] => k # key /\ x \in dependents[k] /\ k \in waiting'[x]
  <1>0. CoreInv /\ Types
    BY DEF ReadInv, CoreInv
  <1>1. /\ queued \subseteq queued'
        /\ waiting'[x] = IF x \in dependents[key] THEN waiting[x] \ {key} ELSE waiting[x]
        /\ x \in queued' /\ x \notin queued => waiting[x] = {key} /\ x \in dependents[key]
        /\ x \in dependents[key] /\ waiting[x] = {key} => x \in queued'
        /\ dependents' = [dependents EXCEPT ![key] = {}]
    BY <1>0, Satisfies
  <1>2. dependents'[key] = {} /\ \A k \in Key \ {key} : dependents'[k] = dependents[k]
    BY <1>0, <1>1 DEF Types
  <1>3. waiting[x] \subseteq Key /\ \A k \in waiting[x] : x \in dependents[k]
    BY <1>0 DEF Scheduled, Types
  <1>4. \A k \in Key : x \in dependents[k] => Pending(x) /\ k \in waiting[x]
    BY DEF Scheduled
  <1>5. Pending(x) => (waiting[x] # {} <=> x \notin queued /\ at[x] = "idle")
    BY DEF Scheduled
  <1>6. Pending(x) => (waiting'[x] # {} <=> x \notin queued' /\ at[x] = "idle")
    <2>1. CASE x \in dependents[key]
      BY <1>1, <1>4, <1>5, <2>1
    <2>2. CASE x \notin dependents[key]
      BY <1>1, <1>5, <2>2
    <2> QED
      BY <2>1, <2>2
  <1>7. \A k \in waiting'[x] : x \in dependents'[k]
    <2> SUFFICES ASSUME NEW k \in waiting'[x] PROVE x \in dependents'[k]
      OBVIOUS
    <2>1. k \in waiting[x] /\ k \in Key /\ x \in dependents[k]
      BY <1>1, <1>3
    <2>2. k # key
      BY <1>1, <1>3, <2>1
    <2> QED
      BY <1>2, <2>1, <2>2
  <1>8. \A k \in Key : x \in dependents'[k] => k # key /\ x \in dependents[k] /\ k \in waiting'[x]
    BY <1>1, <1>2, <1>4
  <1> QED
    BY <1>6, <1>7, <1>8

\* A freeze's record runs only once the pushes are added.
LEMMA FreezeRuns ==
  ASSUME ReadInv, NEW r \in Record, at[r] # "idle", Pending(r), NEW a \in FreezeOf(r)
  PROVE  a \in Acc /\ added[a] = pushes[a] /\ steps[a] = <<>> /\ ~Unread(a)
  <1>1. a \in Acc /\ frozen[a] = r /\ r # 0
    BY Counts DEF FreezeOf
  <1>2. refs[r] = {<<a, pushes[a]>>}
    BY <1>1 DEF ReadInv, CoreInv, Frozen
  <1>3. frozen[a] # 0 => pushes[a] # None
    BY DEF ReadInv, CoreInv, Fresh, FreezeOf
  <1>4. <<a, pushes[a]>> \in State
    <2>1. pushes[a] \in None..MaxPushes /\ pushes[a] # None
      BY <1>1, <1>3 DEF ReadInv, CoreInv, Types
    <2>2. pushes[a] \in 0..MaxPushes
      BY <2>1, Counts DEF None
    <2> QED
      BY <1>1, <2>2, Keys
  <1>5. <<a, pushes[a]>> \in held[r]
    BY <1>2, <1>4 DEF ReadInv, CoreInv, Places
  <1>6. readers[<<a, pushes[a]>>] > 0 /\ There(<<a, pushes[a]>>)
    BY <1>5, Holding DEF ReadInv, Waits
  <1>7. added[a] = pushes[a] /\ ~Unread(a)
    BY <1>4, <1>6, Current DEF There
  <1>8. steps[a] = <<>>
    <2>1. /\ added[a] + Len(steps[a]) <= pushes[a] /\ added[a] \in None..MaxPushes
          /\ steps[a] \in Seq(SUBSET Record)
      BY <1>1 DEF ReadInv, CoreInv, Types, Progress
    <2>2. Len(steps[a]) \in Nat /\ (Len(steps[a]) = 0 => steps[a] = <<>>)
      BY <2>1, LenProperties, EmptySeq
    <2>3. added[a] \in Int
      BY <2>1 DEF None
    <2>4. Len(steps[a]) = 0
      BY <1>7, <2>1, <2>2, <2>3
    <2> QED
      BY <2>2, <2>4
  <1> QED
    BY <1>1, <1>7, <1>8

LEMMA CompleteTells ==
  ASSUME TellInv, NEW r \in Record, Complete(r), ReadInv'
  PROVE  TellInv'
  <1>0. ReadInv /\ CoreInv /\ Types /\ Scheduled /\ HoldsGo /\ Told /\ DriversGo /\ StepsGo /\ Asked'
    BY AskedStays DEF TellInv, ReadInv, CoreInv, Complete, client
  <1> DEFINE less == Once(LeavesAtEnd(r))
  <1>1. /\ at[r] = "returned" /\ at' = [at EXCEPT ![r] = "idle"]
        /\ LetGo(less) /\ held' = [held EXCEPT ![r] = @ \ LeavesAtEnd(r)]
        /\ drops' = Emptied(less) \cup {Out(d) : d \in {x \in {r} : Pending(x)}}
        /\ todo = {} /\ drops = {} /\ ready = {} /\ todo' = todo /\ kept' = kept
        /\ UNCHANGED <<steps, added, busy, driver, computed, frozen, released>>
        /\ IF Pending(r)
           THEN /\ status' = [status EXCEPT ![r] = "completed"]
                /\ Satisfy(Out(r))
                /\ ready' = HasSteps
                /\ stopped' = [a \in Acc |-> stopped[a] \/ a \in FreezeOf(r)]
           ELSE UNCHANGED <<status, waiting, dependents, queued, ready, stopped>>
    BY DEF Complete, client, progress, Locked
  <1>2. \A k \in Key : less[k] \in Int
    BY OnceInt
  <1> HIDE DEF less
  <1>3. Emptying
    BY <1>0, <1>1, <1>2, Empties
  <1>4. /\ at'[r] = "idle" /\ held'[r] = held[r] \ LeavesAtEnd(r)
        /\ \A x \in Record \ {r} : at'[x] = at[x] /\ held'[x] = held[x]
    BY <1>0, <1>1 DEF Types
  <1>5. \A a \in Acc : stopped'[a] = stopped[a] \/ (Pending(r) /\ a \in FreezeOf(r))
    BY <1>0, <1>1 DEF Types
  <1>6. Told'
    <2> SUFFICES ASSUME NEW a \in Acc, steps[a] # <<>>, a \notin ready'
                 PROVE  \A x \in Head(steps[a]) : Pending(x) => Pending(x)'
      BY <1>0, <1>1, <1>3, ToldStays
    <2>1. a \in HasSteps
      BY DEF HasSteps
    <2> QED
      BY <1>1, <2>1 DEF Pending
  <1>7. DriversGo'
    <2> SUFFICES ASSUME NEW a \in Acc, Unread(a), Gone(a) PROVE Gone(a)'
      BY <1>0, <1>1, <1>3, DriversGoStays
    <2>1. ~(Pending(r) /\ a \in FreezeOf(r))
      BY <1>0, <1>1, FreezeRuns
    <2> QED
      BY <1>1, <1>5, <2>1 DEF Gone
  <1>8. StepsGo'
    BY <1>0, <1>1, <1>3, StepsGoStays
  <1>9. HoldsGo'
    <2>1. Pending(r) => Out(r) \in drops'
      BY <1>1
    <2>2. ~Pending(r) => held'[r] = {}
      BY <1>4 DEF LeavesAtEnd
    <2> QED
      BY <1>0, <1>1, <1>3, <1>4, <2>1, <2>2, HoldsGoStays
  <1>10. Scheduled'
    <2>1. waiting[r] = {} /\ \A k \in Key : r \notin dependents[k]
      <3>1. waiting[r] = {}
        BY <1>0, <1>1 DEF CoreInv, Places
      <3> QED
        BY <1>0, <3>1 DEF Scheduled
    <2>2. CASE ~Pending(r)
      BY <1>0, <1>1, <1>4, <2>2, ScheduledStays
    <2>3. CASE Pending(r)
      <3>0. Out(r) \in Key /\ Satisfy(Out(r))
        BY <1>1, <2>3, Keys
      <3>1. \A x \in Record :
              /\ Pending(x) => (waiting'[x] # {} <=> x \notin queued' /\ at[x] = "idle")
              /\ \A k \in waiting'[x] : x \in dependents'[k]
              /\ \A k \in Key : x \in dependents'[k] =>
                    k # Out(r) /\ x \in dependents[k] /\ k \in waiting'[x]
        BY <1>0, <1>1, <3>0, SatisfyTells
      <3>2. status'[r] = "completed" /\ \A x \in Record \ {r} : status'[x] = status[x]
        BY <1>0, <1>1, <2>3 DEF Types
      <3>3. \A x \in Record : Pending(x)' => x # r /\ Pending(x) /\ at'[x] = at[x]
        BY <1>4, <3>2 DEF Pending
      <3>4. ASSUME NEW x \in Record, NEW k \in Key, x \in dependents'[k]
            PROVE  /\ Pending(x)' /\ k \in waiting'[x]
                   /\ IF k \in State THEN ~stopped'[k[1]] /\ added[k[1]] # k[2] ELSE Pending(k[2])'
        <4>1. k # Out(r) /\ x \in dependents[k] /\ k \in waiting'[x] /\ x # r
          BY <2>1, <3>1, <3>4
        <4>2. /\ Pending(x)
              /\ IF k \in State THEN ~stopped[k[1]] /\ added[k[1]] # k[2] ELSE Pending(k[2])
          BY <1>0, <4>1 DEF Scheduled
        <4>3. Pending(x)'
          BY <3>2, <4>1, <4>2 DEF Pending
        <4>4. CASE k \in State
          <5>1. k[1] \in Acc /\ readers[k] > 0
            <6>1. k \in waiting[x]
              BY <1>0, <4>1 DEF Scheduled
            <6>2. k \in unread[x]
              BY <1>0, <6>1 DEF CoreInv, Places
            <6> QED
              BY <1>0, <4>4, <6>2, Holding, Keys
          <5>2. k[1] \notin FreezeOf(r)
            <6> SUFFICES ASSUME k[1] \in FreezeOf(r) PROVE FALSE
              OBVIOUS
            <6>1. steps[k[1]] = <<>>
              BY <1>0, <1>1, <2>3, FreezeRuns
            <6>2. k[2] \in 0..MaxPushes /\ k = <<k[1], k[2]>>
              BY <4>4, Keys
            <6>3. k[2] \in added[k[1]]..(added[k[1]] + Len(steps[k[1]]))
              BY <1>0, <4>2, <4>4, <5>1, <6>2 DEF ReadInv, Reached
            <6>4. Len(steps[k[1]]) = 0
              BY <6>1
            <6>5. added[k[1]] \in Int /\ k[2] \in Int
              BY <1>0, <5>1, <6>2, CountsBoth DEF None
            <6> QED
              BY <4>2, <4>4, <6>3, <6>4, <6>5
          <5> QED
            BY <1>5, <4>1, <4>2, <4>3, <4>4, <5>1, <5>2
        <4>5. CASE k \notin State
          <5>1. k[2] \in Record /\ k[2] # r
            BY <4>1, <4>5, Keys
          <5> QED
            BY <3>2, <4>1, <4>2, <4>3, <4>5, <5>1 DEF Pending
        <4> QED
          BY <4>4, <4>5
      <3> QED
        BY <1>1, <3>1, <3>3, <3>4 DEF Scheduled
    <2> QED
      BY <2>2, <2>3
  <1> QED
    BY <1>0, <1>6, <1>7, <1>8, <1>9, <1>10 DEF TellInv

-----------------------------------------------------------------------------
(* Accumulators *)

LEMMA CutEmpties ==
  ASSUME ReadInv, ReadInv', NEW a \in Acc, NEW i \in 0..Len(steps[a]), Cut(a, i),
         Emptied(OfSteps(Rest(a, i))) \subseteq drops'
  PROVE  Emptying
  <1> DEFINE less == OfSteps(Rest(a, i))
  <1>1. LetGo(less) /\ Emptied(less) \subseteq drops' /\ \A k \in Key : less[k] \in Int
    BY RestInt DEF Cut, ReadInv
  <1> HIDE DEF less
  <1> QED
    BY <1>1, Empties

LEMMA StopTells ==
  ASSUME TellInv, NEW a \in Acc, Stop(a), ready \ {a} \subseteq ready', ReadInv'
  PROVE  TellInv'
  <1>0. ReadInv /\ CoreInv /\ Types /\ Scheduled /\ HoldsGo /\ Told /\ DriversGo /\ StepsGo /\ Asked'
    BY AskedStays DEF TellInv, ReadInv, CoreInv, Stop, client
  <1>1. /\ stopped' = [stopped EXCEPT ![a] = TRUE]
        /\ busy' = [busy EXCEPT ![a] = FALSE]
        /\ Cut(a, 0)
        /\ drops' = drops \cup Emptied(OfSteps(Rest(a, 0)))
        /\ todo' = todo \cup FailsOf(a)
        /\ dependents' = [k \in Key |-> IF k[1] = a THEN {} ELSE dependents[k]]
        /\ driver' = [driver EXCEPT ![a] = IF Unread(a) THEN None ELSE @]
        /\ computed' = [computed EXCEPT ![a] = IF Unread(a) THEN None ELSE @]
        /\ UNCHANGED <<status, kept, call, unread, held, waiting, queued, at, added, released, frozen>>
    BY DEF Stop, client, history
  <1>2. Len(steps[a]) \in Nat /\ 0 \in 0..Len(steps[a])
    BY <1>0, LenProperties DEF Types
  <1>3. Emptying
    BY <1>0, <1>1, <1>2, CutEmpties
  <1>4. Len(steps'[a]) = 0 /\ steps'[a] = <<>> /\ \A b \in Acc \ {a} : steps'[b] = steps[b]
    BY <1>0, <1>1, <1>2, Cuts
  <1>5. /\ stopped'[a] /\ ~busy'[a]
        /\ Unread(a) => driver'[a] = None /\ computed'[a] = None
        /\ \A b \in Acc \ {a} : /\ stopped'[b] = stopped[b] /\ busy'[b] = busy[b]
                                /\ driver'[b] = driver[b] /\ computed'[b] = computed[b]
    BY <1>0, <1>1 DEF Types
  <1>6. Told'
    BY <1>0, <1>1, <1>3, <1>4, <1>5, ToldStays DEF Pending
  <1>7. DriversGo'
    <2>1. \A b \in Acc \ {a} : Gone(b) => Gone(b)'
      BY <1>1, <1>4, <1>5 DEF Gone
    <2>2. Unread(a) => Gone(a)'
      BY <1>5 DEF Gone
    <2> QED
      BY <1>0, <1>1, <1>3, <2>1, <2>2, DriversGoStays
  <1>8. StepsGo'
    <2>1. Len(steps'[a]) = Needed(a)'
      BY <1>4, NeededNext
    <2> QED
      BY <1>0, <1>1, <1>3, <1>4, <1>5, <2>1, StepsGoStays
  <1>9. HoldsGo'
    BY <1>0, <1>1, <1>3, HoldsGoStays
  <1>10. Scheduled'
    <2>1. \A k \in Key : dependents'[k] = IF k[1] = a THEN {} ELSE dependents[k]
      BY <1>1
    <2>2. ASSUME NEW x \in Record, NEW k \in waiting[x], x \in dependents[k]
          PROVE  x \in dependents'[k] \/ <<x, "failed">> \in todo'
      <3>1. k \in Key
        BY <1>0 DEF Types
      <3>2. CASE k[1] # a
        BY <2>1, <2>2, <3>1, <3>2
      <3>3. CASE k[1] = a
        <4>1. k \in State
          BY <3>1, <3>3, Keys
        <4>2. k = <<a, k[2]>> /\ k[2] \in 0..MaxPushes
          BY <3>3, <4>1, Keys
        <4>3. x \in UNION {dependents[<<a, n>>] : n \in 0..MaxPushes}
          BY <2>2, <4>2
        <4> QED
          BY <1>1, <4>3 DEF FailsOf
      <3> QED
        BY <3>2, <3>3
    <2>3. ASSUME NEW x \in Record, NEW k \in Key, x \in dependents'[k]
          PROVE  /\ Pending(x) /\ k \in waiting[x]
                 /\ IF k \in State THEN ~stopped'[k[1]] /\ added[k[1]] # k[2] ELSE Pending(k[2])
      <3>1. k[1] # a /\ x \in dependents[k]
        BY <2>1, <2>3
      <3>2. k \in State => k[1] \in Acc
        BY Keys
      <3> QED
        BY <1>0, <1>5, <3>1, <3>2 DEF Scheduled
    <2>4. UNCHANGED <<status, waiting, queued, at, added>> /\ todo \subseteq todo'
      BY <1>1
    <2> QED
      BY <1>0, <2>2, <2>3, <2>4 DEF Scheduled, Pending
  <1> QED
    BY <1>0, <1>6, <1>7, <1>8, <1>9, <1>10 DEF TellInv

LEMMA AdvanceTells ==
  ASSUME TellInv, NEW a \in Acc, AdvanceNext(a), ReadInv'
  PROVE  TellInv'
  <1>0. ReadInv /\ CoreInv /\ Types /\ Scheduled /\ HoldsGo /\ Told /\ DriversGo /\ StepsGo
    BY DEF TellInv, ReadInv, CoreInv
  <1>1. ready' = ready \ {a}
    BY DEF AdvanceNext
  <1>2. CASE /\ MayStep(a) => \E r \in Head(steps[a]) : Pending(r)
             /\ UNCHANGED <<history, client, reading, running, progress, flags, todo, drops, leaving>>
    <2>1. /\ readers' = readers /\ kept' = kept /\ drops' = drops
          /\ UNCHANGED <<status, held, waiting, queued, dependents, at, steps, added, busy, driver, computed,
                         stopped, frozen, released, todo>>
      BY <1>2 DEF history, client, reading, running, progress, flags
    <2>2. Asked'
      BY <1>2, AskedStays DEF TellInv, client
    <2>3. Scheduled'
      BY <1>0, <2>1, ScheduledStays
    <2>4. DriversGo' /\ StepsGo' /\ HoldsGo'
      <3>1. Emptying /\ \A b \in Acc : Gone(b) => Gone(b)'
        BY <2>1, Keeping DEF Gone
      <3> QED
        BY <1>0, <2>1, <3>1, DriversGoStays, StepsGoStays, HoldsGoStays
    <2>5. Told'
      <3> SUFFICES ASSUME NEW b \in Acc, steps[b] # <<>>, ~busy[b], b \notin ready'
                   PROVE  HeldBack(b)
        BY <2>1 DEF Told, HeldBack, Unread, Pending
      <3>1. CASE b = a
        <4>1. MayStep(a) \/ ~Unread(a)
          BY <1>0, <3>1 DEF MayStep, ReadInv, Waits
        <4> QED
          BY <1>2, <3>1, <4>1 DEF HeldBack
      <3>2. CASE b # a
        BY <1>0, <1>1, <3>2 DEF Told
      <3> QED
        BY <3>1, <3>2
    <2> QED
      BY <2>2, <2>3, <2>4, <2>5 DEF TellInv
  <1>3. CASE Stop(a)
    BY <1>1, <1>3, StopTells
  <1>4. CASE /\ MayStep(a)
             /\ busy' = [busy EXCEPT ![a] = TRUE]
             /\ computed' = [computed EXCEPT ![a] = None]
             /\ driver' = [driver EXCEPT ![a] = Changing]
             /\ UNCHANGED <<history, client, reading, running, steps, added, flags, todo, drops, leaving>>
    <2>1. /\ readers' = readers /\ kept' = kept /\ drops' = drops
          /\ UNCHANGED <<status, held, waiting, queued, dependents, at, steps, added,
                         stopped, frozen, released, todo>>
          /\ steps[a] # <<>> /\ ~stopped[a]
      BY <1>4 DEF history, client, reading, running, flags, MayStep
    <2>2. /\ busy'[a]
          /\ \A b \in Acc \ {a} : busy'[b] = busy[b] /\ driver'[b] = driver[b] /\ computed'[b] = computed[b]
      BY <1>0, <1>4 DEF Types
    <2>3. Emptying
      BY <2>1, Keeping
    <2>4. Asked'
      BY <1>4, AskedStays DEF TellInv, client
    <2>5. Scheduled'
      BY <1>0, <2>1, ScheduledStays
    <2>6. DriversGo'
      <3>1. \A b \in Acc : Gone(b) => Gone(b)'
        BY <2>1, <2>2 DEF Gone
      <3> QED
        BY <1>0, <2>1, <2>3, <3>1, DriversGoStays
    <2>7. StepsGo' /\ HoldsGo'
      BY <1>0, <2>1, <2>2, <2>3, StepsGoStays, HoldsGoStays
    <2>8. Told'
      BY <1>0, <1>1, <2>1, <2>2, <2>3, ToldStays DEF Pending
    <2> QED
      BY <2>4, <2>5, <2>6, <2>7, <2>8 DEF TellInv
  <1> QED
    BY <1>2, <1>3, <1>4 DEF AdvanceNext

\* What is cut at the steps needed is what is needed.
LEMMA CutNeeded ==
  ASSUME ReadInv, ReadInv', NEW a \in Acc, Cut(a, Needed(a)), Emptying,
         UNCHANGED <<unread, held, call, added, busy>>
  PROVE  Len(steps'[a]) = Needed(a)' \/ \E n \in 0..MaxPushes : <<a, n>> \in drops'
  <1>0. CoreInv
    BY DEF ReadInv
  <1> SUFFICES ASSUME \A n \in 0..MaxPushes : <<a, n>> \notin drops'
               PROVE  Len(steps'[a]) = Needed(a)'
    OBVIOUS
  <1>1. /\ Needed(a) \in 0..Len(steps[a]) /\ Len(steps[a]) \in Nat
        /\ \A i \in 0..Len(steps[a]) : CutsAt(a, i) => Needed(a) <= i
    BY <1>0, NeededSteps, AllNeeded DEF CutsAt
  <1>2. Len(steps'[a]) = Needed(a)
    BY <1>0, <1>1, Cuts
  <1>3. \A n \in 0..MaxPushes : readers[<<a, n>>] > 0 => readers'[<<a, n>>] > 0
    <2> SUFFICES ASSUME NEW n \in 0..MaxPushes, readers[<<a, n>>] > 0 PROVE readers'[<<a, n>>] > 0
      OBVIOUS
    <2>1. <<a, n>> \in Key
      BY Keys
    <2>2. readers'[<<a, n>>] # 0 /\ readers'[<<a, n>>] \in Nat
      BY <2>1, CountsBoth DEF Emptying
    <2> QED
      BY <2>2
  <1>4. \A i \in 0..(Len(steps'[a]) - 1) : ~CutsAt(a, i)'
    <2> SUFFICES ASSUME NEW i \in 0..(Needed(a) - 1), CutsAt(a, i)' PROVE FALSE
      BY <1>2
    <2>1. CutsAt(a, i)
      BY <1>3 DEF CutsAt
    <2> QED
      BY <1>1, <2>1
  <1> QED
    BY <1>4, NeededNext

LEMMA ReleaseNextTells ==
  ASSUME TellInv, NEW a \in Acc, ReleaseNext(a), ReadInv'
  PROVE  TellInv'
  <1>0. ReadInv /\ CoreInv /\ Types /\ Scheduled /\ HoldsGo /\ Told /\ DriversGo /\ StepsGo /\ Asked'
    BY AskedStays DEF TellInv, ReadInv, CoreInv, ReleaseNext
  <1> DEFINE i == Needed(a)
  <1>1. /\ released' = [released EXCEPT ![a] = TRUE]
        /\ Cut(a, i)
        /\ drops' = drops \cup Emptied(OfSteps(Rest(a, i)))
        /\ ready' = ready \cup {a}
        /\ UNCHANGED <<status, kept, call, unread, held, waiting, queued, dependents, at, added, busy,
                       driver, computed, stopped, frozen, todo>>
    BY DEF ReleaseNext, history, running
  <1>2. i \in 0..Len(steps[a])
    BY <1>0, NeededSteps
  <1>3. Emptying
    BY <1>0, <1>1, <1>2, CutEmpties
  <1>4. \A b \in Acc \ {a} : steps'[b] = steps[b]
    BY <1>0, <1>1, <1>2, Cuts
  <1>5. released'[a] /\ \A b \in Acc \ {a} : released'[b] = released[b]
    BY <1>0, <1>1 DEF Types
  <1>6. Scheduled'
    BY <1>0, <1>1, ScheduledStays
  <1>7. Told'
    BY <1>0, <1>1, <1>3, <1>4, ToldStays DEF Pending
  <1>8. DriversGo'
    <2>1. \A b \in Acc : Gone(b) => Gone(b)'
      BY <1>1, <1>4, <1>5 DEF Gone
    <2> QED
      BY <1>0, <1>1, <1>3, <2>1, DriversGoStays
  <1>9. StepsGo'
    <2>1. Len(steps'[a]) = Needed(a)' \/ \E n \in 0..MaxPushes : <<a, n>> \in drops'
      BY <1>0, <1>1, <1>3, CutNeeded
    <2> QED
      BY <1>0, <1>1, <1>3, <1>4, <1>5, <2>1, StepsGoStays
  <1>10. HoldsGo'
    BY <1>0, <1>1, <1>3, HoldsGoStays
  <1> QED
    BY <1>0, <1>6, <1>7, <1>8, <1>9, <1>10 DEF TellInv

LEMMA DropStateTells ==
  ASSUME TellInv, NEW a \in Acc, NEW n \in 0..MaxPushes, DropState(a, n), ReadInv'
  PROVE  TellInv'
  <1>0. ReadInv /\ CoreInv /\ Types /\ Scheduled /\ HoldsGo /\ Told /\ DriversGo /\ StepsGo /\ Asked'
    BY AskedStays DEF TellInv, ReadInv, CoreInv, DropState, client
  <1>1. /\ kept' = kept
        /\ UNCHANGED <<status, call, unread, held, waiting, queued, dependents, at, added, busy, stopped,
                       frozen, released, todo>>
    BY DEF DropState, history, client, running, flags
  <1>2. Scheduled'
    BY <1>0, <1>1, ScheduledStays
  <1>3. CASE stopped[a] \/ IsLast(a, n)
    <2>1. /\ driver' = [driver EXCEPT ![a] = IF stopped[a] /\ n = added[a] THEN None ELSE @]
          /\ computed' = [computed EXCEPT ![a] = IF n = added[a] THEN None ELSE @]
          /\ drops' = drops \ {<<a, n>>}
          /\ UNCHANGED <<steps, readers, ready>>
      BY <1>3 DEF DropState
    <2>2. /\ \A b \in Acc \ {a} : driver'[b] = driver[b] /\ computed'[b] = computed[b]
          /\ n = added[a] => computed'[a] = None /\ (stopped[a] => driver'[a] = None)
          /\ n # added[a] => computed'[a] = computed[a] /\ driver'[a] = driver[a]
      BY <1>0, <2>1 DEF Types
    <2>3. Emptying
      BY <2>1, Keeping
    <2>4. steps[a] = <<>> /\ Len(steps'[a]) = 0
      BY <1>0, <1>3, <2>1 DEF IsLast, ReadInv, Waits
    <2>5. Told'
      BY <1>0, <1>1, <2>1, <2>3, <2>4, ToldStays DEF Pending
    <2>6. DriversGo'
      <3>1. \A b \in Acc \ {a} : Gone(b) => Gone(b)'
        BY <1>1, <2>1, <2>2 DEF Gone
      <3>2. n = added[a] => Gone(a)'
        BY <1>1, <2>2 DEF Gone
      <3>3. n # added[a] => (Gone(a) => Gone(a)')
        BY <1>1, <2>1, <2>2 DEF Gone
      <3> QED
        BY <1>0, <1>1, <2>1, <2>3, <3>1, <3>2, <3>3, DriversGoStays
    <2>7. StepsGo'
      <3>1. Len(steps'[a]) = Needed(a)'
        BY <2>4, NeededNext
      <3>2. \A b \in Acc \ {a}, m \in 0..MaxPushes : <<b, m>> \in drops => <<b, m>> \in drops'
        BY <2>1
      <3> QED
        BY <1>0, <1>1, <2>1, <2>3, <3>1, <3>2, StepsGoStays
    <2>8. HoldsGo'
      <3>1. \A r \in Record : Out(r) \in drops => Out(r) \in drops'
        BY <2>1, Keys
      <3> QED
        BY <1>0, <1>1, <2>1, <2>3, <3>1, HoldsGoStays
    <2> QED
      BY <1>0, <1>2, <2>5, <2>6, <2>7, <2>8 DEF TellInv
  <1>4. CASE ~(stopped[a] \/ IsLast(a, n))
    <2> DEFINE i == IF released[a] THEN Needed(a) ELSE Len(steps[a])
    <2>1. /\ Cut(a, i)
          /\ drops' = (drops \ {<<a, n>>}) \cup Emptied(OfSteps(Rest(a, i)))
          /\ ready' = ready \cup {a}
          /\ UNCHANGED <<driver, computed>>
      BY <1>4 DEF DropState
    <2>2. i \in 0..Len(steps[a])
      <3>1. Len(steps[a]) \in Nat
        BY <1>0, LenProperties DEF Types
      <3> QED
        BY <1>0, <3>1, NeededSteps
    <2>3. Emptying
      BY <1>0, <2>1, <2>2, CutEmpties
    <2>4. /\ \A b \in Acc \ {a} : steps'[b] = steps[b]
          /\ ~released[a] => steps'[a] = steps[a]
      BY <1>0, <1>1, <2>1, <2>2, Cuts
    <2>5. /\ \A b \in Acc \ {a} : \A m : <<b, m>> \in drops => <<b, m>> \in drops'
          /\ n # added[a] => (<<a, added[a]>> \in drops => <<a, added[a]>> \in drops')
          /\ \A r \in Record : Out(r) \in drops => Out(r) \in drops'
      BY <2>1, Keys
    <2> HIDE DEF i
    <2>6. Told'
      BY <1>0, <1>1, <2>1, <2>3, <2>4, <2>5, ToldStays DEF Pending
    <2>7. DriversGo'
      <3>1. \A b \in Acc \ {a} : Gone(b) => Gone(b)'
        BY <1>1, <2>1, <2>4 DEF Gone
      <3>2. n = added[a] => Gone(a)'
        BY <1>1, <1>4, <2>4 DEF Gone, IsLast
      <3>3. Gone(a) => Gone(a)'
        BY <1>1, <1>4, <2>1, <2>4 DEF Gone
      <3> QED
        BY <1>0, <1>1, <2>3, <2>5, <3>1, <3>2, <3>3, DriversGoStays
    <2>8. StepsGo'
      <3>1. released[a] => Len(steps'[a]) = Needed(a)' \/ \E m \in 0..MaxPushes : <<a, m>> \in drops'
        <4> SUFFICES ASSUME released[a]
                     PROVE  Len(steps'[a]) = Needed(a)' \/ \E m \in 0..MaxPushes : <<a, m>> \in drops'
          OBVIOUS
        <4>1. Cut(a, Needed(a))
          BY <2>1 DEF i
        <4> QED
          BY <1>0, <1>1, <2>3, <4>1, CutNeeded
      <3> QED
        BY <1>0, <1>1, <2>3, <2>4, <2>5, <3>1, StepsGoStays
    <2>9. HoldsGo'
      BY <1>0, <1>1, <2>3, <2>5, HoldsGoStays
    <2> QED
      BY <1>0, <1>2, <2>6, <2>7, <2>8, <2>9 DEF TellInv
  <1> QED
    BY <1>3, <1>4

LEMMA StepDoneTells ==
  ASSUME TellInv, NEW a \in Acc, StepDone(a), ReadInv'
  PROVE  TellInv'
  <1>0. ReadInv /\ CoreInv /\ Types /\ Scheduled /\ HoldsGo /\ Told /\ DriversGo /\ StepsGo /\ Asked'
    BY AskedStays DEF TellInv, ReadInv, CoreInv, StepDone, client
  <1> DEFINE less == Once(Sources(Head(steps[a])))
  <1>1. PICK n \in Int : n = added[a] + 1
    BY <1>0 DEF Types, None
  <1> DEFINE next == <<a, n>>
  <1>2. /\ busy[a]
        /\ steps' = [steps EXCEPT ![a] = Tail(@)]
        /\ added' = [added EXCEPT ![a] = @ + 1]
        /\ driver' = [driver EXCEPT ![a] = added[a] + 1]
        /\ busy' = [busy EXCEPT ![a] = FALSE]
        /\ LetGo(less) /\ drops' = Emptied(less)
        /\ Satisfy(next)
        /\ ready' = {a}
        /\ todo = {} /\ drops = {} /\ ready = {} /\ todo' = todo /\ kept' = kept
        /\ UNCHANGED <<status, held, at, computed, stopped, frozen, released>>
    BY <1>1 DEF StepDone, client, flags, history, Locked
  <1>3. \A k \in Key : less[k] \in Int
    BY OnceInt
  <1> HIDE DEF less
  <1>4. Emptying
    BY <1>0, <1>2, <1>3, Empties
  <1>5. /\ steps[a] \in Seq(SUBSET Record) /\ steps[a] # <<>> /\ added[a] \in Int
        /\ ~stopped[a] /\ computed[a] = None
    BY <1>0, <1>2 DEF Types, CoreInv, Progress, ReadInv, Drivers, Waits, None
  <1>6. /\ Len(steps[a]) \in Nat /\ Len(steps'[a]) = Len(steps[a]) - 1
        /\ added'[a] = n /\ ~busy'[a]
        /\ \A b \in Acc \ {a} : /\ steps'[b] = steps[b] /\ added'[b] = added[b] /\ driver'[b] = driver[b]
                                /\ busy'[b] = busy[b]
    BY <1>0, <1>1, <1>2, <1>5 DEF Types
  <1>7. Told'
    BY <1>0, <1>2, <1>4, <1>6, ToldStays DEF Pending
  <1>8. DriversGo'
    <2>1. \A b \in Acc \ {a} : Gone(b) => Gone(b)'
      BY <1>2, <1>6 DEF Gone
    <2>2. Gone(a)'
      BY <1>2, <1>5 DEF Gone
    <2> QED
      BY <1>0, <1>2, <1>4, <1>6, <2>1, <2>2, DriversGoStays
  <1>9. StepsGo'
    <2>1. ASSUME released[a], \A m \in 0..MaxPushes : <<a, m>> \notin drops'
          PROVE  Len(steps'[a]) = Needed(a)'
      <3>1. \A i \in 0..(Len(steps[a]) - 1) : ~CutsAt(a, i)
        BY <1>0, <1>2, <2>1, AllNeeded DEF StepsGo
      <3>2. \A m \in 0..MaxPushes : readers[<<a, m>>] > 0 => readers'[<<a, m>>] > 0
        <4> SUFFICES ASSUME NEW m \in 0..MaxPushes, readers[<<a, m>>] > 0 PROVE readers'[<<a, m>>] > 0
          OBVIOUS
        <4>1. <<a, m>> \in Key
          BY Keys
        <4>2. readers'[<<a, m>>] # 0 /\ readers'[<<a, m>>] \in Nat
          BY <1>0, <1>4, <2>1, <4>1, CountsBoth DEF Emptying
        <4> QED
          BY <4>2
      <3>3. ASSUME NEW i \in 0..(Len(steps'[a]) - 1), CutsAt(a, i)' PROVE FALSE
        <4>1. \A m \in 0..MaxPushes : readers[<<a, m>>] > 0 => m - added[a] <= i + 1
          BY <1>1, <1>5, <1>6, <3>2, <3>3 DEF CutsAt
        <4>2. i + 1 \in 0..(Len(steps[a]) - 1) /\ i + 1 >= 1
          BY <1>6
        <4> QED
          BY <3>1, <4>1, <4>2 DEF CutsAt
      <3> QED
        BY <3>3, NeededNext
    <2> QED
      BY <1>0, <1>2, <1>4, <1>6, <2>1, StepsGoStays
  <1>10. HoldsGo'
    BY <1>0, <1>2, <1>4, HoldsGoStays
  <1>11. Scheduled'
    <2>1. next \in Key
      <3>1. added[a] + Len(steps[a]) <= pushes[a] /\ pushes[a] \in None..MaxPushes /\ Len(steps[a]) # 0
            /\ added[a] \in None..MaxPushes
        BY <1>0, <1>5, EmptySeq, LenProperties DEF Types, CoreInv, Progress
      <3>2. n \in 0..MaxPushes
        BY <1>1, <1>6, <3>1, Counts DEF None
      <3> QED
        BY <3>2, Keys
    <2>2. ASSUME NEW x \in Record
          PROVE  /\ Pending(x) => (waiting'[x] # {} <=> x \notin queued' /\ at[x] = "idle")
                 /\ \A k \in waiting'[x] : x \in dependents'[k]
                 /\ \A k \in Key : x \in dependents'[k] => k # next /\ x \in dependents[k] /\ k \in waiting'[x]
      <3>1. Satisfy(next)
        BY <1>2
      <3> HIDE DEF next
      <3> QED
        BY <1>0, <1>2, <2>1, <3>1, SatisfyTells
    <2>3. ASSUME NEW x \in Record, NEW k \in Key, x \in dependents'[k]
          PROVE  /\ Pending(x) /\ k \in waiting'[x]
                 /\ IF k \in State THEN ~stopped[k[1]] /\ added'[k[1]] # k[2] ELSE Pending(k[2])
      <3>1. k # next /\ x \in dependents[k] /\ k \in waiting'[x]
        BY <2>2, <2>3
      <3>2. /\ Pending(x)
            /\ IF k \in State THEN ~stopped[k[1]] /\ added[k[1]] # k[2] ELSE Pending(k[2])
        BY <1>0, <3>1 DEF Scheduled
      <3>3. k \in State => added'[k[1]] # k[2]
        <4> SUFFICES ASSUME k \in State PROVE added'[k[1]] # k[2]
          OBVIOUS
        <4>1. k[1] \in Acc /\ k = <<k[1], k[2]>>
          BY Keys
        <4> QED
          BY <1>6, <3>1, <3>2, <4>1
      <3> QED
        BY <3>1, <3>2, <3>3
    <2> QED
      BY <1>2, <2>2, <2>3 DEF Scheduled, Pending
  <1> QED
    BY <1>0, <1>7, <1>8, <1>9, <1>10, <1>11 DEF TellInv

LEMMA OpenTells ==
  ASSUME TellInv, NEW a \in Acc, NEW outs \in SUBSET Record, Open(a, outs) \/ Push(a, outs), ReadInv'
  PROVE  TellInv'
  <1>0. ReadInv /\ CoreInv /\ Types /\ Scheduled /\ HoldsGo /\ Told /\ DriversGo /\ StepsGo /\ Asked'
    BY AskedStays DEF TellInv, ReadInv, CoreInv, Open, Push, client
  <1>1. /\ readers' = [k \in Key |-> readers[k] + Once(Sources(outs))[k]]
        /\ ready' = {a} /\ ready = {} /\ drops = {} /\ drops' = drops /\ todo' = todo /\ kept' = kept
        /\ UNCHANGED <<status, held, waiting, queued, dependents, at, added, busy, driver, computed,
                       stopped, frozen, released>>
        /\ ~released[a]
        /\ steps' = [steps EXCEPT ![a] = <<outs>>] \/ steps' = [steps EXCEPT ![a] = Append(@, outs)]
    BY <1>0 DEF Open, Push, client, history, running, flags, Locked, CoreInv, Fresh, Progress
  <1>2. Emptying
    <2> SUFFICES ASSUME NEW k \in Key, readers[k] > 0 PROVE readers'[k] # 0
      BY DEF Emptying
    <2>1. readers[k] \in Nat /\ Once(Sources(outs))[k] \in {0, 1}
          /\ readers'[k] = readers[k] + Once(Sources(outs))[k]
      BY <1>0, <1>1, CountsBoth DEF Once
    <2> QED
      BY <2>1
  <1>3. steps'[a] # <<>> /\ \A b \in Acc \ {a} : steps'[b] = steps[b]
    <2>1. steps[a] \in Seq(SUBSET Record)
      BY <1>0 DEF Types
    <2>2. Append(steps[a], outs) # <<>>
      BY <2>1, AppendProperties
    <2>3. <<outs>> # <<>>
      OBVIOUS
    <2>4. \A new : steps' = [steps EXCEPT ![a] = new] =>
             steps'[a] = new /\ \A b \in Acc \ {a} : steps'[b] = steps[b]
      BY <1>0 DEF Types
    <2> QED
      BY <1>1, <2>2, <2>3, <2>4
  <1>4. Scheduled'
    BY <1>0, <1>1, ScheduledStays
  <1>5. Told'
    BY <1>0, <1>1, <1>2, <1>3, ToldStays DEF Pending
  <1>6. DriversGo'
    <2>1. \A b \in Acc : Gone(b) => Gone(b)'
      BY <1>1, <1>3 DEF Gone
    <2> QED
      BY <1>0, <1>1, <1>2, <2>1, DriversGoStays
  <1>7. StepsGo' /\ HoldsGo'
    BY <1>0, <1>1, <1>2, <1>3, StepsGoStays, HoldsGoStays
  <1> QED
    BY <1>0, <1>4, <1>5, <1>6, <1>7 DEF TellInv

\* A record is logged only with states that are to come, or there.
LEMMA LogsOpen ==
  ASSUME CoreInv, Asked, NEW t \in Thread, Create(t) \/ Freeze(t)
  PROVE  \A p \in call[t].pins : ~stopped[p[1]]
  <1>1. CASE Create(t)
    <2>1. /\ call[t].op = "submit"
          /\ \A i \in DOMAIN call[t].requests : \A a \in call[t].requests[i].accs : ~stopped[a]
      BY <1>1 DEF Create, Accepted
    <2> QED
      BY <2>1 DEF Asked
  <1>2. CASE Freeze(t)
    BY <1>2 DEF Freeze, CoreInv, InCalls
  <1> QED
    BY <1>1, <1>2

LEMMA LogsTells ==
  ASSUME TellInv, NEW t \in Thread, Create(t) \/ Freeze(t),
         NEW made \in SUBSET Record, NEW new, Logs(t, made, new), ~Locked, ReadInv'
  PROVE  TellInv'
  <1>0. ReadInv /\ CoreInv /\ Types /\ Scheduled /\ HoldsGo /\ Told /\ DriversGo /\ StepsGo /\ Asked
    BY DEF TellInv, ReadInv, CoreInv
  <1> DEFINE waits(r) == {k \in new[r] : IF k \in State THEN added[k[1]] # k[2]
                                         ELSE status[k[2]] \in {"none", "pending"}}
  <1>1. /\ new \in [made -> SUBSET Key] /\ DOMAIN new = made
        /\ call' = [call EXCEPT ![t].phase = "ending"]
        /\ kept \subseteq kept'
        /\ \A r \in made : References(t, made, new[r])
        /\ status' = [r \in Record |-> IF r \in made THEN "pending" ELSE status[r]]
        /\ readers' = [k \in Key |-> readers[k] + Cardinality({r \in made : k \in new[r]})]
        /\ drops = {} /\ ready = {} /\ todo = {}
        /\ UNCHANGED <<pushes, held, at, open, steps, added, busy, driver, computed, stopped, released,
                       todo, drops, ready>>
    BY DEF Logs, LogRecords, progress, work, Locked
  <1>2. /\ waiting' = [r \in Record |-> IF r \in made THEN waits(r) ELSE waiting[r]]
        /\ dependents' = [k \in Key |-> dependents[k] \cup {r \in made : k \in waits(r)}]
        /\ queued' = queued \cup {r \in made : waits(r) = {}}
    BY <1>1 DEF Logs, LogRecords
  <1>3. \A r \in made : status[r] = "none" /\ at[r] = "idle" /\ r \notin queued /\ r \notin kept
    BY <1>0, LogsFresh
  <1>4. \A k \in Key : readers'[k] >= readers[k] /\ readers[k] \in Nat
    <2> SUFFICES ASSUME NEW k \in Key PROVE readers'[k] >= readers[k] /\ readers[k] \in Nat
      OBVIOUS
    <2> DEFINE join == {r \in made : k \in new[r]}
    <2>1. readers'[k] = readers[k] + Cardinality(join) /\ readers[k] \in Nat
      BY <1>0, <1>1, CountsBoth
    <2>2. join \in SUBSET Record
      OBVIOUS
    <2> HIDE DEF join
    <2>3. Cardinality(join) \in Nat
      BY <2>2, AllFinite, FS_Subset, FS_CardinalityType
    <2> QED
      BY <2>1, <2>3
  <1>5. Emptying
    BY <1>4 DEF Emptying
  <1>6. Asked'
    <2>1. \A u \in Thread : call'[u].op = call[u].op /\ call'[u].pins = call[u].pins
                            /\ call'[u].requests = call[u].requests
      BY <1>0, <1>1 DEF Types, Calls
    <2> QED
      BY <1>0, <2>1 DEF Asked
  <1>7. /\ \A r \in made : status'[r] = "pending"
        /\ \A r \in Record \ made : status'[r] = status[r]
        /\ \A r \in Record : Pending(r) => Pending(r)'
    BY <1>1, <1>3 DEF Pending
  <1>8. Told'
    <2> SUFFICES ASSUME NEW a \in Acc, steps[a] # <<>>
                 PROVE  \A r \in Head(steps[a]) : Pending(r) => Pending(r)'
      BY <1>0, <1>1, <1>5, ToldStays
    <2>1. Head(steps[a]) \subseteq Record
      BY <1>0 DEF Types
    <2> QED
      BY <1>7, <2>1
  <1>9. DriversGo'
    <2> SUFFICES ASSUME NEW a \in Acc, Unread(a), Gone(a), Unread(a)' PROVE Gone(a)'
      BY <1>0, <1>1, <1>5, DriversGoStays
    <2>1. CASE frozen'[a] = frozen[a]
      BY <1>1, <2>1 DEF Gone
    <2>2. CASE frozen'[a] # frozen[a]
      <3>1. PICK p \in call[t].pins :
               /\ call[t].op = "freeze" /\ ~stopped[p[1]] /\ p[1] \in open
               /\ frozen' = [frozen EXCEPT ![p[1]] = count + 1]
        BY <2>2 DEF Logs
      <3>2. p[1] = a
        BY <1>0, <2>2, <3>1 DEF Types
      <3>3. p \in State /\ readers[p] > 0 /\ pushes[a] = p[2] /\ p = <<a, p[2]>>
        BY <1>0, <3>1, <3>2, Holding, Keys DEF CoreInv, InCalls
      <3>4. steps[a] # <<>>
        <4> SUFFICES ASSUME steps[a] = <<>> PROVE FALSE
          OBVIOUS
        <4>1. added[a] + 0 = pushes[a] /\ added[a] \in Int
          BY <1>0, <3>1, <3>2 DEF CoreInv, Progress, Types, None
        <4>2. added[p[1]] = p[2]
          BY <3>2, <3>3, <4>1
        <4> QED
          BY <1>0, <3>2, <3>3, <4>2, Current
      <3> QED
        BY <1>1, <3>1, <3>2, <3>4 DEF Gone
    <2> QED
      BY <2>1, <2>2
  <1>10. StepsGo' /\ HoldsGo'
    BY <1>0, <1>1, <1>5, StepsGoStays, HoldsGoStays
  <1>11. Scheduled'
    <2> SUFFICES ASSUME NEW x \in Record
                 PROVE  /\ Pending(x)' => (waiting'[x] # {} <=> x \notin queued' /\ at[x] = "idle")
                        /\ \A k \in waiting'[x] : x \in dependents'[k]
                        /\ \A k \in Key : x \in dependents'[k] =>
                              /\ Pending(x)' /\ k \in waiting'[x]
                              /\ IF k \in State THEN ~stopped[k[1]] /\ added[k[1]] # k[2]
                                 ELSE Pending(k[2])'
      BY <1>1 DEF Scheduled
    <2>1. waiting[x] \subseteq Key /\ \A r \in made : waits(r) \subseteq Key
      BY <1>0, <1>1 DEF Types
    <2>2. \A k \in Key : x \in dependents'[k] <=> x \in dependents[k] \/ (x \in made /\ k \in waits(x))
      BY <1>2
    <2>3. CASE x \in made
      <3>1. waiting'[x] = waits(x) /\ (x \in queued' <=> waits(x) = {}) /\ Pending(x)'
        BY <1>2, <1>3, <1>7, <2>3 DEF Pending
      <3>2. \A k \in Key : x \notin dependents[k]
        BY <1>0, <1>3, <2>3 DEF Scheduled, Pending
      <3>3. ASSUME NEW k \in waits(x)
            PROVE  IF k \in State THEN ~stopped[k[1]] /\ added[k[1]] # k[2] ELSE Pending(k[2])'
        <4>1. \/ \E p \in call[t].pins : new[x] = {p}
              \/ \E rs \in SUBSET Record : new[x] = Sources(rs) /\ \A y \in rs : y \in made \/ MayRead(y)
          BY <1>1, <2>3 DEF References
        <4>2. CASE k \in State
          <5>1. k \in call[t].pins
            BY <4>1, <4>2, Keys
          <5> QED
            BY <1>0, <4>2, <5>1, LogsOpen
        <4>3. CASE k \notin State
          <5>1. PICK y \in Record : k = Out(y)
            BY <2>1, <2>3, <4>3, Keys
          <5>2. status[y] \in {"none", "pending"}
            BY <4>3, <5>1, Keys
          <5>3. y \in made \/ y \in kept
            <6>1. CASE \E p \in call[t].pins : new[x] = {p}
              BY <1>0, <4>3, <6>1, Holding
            <6>2. CASE \E rs \in SUBSET Record : new[x] = Sources(rs) /\ \A z \in rs : z \in made \/ MayRead(z)
              BY <5>1, <6>2, Keys DEF MayRead
            <6> QED
              BY <4>1, <6>1, <6>2
          <5>4. y \in kept => status[y] # "none"
            BY <1>0 DEF CoreInv, Fresh
          <5>5. status'[y] = "pending"
            BY <1>7, <5>2, <5>3, <5>4
          <5> QED
            BY <4>3, <5>1, <5>5, Keys DEF Pending
        <4> QED
          BY <4>2, <4>3
      <3> HIDE DEF waits
      <3> QED
        BY <1>3, <2>1, <2>2, <2>3, <3>1, <3>2, <3>3
    <2>4. CASE x \notin made
      <3>1. waiting'[x] = waiting[x] /\ (x \in queued' <=> x \in queued) /\ (Pending(x)' <=> Pending(x))
        BY <1>2, <1>7, <2>4 DEF Pending
      <3>2. ASSUME NEW k \in Key, x \in dependents[k]
            PROVE  /\ Pending(x) /\ k \in waiting[x]
                   /\ IF k \in State THEN ~stopped[k[1]] /\ added[k[1]] # k[2] ELSE Pending(k[2])'
        <4>1. /\ Pending(x) /\ k \in waiting[x]
              /\ IF k \in State THEN ~stopped[k[1]] /\ added[k[1]] # k[2] ELSE Pending(k[2])
          BY <1>0, <3>2 DEF Scheduled
        <4>2. k \notin State => k[2] \in Record
          BY Keys
        <4> QED
          BY <1>7, <4>1, <4>2
      <3>3. \A k \in waiting[x] : x \in dependents[k]
        BY <1>0, <1>1 DEF Scheduled
      <3>4. Pending(x) => (waiting[x] # {} <=> x \notin queued /\ at[x] = "idle")
        BY <1>0 DEF Scheduled
      <3> HIDE DEF waits
      <3> QED
        BY <2>1, <2>2, <2>4, <3>1, <3>2, <3>3, <3>4
    <2> QED
      BY <2>3, <2>4
  <1> QED
    BY <1>6, <1>8, <1>9, <1>10, <1>11 DEF TellInv

-----------------------------------------------------------------------------
(* The theorems *)

LEMMA InitTells == Init => TellInv
  <1> SUFFICES ASSUME Init PROVE TellInv
    OBVIOUS
  <1>1. ReadInv
    BY InitRead
  <1>2. Scheduled /\ Asked /\ Told /\ DriversGo /\ StepsGo /\ HoldsGo
    BY DEF Init, Scheduled, Asked, Told, DriversGo, Gone, StepsGo, HoldsGo, Idle, Pending
  <1> QED
    BY <1>1, <1>2 DEF TellInv

LEMMA NextTells == TellInv /\ [Next]_vars => TellInv'
  <1> SUFFICES ASSUME TellInv, [Next]_vars PROVE TellInv'
    OBVIOUS
  <1>0. ReadInv' /\ ReadInv /\ CoreInv /\ Types
    BY NextRead DEF TellInv, ReadInv, CoreInv
  <1>1. ASSUME NEW a \in Acc, NEW outs \in Readable(MaxReads), Open(a, outs) \/ Push(a, outs)
        PROVE  TellInv'
    <2>1. outs \in SUBSET Record
      BY <1>0, Counts DEF Readable, Existing, Types
    <2> QED
      BY <1>0, <1>1, <2>1, OpenTells
  <1>2. ASSUME NEW t \in Thread, CallOf(t) \/ CallStep(t) PROVE TellInv'
    <2>1. CASE CallOf(t)
      BY <1>0, <2>1, CallTells
    <2>2. CASE Create(t) \/ Freeze(t)
      <3>1. ~Locked /\ \E made \in SUBSET Record : \E new : Logs(t, made, new)
        BY <1>0, <2>2, CreateLogs, FreezeLogs
      <3> QED
        BY <1>0, <2>2, <3>1, LogsTells
    <2>3. CASE Refuse(t) \/ StopWaiting(t) \/ Copy(t) \/ EndCall(t)
      BY <1>0, <2>3, CallStepTells
    <2> QED
      BY <1>2, <2>1, <2>2, <2>3 DEF CallStep
  <1>3. CASE (\E r \in Existing : Cancel(r)) \/ ReleaseOne \/ CloseClient
    BY <1>0, <1>3, ClientTells
  <1>4. CASE Cascade
    <2>1. ASSUME NEW job \in todo, FinishNext(job[1], job[2]) PROVE TellInv'
      <3>1. job[1] \in Record /\ job[2] \in {"failed", "cancelled"}
        BY <1>0 DEF Types
      <3> QED
        BY <1>0, <2>1, <3>1, FinishTells
    <2>2. ASSUME NEW r \in Record, DropRecord(r) PROVE TellInv'
      BY <1>0, <2>2, DropRecordTells
    <2>3. ASSUME NEW s \in State, DropState(s[1], s[2]) PROVE TellInv'
      BY <1>0, <2>3, Keys, DropStateTells
    <2>4. ASSUME NEW a \in Acc, AdvanceNext(a) \/ ReleaseNext(a) PROVE TellInv'
      BY <1>0, <2>4, AdvanceTells, ReleaseNextTells
    <2> QED
      BY <1>4, <2>1, <2>2, <2>3, <2>4 DEF Cascade
  <1>5. ASSUME NEW r \in Record, RecordStep(r) PROVE TellInv'
    BY <1>0, <1>5, StartTells, ReturnTells, RaiseTells, CompleteTells DEF RecordStep
  <1>6. ASSUME NEW a \in Acc, AccStep(a) PROVE TellInv'
    BY <1>0, <1>6, StepDoneTells, StopTells DEF AccStep, StepFails
  <1>7. CASE UNCHANGED vars
    <2>1. UNCHANGED <<history, client, reading, running, progress, flags, work>>
      BY <1>7 DEF vars
    <2>2. /\ readers' = readers /\ kept' = kept /\ call' = call /\ drops' = drops /\ todo' = todo
          /\ ready' = ready
          /\ UNCHANGED <<status, waiting, queued, dependents, held, at, steps, added, busy, driver,
                         computed, stopped, frozen, released>>
      BY <2>1 DEF history, client, reading, running, progress, flags, work
    <2>3. Asked' /\ Emptying
      BY <2>2, AskedStays, Keeping DEF TellInv
    <2> QED
      BY <1>0, <2>2, <2>3, LightTells
  <1> QED
    BY <1>1, <1>2, <1>3, <1>4, <1>5, <1>6, <1>7 DEF Next

LEMMA AlwaysTells == Spec => []TellInv
  BY InitTells, NextTells, PTL DEF Spec

\* Once the lock is let go, no record waits for what never comes, and no step is
\* forgotten.
THEOREM ForgetsNone == Spec => []NoneForgotten
  <1>1. ASSUME TellInv, ~Locked PROVE NoneForgotten
    <2>0. ReadInv /\ CoreInv /\ Types /\ Scheduled /\ Told /\ todo = {} /\ ready = {} /\ drops = {}
      BY <1>1 DEF TellInv, ReadInv, CoreInv, Locked
    <2>1. ASSUME NEW r \in Existing, Pending(r)
          PROVE  /\ (waiting[r] # {}) = (r \notin queued /\ at[r] = "idle")
                 /\ \A k \in waiting[r] : r \in dependents[k]
                 /\ \A x \in Record : Out(x) \in waiting[r] => Pending(x)
                 /\ \A s \in waiting[r] \cap State :
                       /\ ~stopped[s[1]]
                       /\ s[2] \in (added[s[1]] + 1)..(added[s[1]] + Len(steps[s[1]]))
      <3>1. r \in Record
        BY <2>0, Counts DEF Existing, Types
      <3>2. /\ waiting[r] # {} <=> r \notin queued /\ at[r] = "idle"
            /\ \A k \in waiting[r] : r \in dependents[k]
        BY <2>0, <2>1, <3>1 DEF Scheduled
      <3>3. \A x \in Record : Out(x) \in waiting[r] => Pending(x)
        BY <2>0, <3>1, <3>2, Keys DEF Scheduled
      <3>4. ASSUME NEW s \in waiting[r] \cap State
            PROVE  /\ ~stopped[s[1]]
                   /\ s[2] \in (added[s[1]] + 1)..(added[s[1]] + Len(steps[s[1]]))
        <4>1. ~stopped[s[1]] /\ added[s[1]] # s[2]
          BY <2>0, <3>1, <3>2, <3>4, Keys DEF Scheduled
        <4>2. s[1] \in Acc /\ s[2] \in 0..MaxPushes /\ readers[s] > 0 /\ s = <<s[1], s[2]>>
          <5>1. s \in unread[r]
            BY <2>0, <3>1 DEF CoreInv, Places
          <5> QED
            BY <2>0, <3>1, <5>1, Holding, Keys
        <4>3. s[2] \in added[s[1]]..(added[s[1]] + Len(steps[s[1]]))
          BY <2>0, <4>1, <4>2 DEF ReadInv, Reached
        <4>4. added[s[1]] \in Int /\ Len(steps[s[1]]) \in Nat
          BY <2>0, <4>2, LenProperties DEF Types, None
        <4> QED
          BY <4>1, <4>3, <4>4
      <3> QED
        BY <3>2, <3>3, <3>4
    <2>2. \A a \in Acc : steps[a] # <<>> /\ ~busy[a] => ~Unread(a) \/ \E r \in Head(steps[a]) : Pending(r)
      BY <2>0 DEF Told, HeldBack
    <2> QED
      BY <2>1, <2>2 DEF NoneForgotten
  <1>2. TellInv => NoneForgotten
    BY <1>1 DEF NoneForgotten
  <1> QED
    BY AlwaysTells, <1>2, PTL

\* Once the lock is let go, nothing is held for nobody.
THEOREM HoldsNothing == Spec => []NothingHeld
  <1>1. ASSUME TellInv, ~Locked PROVE NothingHeld
    <2>1. drops = {} /\ Existing \subseteq Record
      BY <1>1, Counts DEF Locked, Existing, TellInv, ReadInv, CoreInv, Types
    <2> QED
      BY <1>1, <2>1 DEF TellInv, DriversGo, Gone, StepsGo, HoldsGo, NothingHeld
  <1>2. TellInv => NothingHeld
    BY <1>1 DEF NothingHeld
  <1> QED
    BY AlwaysTells, <1>2, PTL

-----------------------------------------------------------------------------
(* Waits never go round in a circle *)

\* A record that goes on holding no state once it has completed: it is of none,
\* it is of a freeze, or it will not complete.
Lasting(x) ==
    refs[x] \cap State = {} \/ status[x] \in {"failed", "cancelled"} \/ FreezeOf(x) # {}

\* The client keeps only those, and the outputs of no other record last.
Lasts ==
    /\ \A x \in kept : Lasting(x)
    /\ \A r \in Record : at[r] # "computing" => held[r] \subseteq State
    /\ \A r \in Record : status[r] = "completed" /\ FreezeOf(r) # {} => held[r] = {}

\* When it all was pinned: T is when each record's call began, P when each step
\* was logged, and C when the call of each thread began.  At a time, the steps up
\* to the state s had been logged, and the others had not.
At(P, time, s) ==
    /\ s[2] <= pushes[s[1]]
    /\ \A n \in 0..MaxPushes : n <= pushes[s[1]] =>
          IF n <= s[2] THEN P[<<s[1], n>>] < time ELSE time < P[<<s[1], n>>]

Past(T, P, C, now) ==
    /\ \A r \in Record : r <= count => T[r] < now
    /\ \A a \in Acc : \A n \in 0..MaxPushes : n <= pushes[a] => P[<<a, n>>] < now
    /\ \A t \in Thread : C[t] < now

\* A record is of the state that its call pinned, or reads records logged before
\* it: by its call, or of calls that began before it.
RecordsAfter(T, P) ==
    \A r \in Record : r <= count =>
        /\ \A s \in refs[r] \cap State : At(P, T[r], s)
        /\ \A x \in Record : Out(x) \in refs[r] =>
              x < r /\ (T[x] = T[r] \/ (T[x] < T[r] /\ Lasting(x)))
CallsAfter(T, P, C) ==
    \A t \in Thread :
        /\ \A s \in call[t].pins : At(P, C[t], s)
        /\ \A i \in DOMAIN call[t].requests : \A x \in call[t].requests[i].outs :
              x <= count /\ T[x] < C[t]
StepsAfter(T, P) ==
    \A a \in Acc : \A i \in 1..Len(steps[a]) : \A x \in steps[a][i] :
        x <= count /\ Lasting(x) /\ T[x] < P[<<a, added[a] + i>>]

InOrder(T, P, C, now) ==
    Past(T, P, C, now) /\ RecordsAfter(T, P) /\ CallsAfter(T, P, C) /\ StepsAfter(T, P)
Ordered ==
    \E T \in [Record -> Nat], P \in [State -> Nat], C \in [Thread -> Nat], now \in Nat :
        InOrder(T, P, C, now)

WaitInv == Lasts /\ Ordered

\* What all actions do but those that log or pin.
Steady ==
    /\ UNCHANGED <<count, refs, pushes, frozen>>
    /\ kept' \subseteq kept
    /\ \A r \in Record : status[r] \in {"failed", "cancelled"} => status'[r] = status[r]
    /\ \A t \in Thread : /\ call'[t].pins \subseteq call[t].pins
                         /\ call'[t].requests \in {call[t].requests, <<>>}
    /\ \A a \in Acc : \A i \in 1..Len(steps'[a]) : \E j \in 1..Len(steps[a]) :
          steps'[a][i] = steps[a][j] /\ added'[a] + i = added[a] + j
    /\ \A r \in Record :
          /\ at'[r] # "computing" => held'[r] \subseteq State
          /\ status'[r] = "completed" /\ FreezeOf(r) # {} => held'[r] = {}

LEMMA SteadyOrder ==
  ASSUME WaitInv, CoreInv, Steady
  PROVE  WaitInv'
  <1>0. Types /\ (\A x \in kept : x \in Record)
    BY Counts DEF CoreInv, Types
  <1>1. \A x \in Record : Lasting(x) => Lasting(x)'
    BY DEF Lasting, Steady, FreezeOf
  <1>2. Lasts'
    BY <1>0, <1>1 DEF WaitInv, Lasts, Steady, FreezeOf
  <1>3. ASSUME NEW T \in [Record -> Nat], NEW P \in [State -> Nat], NEW C \in [Thread -> Nat],
               NEW now \in Nat, InOrder(T, P, C, now)
        PROVE  InOrder(T, P, C, now)'
    <2>0. UNCHANGED <<count, refs, pushes>>
      BY DEF Steady
    <2>1. Past(T, P, C, now)'
      BY <1>3, <2>0 DEF InOrder, Past
    <2>2. \A time, s : At(P, time, s) => At(P, time, s)'
      BY <2>0 DEF At
    <2>3. RecordsAfter(T, P)'
      BY <1>1, <1>3, <2>0, <2>2 DEF InOrder, RecordsAfter
    <2>4. CallsAfter(T, P, C)'
      <3> SUFFICES ASSUME NEW t \in Thread
                   PROVE  /\ \A s \in call'[t].pins : At(P, C[t], s)'
                          /\ \A i \in DOMAIN call'[t].requests : \A x \in call'[t].requests[i].outs :
                                x <= count /\ T[x] < C[t]
        BY <2>0 DEF CallsAfter
      <3>1. call'[t].pins \subseteq call[t].pins /\ call'[t].requests \in {call[t].requests, <<>>}
        BY DEF Steady
      <3> QED
        BY <1>3, <2>2, <3>1 DEF InOrder, CallsAfter
    <2>5. StepsAfter(T, P)'
      <3> SUFFICES ASSUME NEW a \in Acc, NEW i \in 1..Len(steps'[a]), NEW x \in steps'[a][i]
                   PROVE  x <= count /\ Lasting(x)' /\ T[x] < P[<<a, added'[a] + i>>]
        BY <2>0 DEF StepsAfter
      <3>1. PICK j \in 1..Len(steps[a]) : steps'[a][i] = steps[a][j] /\ added'[a] + i = added[a] + j
        BY DEF Steady
      <3>2. x <= count /\ Lasting(x) /\ T[x] < P[<<a, added[a] + j>>]
        BY <1>3, <3>1 DEF InOrder, StepsAfter
      <3>3. x \in Record
        <4>1. steps[a] \in Seq(SUBSET Record)
          BY <1>0 DEF Types
        <4> QED
          BY <3>1, <4>1, ElementOfSeq
      <3> QED
        BY <1>1, <3>1, <3>2, <3>3
    <2> QED
      BY <2>1, <2>3, <2>4, <2>5 DEF InOrder
  <1>4. Ordered'
    BY <1>3 DEF WaitInv, Ordered
  <1> QED
    BY <1>2, <1>4 DEF WaitInv

\* Steps that stay or go: what is left of them is in place.
LEMMA SameSteps ==
  ASSUME UNCHANGED <<steps, added>>
  PROVE  \A a \in Acc : \A i \in 1..Len(steps'[a]) : \E j \in 1..Len(steps[a]) :
            steps'[a][i] = steps[a][j] /\ added'[a] + i = added[a] + j
  OBVIOUS

LEMMA CutSteps ==
  ASSUME CoreInv, NEW b \in Acc, NEW m \in 0..Len(steps[b]), Cut(b, m), UNCHANGED added
  PROVE  \A a \in Acc : \A i \in 1..Len(steps'[a]) : \E j \in 1..Len(steps[a]) :
            steps'[a][i] = steps[a][j] /\ added'[a] + i = added[a] + j
  <1>1. /\ steps \in [Acc -> Seq(SUBSET Record)] /\ steps[b] \in Seq(SUBSET Record)
        /\ Len(steps[b]) \in Nat /\ added[b] \in Int
    BY CountsOf, StepsFor DEF CoreInv, Types
  <1>2. steps' = [steps EXCEPT ![b] = SubSeq(steps[b], 1, m)]
    BY DEF Cut
  <1>3. steps'[b] = SubSeq(steps[b], 1, m) /\ \A a \in Acc \ {b} : steps'[a] = steps[a]
    BY <1>1, <1>2
  <1>4. Len(steps'[b]) = m /\ \A i \in 1..m : steps'[b][i] = steps[b][i]
    BY <1>1, <1>3, SubSeqProperties
  <1>5. \A i \in 1..m : i \in 1..Len(steps[b])
    BY <1>1
  <1>6. \A i \in 1..Len(steps'[b]) : i \in 1..Len(steps[b]) /\ steps'[b][i] = steps[b][i]
    BY <1>4, <1>5
  <1> QED
    BY <1>3, <1>6

LEMMA TailSteps ==
  ASSUME CoreInv, NEW b \in Acc, steps[b] # <<>>, steps' = [steps EXCEPT ![b] = Tail(@)],
         added' = [added EXCEPT ![b] = @ + 1]
  PROVE  \A a \in Acc : \A i \in 1..Len(steps'[a]) : \E j \in 1..Len(steps[a]) :
            steps'[a][i] = steps[a][j] /\ added'[a] + i = added[a] + j
  <1>1. /\ steps \in [Acc -> Seq(SUBSET Record)] /\ steps[b] \in Seq(SUBSET Record)
        /\ added \in [Acc -> None..MaxPushes] /\ added[b] \in Int
    BY CountsOf, StepsFor, Reaches DEF CoreInv, Types
  <1>2. /\ steps'[b] = Tail(steps[b]) /\ added'[b] = added[b] + 1
        /\ \A a \in Acc \ {b} : steps'[a] = steps[a] /\ added'[a] = added[a]
    BY <1>1
  <1>3. /\ Len(steps[b]) \in Nat \ {0} /\ Len(steps'[b]) = Len(steps[b]) - 1
        /\ \A i \in 1..Len(steps'[b]) : steps'[b][i] = steps[b][i + 1]
    BY <1>1, <1>2, EmptySeq, LenProperties, HeadTailProperties
  <1>4. ASSUME NEW i \in 1..Len(steps'[b])
        PROVE  \E j \in 1..Len(steps[b]) : steps'[b][i] = steps[b][j] /\ added'[b] + i = added[b] + j
    <2>1. i + 1 \in 1..Len(steps[b]) /\ added'[b] + i = added[b] + (i + 1)
      BY <1>1, <1>2, <1>3
    <2> QED
      BY <1>3, <2>1
  <1> SUFFICES ASSUME NEW a \in Acc, NEW i \in 1..Len(steps'[a])
               PROVE  \E j \in 1..Len(steps[a]) : steps'[a][i] = steps[a][j] /\ added'[a] + i = added[a] + j
    OBVIOUS
  <1>5. CASE a = b
    BY <1>4, <1>5
  <1>6. CASE a # b
    BY <1>2, <1>6
  <1> QED
    BY <1>5, <1>6

LEMMA ClientSteady ==
  ASSUME CoreInv, Lasts,
         (\E r \in Existing : Cancel(r)) \/ ReleaseOne \/ CloseClient
         \/ \E t \in Thread : Refuse(t) \/ StopWaiting(t) \/ Copy(t) \/ EndCall(t)
  PROVE  Steady
  <1>1. /\ UNCHANGED <<count, refs, pushes, frozen, status, steps, added, at, held>>
        /\ kept' \subseteq kept
        /\ \/ UNCHANGED call
           \/ \E t \in Thread, new \in {"copying", "ending"} : call' = [call EXCEPT ![t].phase = new]
           \/ \E t \in Thread : call' = [call EXCEPT ![t] = Idle]
    BY DEF Cancel, ReleaseOne, CloseClient, Release, Refuse, StopWaiting, Copy, EndCall, history, client,
           reading, running, progress, flags
  <1>2. \A t \in Thread : /\ call'[t].pins \subseteq call[t].pins
                          /\ call'[t].requests \in {call[t].requests, <<>>}
    <2>1. call \in [Thread -> Calls]
      BY DEF CoreInv, Types
    <2>2. CASE UNCHANGED call
      BY <2>2
    <2>3. CASE \E t \in Thread, new \in {"copying", "ending"} : call' = [call EXCEPT ![t].phase = new]
      BY <2>1, <2>3 DEF Calls
    <2>4. CASE \E t \in Thread : call' = [call EXCEPT ![t] = Idle]
      BY <2>1, <2>4 DEF Idle
    <2> QED
      BY <1>1, <2>2, <2>3, <2>4
  <1> QED
    BY <1>1, <1>2, SameSteps DEF Steady, Lasts

LEMMA RecordSteady ==
  ASSUME CoreInv, Lasts, NEW r \in Record,
         RecordStep(r) \/ DropRecord(r) \/ \E how \in {"failed", "cancelled"} : FinishNext(r, how)
  PROVE  Steady
  <1>0. /\ status \in [Record -> Statuses] /\ at \in [Record -> {"idle", "computing", "returned"}]
        /\ held \in [Record -> SUBSET Key]
    BY DEF CoreInv, Types
  <1>1. /\ UNCHANGED <<count, refs, pushes, frozen, steps, added, call>>
        /\ kept' = kept
    BY DEF RecordStep, Start, Return, ReturnState, Raise, Complete, DropRecord, FinishNext, history,
           client, reading, running, progress, flags
  <1>2. /\ \A x \in Record \ {r} : status'[x] = status[x] /\ at'[x] = at[x] /\ held'[x] = held[x]
        /\ status[r] \in {"failed", "cancelled"} => status'[r] = status[r]
    BY <1>0 DEF RecordStep, Start, Return, ReturnState, Raise, Complete, DropRecord, FinishNext, history,
           reading, running, Pending
  <1>3. /\ at'[r] # "computing" => held'[r] \subseteq State
        /\ status'[r] = "completed" /\ FreezeOf(r) # {} => held'[r] = {}
    <2>0. /\ at[r] # "computing" => held[r] \subseteq State
          /\ status[r] = "completed" /\ FreezeOf(r) # {} => held[r] = {}
      BY DEF Lasts
    <2>1. CASE Start(r)
      BY <1>0, <2>0, <2>1 DEF Start, history, Pending
    <2>2. CASE Return(r)
      BY <1>0, <2>2 DEF Return
    <2>3. CASE ReturnState(r)
      <3>1. held[r] \subseteq State
        BY <2>3, Keys DEF ReturnState, CoreInv, Places
      <3> QED
        BY <2>0, <2>3, <3>1 DEF ReturnState, history, reading
    <2>4. CASE Raise(r)
      BY <1>0, <2>4 DEF Raise
    <2>5. CASE Complete(r)
      BY <1>0, <2>0, <2>5 DEF Complete, LeavesAtEnd
    <2>6. CASE DropRecord(r)
      BY <1>0, <2>0, <2>6 DEF DropRecord, history, running
    <2>7. CASE \E how \in {"failed", "cancelled"} : FinishNext(r, how)
      BY <1>0, <2>0, <2>7 DEF FinishNext
    <2> QED
      BY <2>1, <2>2, <2>3, <2>4, <2>5, <2>6, <2>7 DEF RecordStep
  <1> QED
    BY <1>1, <1>2, <1>3, SameSteps DEF Steady, Lasts

LEMMA AccSteady ==
  ASSUME CoreInv, Lasts, NEW a \in Acc,
         AccStep(a) \/ AdvanceNext(a) \/ ReleaseNext(a) \/ \E n \in 0..MaxPushes : DropState(a, n)
  PROVE  Steady
  <1>0. Len(steps[a]) \in Nat /\ Needed(a) \in 0..Len(steps[a])
    BY LenProperties, NeededSteps DEF CoreInv, Types
  <1>1. UNCHANGED <<count, refs, pushes, frozen, status, at, held, call, kept>>
    BY DEF AccStep, StepDone, StepFails, AdvanceNext, Stop, ReleaseNext, DropState, history, client,
           reading, running, progress, flags
  <1>2. \A b \in Acc : \A i \in 1..Len(steps'[b]) : \E j \in 1..Len(steps[b]) :
            steps'[b][i] = steps[b][j] /\ added'[b] + i = added[b] + j
    <2>1. ASSUME Stop(a) PROVE Cut(a, 0) /\ UNCHANGED added
      BY <2>1 DEF Stop
    <2>2. CASE StepDone(a)
      <3>1. steps[a] # <<>>
        BY <2>2 DEF StepDone, CoreInv, Progress
      <3> QED
        BY <2>2, <3>1, TailSteps DEF StepDone
    <2>3. CASE StepFails(a) \/ AdvanceNext(a)
      <3>1. Stop(a) \/ UNCHANGED <<steps, added>>
        BY <2>3 DEF StepFails, AdvanceNext, progress
      <3>2. 0 \in 0..Len(steps[a])
        BY <1>0
      <3> QED
        BY <2>1, <3>1, <3>2, CutSteps, SameSteps
    <2>4. CASE ReleaseNext(a)
      BY <1>0, <2>4, CutSteps DEF ReleaseNext
    <2>5. ASSUME NEW n \in 0..MaxPushes, DropState(a, n)
          PROVE  UNCHANGED <<steps, added>> \/ \E m \in 0..Len(steps[a]) : Cut(a, m) /\ UNCHANGED added
      BY <1>0, <2>5 DEF DropState
    <2> QED
      BY <2>2, <2>3, <2>4, <2>5, CutSteps, SameSteps DEF AccStep
  <1> QED
    BY <1>1, <1>2 DEF Steady, Lasts

\* A step is logged now.
LEMMA LogsStep ==
  ASSUME WaitInv, CoreInv, NEW a \in Acc, NEW outs \in Readable(MaxReads), Open(a, outs) \/ Push(a, outs),
         CoreInv'
  PROVE  WaitInv'
  <1>0. /\ steps[a] \in Seq(SUBSET Record) /\ pushes[a] \in None..MaxPushes /\ added[a] \in None..MaxPushes
        /\ Len(steps[a]) \in Nat /\ count \in 0..MaxRecords
        /\ pushes \in [Acc -> None..MaxPushes] /\ steps \in [Acc -> Seq(SUBSET Record)]
    <2>1. /\ pushes \in [Acc -> None..MaxPushes] /\ steps \in [Acc -> Seq(SUBSET Record)]
          /\ added \in [Acc -> None..MaxPushes] /\ count \in 0..MaxRecords
      BY DEF CoreInv, Types
    <2> QED
      BY <2>1, LenProperties
  <1>1. /\ UNCHANGED <<count, refs, status, frozen, kept, call, at, held, added>>
        /\ \A x \in outs : x <= count /\ x \in Record /\ MayRead(x)
    <2>1. outs \subseteq {r \in Existing : MayRead(r)}
      BY DEF Readable
    <2>2. \A x \in Existing : x <= count /\ x \in Record
      BY <1>0, Counts DEF Existing
    <2>3. UNCHANGED <<count, refs, status, frozen, kept, call, at, held, added>>
      BY DEF Open, Push, history, client, running, flags
    <2> QED
      BY <2>1, <2>2, <2>3
  <1>2. PICK n \in 0..MaxPushes :
           /\ pushes' = [pushes EXCEPT ![a] = n] /\ steps' = [steps EXCEPT ![a] = Append(steps[a], outs)]
           /\ added[a] + Len(steps[a]) = pushes[a] /\ n = pushes[a] + 1
    <2>1. CASE Open(a, outs)
      <3>1. pushes[a] = None /\ pushes' = [pushes EXCEPT ![a] = 0] /\ steps' = [steps EXCEPT ![a] = <<outs>>]
        BY <2>1 DEF Open
      <3>2. added[a] + Len(steps[a]) <= pushes[a]
        BY DEF CoreInv, Progress
      <3>3. Len(steps[a]) = 0 /\ added[a] = None /\ pushes[a] + 1 = 0
        BY <1>0, <3>1, <3>2 DEF None
      <3>4. steps[a] = <<>> /\ Append(steps[a], outs) = <<outs>>
        BY <1>0, <3>3, EmptySeq
      <3>5. 0 \in 0..MaxPushes /\ steps' = [steps EXCEPT ![a] = Append(steps[a], outs)]
        BY <3>1, <3>4, Counts
      <3>6. added[a] + Len(steps[a]) = pushes[a]
        BY <3>1, <3>3 DEF None
      <3> QED
        BY <3>1, <3>3, <3>5, <3>6
    <2>2. CASE Push(a, outs)
      <3>1. /\ a \in open /\ ~stopped[a] /\ pushes[a] < MaxPushes
            /\ pushes' = [pushes EXCEPT ![a] = pushes[a] + 1]
            /\ steps' = [steps EXCEPT ![a] = Append(steps[a], outs)]
        BY <2>2 DEF Push
      <3>2. added[a] + Len(steps[a]) = pushes[a]
        BY <3>1 DEF CoreInv, Progress
      <3>3. pushes[a] # None
        BY <3>1 DEF CoreInv, Fresh
      <3>4. pushes[a] + 1 \in 0..MaxPushes
        BY <1>0, <3>1, <3>3, Counts DEF None
      <3> QED
        BY <3>1, <3>2, <3>4
    <2> QED
      BY <2>1, <2>2
  <1>3. \A x : Lasting(x)' <=> Lasting(x)
    BY <1>1 DEF Lasting, FreezeOf
  <1>4. Lasts'
    BY <1>1, <1>3 DEF WaitInv, Lasts, FreezeOf
  <1>5. \A x \in outs : x \in kept /\ Lasting(x)
    BY <1>1 DEF WaitInv, Lasts, MayRead
  <1>6. /\ pushes'[a] = n /\ \A b \in Acc \ {a} : pushes'[b] = pushes[b] /\ steps'[b] = steps[b]
        /\ Len(steps'[a]) = Len(steps[a]) + 1 /\ steps'[a][Len(steps[a]) + 1] = outs
        /\ \A i \in 1..Len(steps[a]) : steps'[a][i] = steps[a][i]
    BY <1>0, <1>2, AppendProperties
  <1>7. ASSUME NEW T \in [Record -> Nat], NEW P \in [State -> Nat], NEW C \in [Thread -> Nat],
               NEW now \in Nat, InOrder(T, P, C, now)
        PROVE  Ordered'
    <2>0. <<a, n>> \in State /\ [P EXCEPT ![<<a, n>>] = now] \in [State -> Nat]
      BY <1>2, Keys
    <2>1. PICK Q \in [State -> Nat] :
             /\ Q[<<a, n>>] = now
             /\ \A b \in Acc, m \in 0..MaxPushes : <<b, m>> # <<a, n>> => Q[<<b, m>>] = P[<<b, m>>]
      <3> DEFINE Q == [P EXCEPT ![<<a, n>>] = now]
      <3>1. Q \in [State -> Nat] /\ Q[<<a, n>>] = now /\ \A k \in State : k # <<a, n>> => Q[k] = P[k]
        BY <2>0
      <3>2. \A b \in Acc, m \in 0..MaxPushes : <<b, m>> \in State
        BY Keys
      <3> HIDE DEF Q
      <3> QED
        BY <3>1, <3>2
    <2>2. /\ n \in Int /\ pushes[a] \in Int /\ pushes[a] < n
          /\ \A b \in Acc, m \in 0..MaxPushes : m <= pushes[b] => Q[<<b, m>>] = P[<<b, m>>]
      BY <1>0, <1>2, <2>1 DEF None
    <2>3. Past(T, Q, C, now + 1)'
      <3> SUFFICES /\ \A r \in Record : r <= count => T[r] < now + 1
                   /\ \A b \in Acc : \A m \in 0..MaxPushes : m <= pushes'[b] => Q[<<b, m>>] < now + 1
                   /\ \A t \in Thread : C[t] < now + 1
        BY <1>1 DEF Past
      <3>1. Past(T, P, C, now)
        BY <1>7 DEF InOrder
      <3>2. \A r \in Record : r <= count => T[r] < now + 1
        BY <3>1 DEF Past
      <3>3. \A t \in Thread : C[t] < now + 1
        BY <3>1 DEF Past
      <3>4. ASSUME NEW b \in Acc, NEW m \in 0..MaxPushes, m <= pushes'[b] PROVE Q[<<b, m>>] < now + 1
        <4>1. CASE b = a /\ m = n
          BY <2>1, <4>1
        <4>2. CASE ~(b = a /\ m = n)
          <5>1. m <= pushes[b]
            BY <1>2, <1>6, <2>2, <3>4, <4>2
          <5>2. Q[<<b, m>>] = P[<<b, m>>] /\ P[<<b, m>>] < now /\ P[<<b, m>>] \in Nat
            BY <2>2, <3>1, <5>1, Keys DEF Past
          <5> QED
            BY <5>2
        <4> QED
          BY <4>1, <4>2
      <3> QED
        BY <3>2, <3>3, <3>4
    <2>4. ASSUME NEW time \in Nat, time < now, NEW s \in State, At(P, time, s)
          PROVE  At(Q, time, s)'
      <3>0. s[1] \in Acc /\ s[2] \in 0..MaxPushes
        BY Keys
      <3>1. s[2] <= pushes[s[1]] /\ s[2] <= pushes'[s[1]]
        <4>1. s[2] <= pushes[s[1]] /\ pushes[s[1]] \in Int
          BY <1>0, <2>4, <3>0 DEF At, None
        <4>2. pushes'[s[1]] = IF s[1] = a THEN n ELSE pushes[s[1]]
          BY <1>6, <3>0
        <4> QED
          BY <2>2, <3>0, <4>1, <4>2
      <3>2. ASSUME NEW m \in 0..MaxPushes, m <= pushes'[s[1]]
            PROVE  IF m <= s[2] THEN Q[<<s[1], m>>] < time ELSE time < Q[<<s[1], m>>]
        <4>1. CASE s[1] = a /\ m = n
          BY <2>1, <2>2, <2>4, <3>0, <3>1, <4>1
        <4>2. CASE ~(s[1] = a /\ m = n)
          <5>1. m <= pushes[s[1]]
            BY <1>2, <1>6, <2>2, <3>0, <3>2, <4>2
          <5> QED
            BY <2>2, <2>4, <3>0, <5>1 DEF At
        <4> QED
          BY <4>1, <4>2
      <3> QED
        BY <3>1, <3>2 DEF At
    <2>5. RecordsAfter(T, Q)'
      <3> SUFFICES ASSUME NEW r \in Record, r <= count
                   PROVE  /\ \A s \in refs[r] \cap State : At(Q, T[r], s)'
                          /\ \A x \in Record : Out(x) \in refs[r] =>
                                x < r /\ (T[x] = T[r] \/ (T[x] < T[r] /\ Lasting(x)))
        BY <1>1, <1>3 DEF RecordsAfter
      <3>1. T[r] < now /\ T[r] \in Nat
        BY <1>7 DEF InOrder, Past
      <3> QED
        BY <1>7, <2>4, <3>1 DEF InOrder, RecordsAfter
    <2>6. CallsAfter(T, Q, C)'
      <3> SUFFICES ASSUME NEW t \in Thread
                   PROVE  /\ \A s \in call[t].pins : At(Q, C[t], s)'
                          /\ \A i \in DOMAIN call[t].requests : \A x \in call[t].requests[i].outs :
                                x <= count /\ T[x] < C[t]
        BY <1>1 DEF CallsAfter
      <3>1. C[t] < now /\ C[t] \in Nat /\ \A s \in call[t].pins : s \in State
        BY <1>7, Holding DEF InOrder, Past
      <3> QED
        BY <1>7, <2>4, <3>1 DEF InOrder, CallsAfter
    <2>7. StepsAfter(T, Q)'
      <3> SUFFICES ASSUME NEW b \in Acc, NEW i \in 1..Len(steps'[b]), NEW x \in steps'[b][i]
                   PROVE  x <= count /\ Lasting(x) /\ T[x] < Q[<<b, added[b] + i>>]
        BY <1>1, <1>3 DEF StepsAfter
      <3>1. CASE b = a /\ i = Len(steps[a]) + 1
        <4>1. x \in outs /\ added[a] + i = n
          BY <1>0, <1>2, <1>6, <3>1 DEF None
        <4> QED
          BY <1>1, <1>5, <1>7, <2>1, <3>1, <4>1 DEF InOrder, Past
      <3>2. CASE ~(b = a /\ i = Len(steps[a]) + 1)
        <4>1. i \in 1..Len(steps[b]) /\ x \in steps[b][i]
          BY <1>0, <1>6, <3>2
        <4>2. x <= count /\ Lasting(x) /\ T[x] < P[<<b, added[b] + i>>]
          BY <1>7, <4>1 DEF InOrder, StepsAfter
        <4>3. added[b] + i \in 0..MaxPushes /\ added[b] + i <= pushes[b]
          <5>1. /\ added[b] \in None..MaxPushes /\ pushes[b] \in None..MaxPushes /\ Len(steps[b]) \in Nat
                /\ added[b] + Len(steps[b]) <= pushes[b]
            BY CountsOf, StepsFor, Reaches
          <5>2. /\ added[b] \in Int /\ pushes[b] \in Int /\ pushes[b] <= MaxPushes
                /\ -1 <= added[b] /\ 1 <= i /\ i <= Len(steps[b]) /\ i \in Int /\ MaxPushes \in Nat
            BY <4>1, <5>1, Counts DEF None
          <5>3. added[b] + i \in Int /\ 0 <= added[b] + i /\ added[b] + i <= pushes[b]
            BY <5>1, <5>2
          <5> QED
            BY <5>2, <5>3
        <4> QED
          BY <2>2, <4>2, <4>3
      <3> QED
        BY <3>1, <3>2
    <2>8. InOrder(T, Q, C, now + 1)'
      BY <2>3, <2>5, <2>6, <2>7 DEF InOrder
    <2> QED
      BY <2>1, <2>8 DEF Ordered
  <1>8. Ordered'
    BY <1>7 DEF WaitInv, Ordered
  <1> QED
    BY <1>4, <1>8 DEF WaitInv

\* A call begins now.
LEMMA EnterOrder ==
  ASSUME WaitInv, CoreInv, NEW t \in Thread, NEW op, NEW phase, NEW pins \in SUBSET State, NEW requests,
         Enter(t, op, phase, pins, requests),
         \A p \in pins : pushes[p[1]] = p[2],
         \A i \in DOMAIN requests : \A x \in requests[i].outs : x \in Record /\ x <= count
  PROVE  WaitInv'
  <1>1. /\ call' = [call EXCEPT ![t] = [op |-> op, phase |-> phase, pins |-> pins, requests |-> requests]]
        /\ UNCHANGED <<count, refs, status, pushes, frozen, kept, at, held, added, steps>>
    BY DEF Enter, history, running, progress
  <1>2. /\ call'[t].pins = pins /\ call'[t].requests = requests
        /\ \A u \in Thread \ {t} : call'[u] = call[u]
    BY <1>1 DEF CoreInv, Types
  <1>3. \A x : Lasting(x)' <=> Lasting(x)
    BY <1>1 DEF Lasting, FreezeOf
  <1>4. Lasts'
    BY <1>1, <1>3 DEF WaitInv, Lasts, FreezeOf
  <1>5. ASSUME NEW T \in [Record -> Nat], NEW P \in [State -> Nat], NEW C \in [Thread -> Nat],
               NEW now \in Nat, InOrder(T, P, C, now)
        PROVE  Ordered'
    <2>1. PICK D \in [Thread -> Nat] : D[t] = now /\ \A u \in Thread \ {t} : D[u] = C[u]
      <3>1. [C EXCEPT ![t] = now] \in [Thread -> Nat]
        OBVIOUS
      <3> QED
        BY <3>1
    <2>2. Past(T, P, C, now)
      BY <1>5 DEF InOrder
    <2>3. Past(T, P, D, now + 1)'
      <3>1. \A r \in Record : r <= count => T[r] < now + 1
        BY <2>2 DEF Past
      <3>2. \A a \in Acc : \A n \in 0..MaxPushes : n <= pushes[a] => P[<<a, n>>] < now + 1
        BY <2>2, Keys DEF Past
      <3>3. \A u \in Thread : D[u] < now + 1
        BY <2>1, <2>2 DEF Past
      <3> QED
        BY <1>1, <3>1, <3>2, <3>3 DEF Past
    <2>4. \A time, s : At(P, time, s)' <=> At(P, time, s)
      BY <1>1 DEF At
    <2>5. RecordsAfter(T, P)'
      BY <1>1, <1>3, <1>5, <2>4 DEF InOrder, RecordsAfter
    <2>6. CallsAfter(T, P, D)'
      <3> SUFFICES ASSUME NEW u \in Thread
                   PROVE  /\ \A s \in call'[u].pins : At(P, D[u], s)
                          /\ \A i \in DOMAIN call'[u].requests : \A x \in call'[u].requests[i].outs :
                                x <= count /\ T[x] < D[u]
        BY <1>1, <2>4 DEF CallsAfter
      <3>1. CASE u = t
        <4>1. ASSUME NEW s \in pins PROVE At(P, now, s)
          <5>1. s[1] \in Acc /\ s[2] \in 0..MaxPushes /\ pushes[s[1]] = s[2]
            BY Keys
          <5> QED
            BY <2>2, <5>1 DEF At, Past
        <4>2. \A i \in DOMAIN requests : \A x \in requests[i].outs : x <= count /\ T[x] < now
          BY <2>2 DEF Past
        <4> QED
          BY <1>2, <2>1, <3>1, <4>1, <4>2
      <3>2. CASE u # t
        BY <1>2, <1>5, <2>1, <3>2 DEF InOrder, CallsAfter
      <3> QED
        BY <3>1, <3>2
    <2>7. StepsAfter(T, P)'
      BY <1>1, <1>3, <1>5 DEF InOrder, StepsAfter
    <2>8. InOrder(T, P, D, now + 1)'
      BY <2>3, <2>5, <2>6, <2>7 DEF InOrder
    <2> QED
      BY <2>8 DEF Ordered
  <1>6. Ordered'
    BY <1>5 DEF WaitInv, Ordered
  <1> QED
    BY <1>4, <1>6 DEF WaitInv

LEMMA CallOrder ==
  ASSUME WaitInv, CoreInv, NEW t \in Thread, CallOf(t)
  PROVE  WaitInv'
  <1>1. ASSUME NEW k \in 1..MaxBatch, NEW requests \in Requests(k), PinStates(t, requests)
        PROVE  WaitInv'
    <2> DEFINE pins == Pins(UNION {requests[i].accs : i \in DOMAIN requests})
    <2>1. Enter(t, "submit", "checking", pins, requests)
      BY <1>1 DEF PinStates
    <2>2. \A p \in pins : p \in State /\ pushes[p[1]] = p[2]
      BY PinsStates
    <2>3. ASSUME NEW i \in DOMAIN requests, NEW x \in requests[i].outs PROVE x \in Record /\ x <= count
      <3>1. requests[i].outs \in Readable(MaxReads)
        BY DEF Requests
      <3>2. x \in Existing
        BY <3>1 DEF Readable
      <3> QED
        BY <3>2, Counts DEF Existing, CoreInv, Types
    <2> HIDE DEF pins
    <2> QED
      BY <2>1, <2>2, <2>3, EnterOrder
  <1>2. ASSUME NEW a \in open, NEW op, NEW phase, ~stopped[a],
               Enter(t, op, phase, {<<a, pushes[a]>>}, <<>>)
        PROVE  WaitInv'
    <2>1. {<<a, pushes[a]>>} = Pins({a})
      BY <1>2 DEF Pins
    <2>2. \A p \in Pins({a}) : p \in State /\ pushes[p[1]] = p[2]
      BY PinsStates
    <2>3. Enter(t, op, phase, Pins({a}), <<>>)
      BY <1>2, <2>1
    <2> QED
      BY <2>2, <2>3, EnterOrder
  <1> QED
    BY <1>1, <1>2 DEF CallOf, BeginFreeze, BeginRead

\* New records are of the time their call began.
LEMMA LogsOrder ==
  ASSUME WaitInv, CoreInv, NEW t \in Thread, NEW made \in SUBSET Record, NEW new, Logs(t, made, new),
         CoreInv'
  PROVE  WaitInv'
  <1>0. Types /\ count \in Nat /\ (\A r \in Record : r \in Nat)
    <2>1. Types /\ count \in 0..MaxRecords
      BY DEF CoreInv, Types
    <2> QED
      BY <2>1, Counts
  <1>1. /\ UNCHANGED <<pushes, held, at, steps, added>>
        /\ \A u \in Thread : call'[u].pins = call[u].pins /\ call'[u].requests = call[u].requests
        /\ \A r \in Record : refs'[r] = IF r \in made THEN new[r] ELSE refs[r]
        /\ \A r \in Record : status'[r] = IF r \in made THEN "pending" ELSE status[r]
    <2>1. /\ UNCHANGED <<pushes, held, at, steps, added>>
          /\ refs' = [r \in Record |-> IF r \in made THEN new[r] ELSE refs[r]]
          /\ status' = [r \in Record |-> IF r \in made THEN "pending" ELSE status[r]]
          /\ call' = [call EXCEPT ![t].phase = "ending"]
      BY DEF Logs, LogRecords, progress
    <2>2. \A u \in Thread : call'[u].pins = call[u].pins /\ call'[u].requests = call[u].requests
      BY <1>0, <2>1 DEF Types, Calls
    <2> QED
      BY <2>1, <2>2
  <1>2. /\ \A r \in made : /\ status[r] = "none" /\ held[r] = {} /\ r \notin kept /\ r > count
        /\ \A r \in Record : r > count' <=> r > count /\ r \notin made
        /\ \A r \in Record : r <= count => r \notin made /\ r <= count'
        /\ count' \in Nat
    <2>1. count' \in Nat
      BY Counts DEF CoreInv, Types
    <2>2. \A r \in made : r > count
      BY <1>0 DEF Logs
    <2>3. /\ \A r \in made : status[r] = "none" /\ held[r] = {} /\ r \notin kept
          /\ \A r \in Record : r > count' <=> r > count /\ r \notin made
          /\ \A r \in Record : r <= count => r \notin made
      BY LogsFresh
    <2>4. \A r \in Record : r <= count => r <= count'
      BY <1>0, <2>1, <2>3
    <2> QED
      BY <2>1, <2>2, <2>3, <2>4
  <1>3. ASSUME NEW x \in Record, x \notin made, Lasting(x) PROVE Lasting(x)'
    <2>1. refs'[x] = refs[x] /\ status'[x] = status[x]
      BY <1>1, <1>3
    <2>2. ASSUME NEW a \in Acc, frozen[a] = x, frozen'[a] # x, NEW p \in call[t].pins,
                 call[t].op = "freeze", ~stopped[p[1]], frozen' = [frozen EXCEPT ![p[1]] = count + 1]
          PROVE  status[x] \in {"failed", "cancelled"}
      <3>1. a = p[1]
        BY <1>0, <2>2 DEF Types
      <3>2. call[t].phase = "checking" /\ x # 0
        BY Counts DEF Logs
      <3>3. ~Pending(x)
        BY <2>2, <3>1, <3>2 DEF CoreInv, InCalls
      <3>4. x <= count /\ status[x] # "completed"
        BY <2>2, <3>1, <3>2 DEF CoreInv, Frozen
      <3>5. status[x] # "none" /\ status[x] \in Statuses
        <4>1. status[x] \in Statuses /\ x \in 1..count
          BY <1>0, <3>4, Counts DEF CoreInv, Types
        <4> QED
          BY <1>0, <3>4, <4>1 DEF CoreInv, Fresh
      <3> QED
        BY <3>3, <3>4, <3>5 DEF Pending, Statuses
    <2>3. \A a \in Acc : frozen[a] = x => frozen'[a] = x \/ status[x] \in {"failed", "cancelled"}
      BY <2>2 DEF Logs
    <2> QED
      BY <1>3, <2>1, <2>3 DEF Lasting, FreezeOf
  <1>4. Lasts'
    <2>1. ASSUME NEW x \in kept' PROVE Lasting(x)'
      <3>1. CASE x \in kept
        <4>1. x \in Record /\ x \notin made /\ Lasting(x)
          BY <1>0, <1>2, <3>1 DEF WaitInv, Lasts, Types
        <4> QED
          BY <1>3, <4>1
      <3>2. CASE x \notin kept
        <4>1. x \in made /\ (new[x] \cap State = {} \/ \E a \in Acc : frozen'[a] = x)
          BY <3>2 DEF Logs
        <4> QED
          BY <1>1, <4>1 DEF Lasting, FreezeOf
      <3> QED
        BY <3>1, <3>2
    <2>2. ASSUME NEW r \in Record, status'[r] = "completed", FreezeOf(r)' # {} PROVE held'[r] = {}
      <3>1. r \notin made /\ status[r] = "completed"
        BY <1>1, <2>2
      <3>2. PICK a \in Acc : frozen'[a] = r
        BY <2>2 DEF FreezeOf
      <3>3. frozen[a] = r
        <4>1. ASSUME NEW p, frozen' = [frozen EXCEPT ![p[1]] = count + 1], made = {count + 1}
              PROVE  frozen[a] = r
          BY <1>0, <3>1, <3>2, <4>1 DEF Types
        <4> QED
          BY <3>2, <4>1 DEF Logs
      <3> QED
        BY <1>1, <3>1, <3>3 DEF WaitInv, Lasts, FreezeOf
    <2> QED
      BY <1>1, <2>1, <2>2 DEF WaitInv, Lasts
  <1>5. ASSUME NEW T \in [Record -> Nat], NEW P \in [State -> Nat], NEW C \in [Thread -> Nat],
               NEW now \in Nat, InOrder(T, P, C, now)
        PROVE  Ordered'
    <2>1. PICK U \in [Record -> Nat] : \A r \in Record : U[r] = IF r \in made THEN C[t] ELSE T[r]
      <3>1. [r \in Record |-> IF r \in made THEN C[t] ELSE T[r]] \in [Record -> Nat]
        OBVIOUS
      <3> QED
        BY <3>1
    <2>2. /\ Past(T, P, C, now) /\ RecordsAfter(T, P) /\ CallsAfter(T, P, C) /\ StepsAfter(T, P)
      BY <1>5 DEF InOrder
    <2>3. Past(U, P, C, now)'
      <3>1. \A r \in Record : r <= count' => U[r] < now
        BY <1>0, <1>2, <2>1, <2>2 DEF Past
      <3> QED
        BY <1>1, <2>2, <3>1 DEF Past
    <2>4. \A time, s : At(P, time, s)' <=> At(P, time, s)
      BY <1>1 DEF At
    <2>5. RecordsAfter(U, P)'
      <3> SUFFICES ASSUME NEW r \in Record, r <= count'
                   PROVE  /\ \A s \in refs'[r] \cap State : At(P, U[r], s)
                          /\ \A x \in Record : Out(x) \in refs'[r] =>
                                x < r /\ (U[x] = U[r] \/ (U[x] < U[r] /\ Lasting(x)'))
        BY <2>4 DEF RecordsAfter
      <3>1. CASE r \in made
        <4>1. References(t, made, new[r]) /\ Names(t, made, r, new[r])
          BY <3>1 DEF Logs
        <4>2. ASSUME NEW s \in new[r] \cap State PROVE At(P, U[r], s)
          <5>1. s \in call[t].pins
            BY <4>1, <4>2, Keys DEF References
          <5> QED
            BY <2>1, <2>2, <3>1, <5>1 DEF CallsAfter
        <4>3. ASSUME NEW x \in Record, Out(x) \in new[r]
              PROVE  x < r /\ (U[x] = U[r] \/ (U[x] < U[r] /\ Lasting(x)'))
          <5>1. CASE x \in made /\ x < r
            BY <2>1, <3>1, <5>1
          <5>2. ASSUME MayRead(x), NEW i \in DOMAIN call[t].requests, x \in call[t].requests[i].outs
                PROVE  x < r /\ U[x] < U[r] /\ Lasting(x)'
            <6>1. x <= count /\ T[x] < C[t]
              BY <2>2, <5>2 DEF CallsAfter
            <6>2. x \notin made /\ r > count /\ Lasting(x)
              BY <1>2, <3>1, <5>2, <6>1 DEF MayRead, WaitInv, Lasts
            <6> QED
              BY <1>0, <1>3, <2>1, <3>1, <6>1, <6>2
          <5> QED
            BY <4>1, <4>3, <5>1, <5>2 DEF Names
        <4> QED
          BY <1>1, <3>1, <4>2, <4>3
      <3>2. CASE r \notin made
        <4>1. r <= count /\ refs'[r] = refs[r] /\ U[r] = T[r]
          BY <1>0, <1>1, <1>2, <2>1, <3>2
        <4>2. ASSUME NEW x \in Record, Out(x) \in refs[r]
              PROVE  x < r /\ (U[x] = U[r] \/ (U[x] < U[r] /\ Lasting(x)'))
          <5>1. x < r /\ (T[x] = T[r] \/ (T[x] < T[r] /\ Lasting(x)))
            BY <2>2, <4>1, <4>2 DEF RecordsAfter
          <5>2. x <= count /\ x \notin made
            BY <1>0, <1>2, <4>1, <5>1
          <5> QED
            BY <1>3, <2>1, <4>1, <5>1, <5>2
        <4>3. \A s \in refs[r] \cap State : At(P, T[r], s)
          BY <2>2, <4>1 DEF RecordsAfter
        <4> QED
          BY <4>1, <4>2, <4>3
      <3> QED
        BY <3>1, <3>2
    <2>6. CallsAfter(U, P, C)'
      <3> SUFFICES ASSUME NEW u \in Thread
                   PROVE  /\ \A s \in call[u].pins : At(P, C[u], s)
                          /\ \A i \in DOMAIN call[u].requests : \A x \in call[u].requests[i].outs :
                                x <= count' /\ U[x] < C[u]
        BY <1>1, <2>4 DEF CallsAfter
      <3>1. \A s \in call[u].pins : At(P, C[u], s)
        BY <2>2 DEF CallsAfter
      <3>2. ASSUME NEW i \in DOMAIN call[u].requests, NEW x \in call[u].requests[i].outs
            PROVE  x <= count' /\ U[x] < C[u]
        <4>1. x <= count /\ T[x] < C[u]
          BY <2>2 DEF CallsAfter
        <4>2. x \in Record
          <5>1. call[u].requests \in Seq([outs : SUBSET Record, accs : SUBSET Acc])
            BY <1>0 DEF Types, Calls
          <5>2. DOMAIN call[u].requests = 1..Len(call[u].requests)
            BY <5>1, LenProperties
          <5>3. call[u].requests[i] \in [outs : SUBSET Record, accs : SUBSET Acc]
            BY <5>1, <5>2, ElementOfSeq
          <5> QED
            BY <5>3
        <4> QED
          BY <1>2, <2>1, <4>1, <4>2
      <3> QED
        BY <3>1, <3>2
    <2>7. StepsAfter(U, P)'
      <3> SUFFICES ASSUME NEW a \in Acc, NEW i \in 1..Len(steps[a]), NEW x \in steps[a][i]
                   PROVE  x <= count' /\ Lasting(x)' /\ U[x] < P[<<a, added[a] + i>>]
        BY <1>1 DEF StepsAfter
      <3>1. x <= count /\ Lasting(x) /\ T[x] < P[<<a, added[a] + i>>]
        BY <2>2 DEF StepsAfter
      <3>2. x \in Record
        <4>1. steps[a] \in Seq(SUBSET Record)
          BY <1>0 DEF Types
        <4> QED
          BY <4>1, ElementOfSeq
      <3> QED
        BY <1>2, <1>3, <2>1, <3>1, <3>2
    <2>8. InOrder(U, P, C, now)'
      BY <2>3, <2>5, <2>6, <2>7 DEF InOrder
    <2> QED
      BY <2>8 DEF Ordered
  <1>6. Ordered'
    BY <1>5 DEF WaitInv, Ordered
  <1> QED
    BY <1>4, <1>6 DEF WaitInv

LEMMA InitOrder == Init => WaitInv
  <1> SUFFICES ASSUME Init PROVE WaitInv
    OBVIOUS
  <1>1. Lasts
    BY DEF Init, Lasts
  <1>2. PICK T \in [Record -> Nat], P \in [State -> Nat], C \in [Thread -> Nat] : \A t \in Thread : C[t] = 0
    <2>1. /\ [r \in Record |-> 0] \in [Record -> Nat] /\ [s \in State |-> 0] \in [State -> Nat]
          /\ [t \in Thread |-> 0] \in [Thread -> Nat] /\ \A t \in Thread : [u \in Thread |-> 0][t] = 0
      OBVIOUS
    <2> QED
      BY <2>1
  <1>3. \A r \in Record : ~(r <= count)
    BY Counts DEF Init
  <1>4. Past(T, P, C, 1)
    BY <1>2, <1>3, Counts DEF Past, Init, None
  <1>5. RecordsAfter(T, P) /\ CallsAfter(T, P, C) /\ StepsAfter(T, P)
    BY <1>3 DEF RecordsAfter, CallsAfter, StepsAfter, Init, Idle
  <1>6. InOrder(T, P, C, 1)
    BY <1>4, <1>5 DEF InOrder
  <1>7. Ordered
    BY <1>6 DEF Ordered
  <1> QED
    BY <1>1, <1>7 DEF WaitInv

LEMMA NextOrder == CoreInv /\ CoreInv' /\ WaitInv /\ [Next]_vars => WaitInv'
  <1> SUFFICES ASSUME CoreInv, CoreInv', WaitInv, [Next]_vars PROVE WaitInv'
    OBVIOUS
  <1>0. Types /\ Lasts
    BY DEF CoreInv, WaitInv
  <1>1. ASSUME NEW a \in Acc, NEW outs \in Readable(MaxReads), Open(a, outs) \/ Push(a, outs)
        PROVE  WaitInv'
    BY <1>1, LogsStep
  <1>2. ASSUME NEW t \in Thread, CallOf(t) \/ Create(t) \/ Freeze(t) PROVE WaitInv'
    <2>1. CASE CallOf(t)
      BY <2>1, CallOrder
    <2>2. CASE Create(t) \/ Freeze(t)
      <3>1. \E made \in SUBSET Record : \E new : Logs(t, made, new)
        BY <1>0, <2>2, CreateLogs, FreezeLogs
      <3> QED
        BY <3>1, LogsOrder
    <2> QED
      BY <1>2, <2>1, <2>2
  <1>3. CASE \/ \E r \in Existing : Cancel(r)
             \/ ReleaseOne \/ CloseClient
             \/ \E t \in Thread : Refuse(t) \/ StopWaiting(t) \/ Copy(t) \/ EndCall(t)
    BY <1>0, <1>3, ClientSteady, SteadyOrder
  <1>4. ASSUME NEW r \in Record,
               RecordStep(r) \/ DropRecord(r) \/ \E how \in {"failed", "cancelled"} : FinishNext(r, how)
        PROVE  WaitInv'
    BY <1>0, <1>4, RecordSteady, SteadyOrder
  <1>5. ASSUME NEW a \in Acc,
               AccStep(a) \/ AdvanceNext(a) \/ ReleaseNext(a) \/ \E n \in 0..MaxPushes : DropState(a, n)
        PROVE  WaitInv'
    BY <1>0, <1>5, AccSteady, SteadyOrder
  <1>6. CASE Cascade
    <2>1. ASSUME NEW job \in todo, FinishNext(job[1], job[2]) PROVE WaitInv'
      <3>1. job[1] \in Record /\ job[2] \in {"failed", "cancelled"}
        BY <1>0 DEF Types
      <3> QED
        BY <1>4, <2>1, <3>1
    <2>2. ASSUME NEW s \in State, DropState(s[1], s[2]) PROVE WaitInv'
      BY <1>5, <2>2, Keys
    <2> QED
      BY <1>4, <1>5, <1>6, <2>1, <2>2 DEF Cascade
  <1>7. CASE UNCHANGED vars
    <2>1. UNCHANGED <<count, refs, pushes, frozen, status, kept, call, steps, added, at, held>>
      BY <1>7 DEF vars, history, client, reading, running, progress, flags
    <2>2. Steady
      BY <1>0, <2>1, SameSteps DEF Steady, Lasts
    <2> QED
      BY <2>2, SteadyOrder
  <1> QED
    BY <1>1, <1>2, <1>3, <1>4, <1>5, <1>6, <1>7 DEF Next, CallStep

LEMMA AlwaysOrder == Spec => []WaitInv
  BY AlwaysCore, InitOrder, NextOrder, PTL DEF Spec

\* When nothing moves, a pending record waits for an earlier one, or for a step
\* logged before its call began.
LEMMA WaitsForEarlier ==
  ASSUME TellInv, Quiet, NEW T \in [Record -> Nat], NEW P \in [State -> Nat], RecordsAfter(T, P),
         NEW r \in Record, Pending(r)
  PROVE  \/ \E x \in Record : Pending(x) /\ x < r /\ T[x] <= T[r]
         \/ \E a \in Acc : steps[a] # <<>> /\ <<a, added[a] + 1>> \in State
                           /\ P[<<a, added[a] + 1>>] < T[r]
  <1>0. ReadInv /\ CoreInv /\ Types /\ Scheduled /\ todo = {} /\ r <= count
    <2>1. ReadInv /\ CoreInv /\ Types /\ Scheduled /\ todo = {} /\ Fresh
      BY DEF TellInv, ReadInv, CoreInv, Quiet, Locked
    <2>2. ~(r > count) /\ count \in 0..MaxRecords
      BY <2>1 DEF Fresh, Pending, Types
    <2> QED
      BY <2>1, <2>2, Counts
  <1>1. PICK k \in waiting[r] : TRUE
    BY <1>0 DEF Quiet, Scheduled
  <1>2. k \in unread[r] /\ k \in refs[r] /\ k \in Key /\ readers[k] > 0
    BY <1>0, <1>1, Holding DEF CoreInv, Places
  <1>3. IF k \in State THEN ~stopped[k[1]] /\ added[k[1]] # k[2] ELSE Pending(k[2])
    BY <1>0, <1>1, <1>2 DEF Scheduled
  <1>4. CASE k \in State
    <2> DEFINE a == k[1]
               n == added[a] + 1
    <2>1. a \in Acc /\ k[2] \in 0..MaxPushes /\ k = <<a, k[2]>>
      BY <1>4, Keys
    <2>2. k[2] \in added[a]..(added[a] + Len(steps[a]))
      BY <1>0, <1>2, <1>3, <1>4, <2>1 DEF ReadInv, Reached
    <2>3. added[a] \in None..MaxPushes /\ Len(steps[a]) \in Nat /\ pushes[a] \in Int
      BY <1>0, <2>1, LenProperties DEF Types
    <2>4. n \in 0..k[2] /\ Len(steps[a]) > 0
      BY <1>3, <1>4, <2>1, <2>2, <2>3 DEF None
    <2>5. At(P, T[r], k)
      BY <1>0, <1>2, <1>4 DEF RecordsAfter
    <2>6. steps[a] # <<>>
      BY <2>4
    <2>7. n \in 0..MaxPushes /\ n <= pushes[a] /\ n <= k[2]
      <3>1. k[2] <= pushes[a] /\ k[2] \in Nat /\ k[2] <= MaxPushes
        BY <2>1, <2>5, Counts DEF At
      <3> QED
        BY <2>3, <2>4, <3>1, Counts
    <2>8. P[<<a, n>>] < T[r]
      BY <2>5, <2>7 DEF At
    <2>9. <<a, n>> \in State
      BY <2>1, <2>7, Keys
    <2> QED
      BY <2>1, <2>6, <2>8, <2>9
  <1>5. CASE k \notin State
    <2>1. PICK x \in Record : k = Out(x)
      BY <1>2, <1>5, Keys
    <2>2. Pending(x)
      BY <1>3, <1>5, <2>1, Keys
    <2>3. x < r /\ (T[x] = T[r] \/ T[x] < T[r])
      BY <1>0, <1>2, <2>1 DEF RecordsAfter
    <2> QED
      BY <2>2, <2>3
  <1> QED
    BY <1>4, <1>5

\* And a step is held back by a pending record of a call that began before it was
\* logged: one that it reads, or one that reads what holds the state before it.
LEMMA HeldByEarlier ==
  ASSUME TellInv, Lasts, Quiet, NEW T \in [Record -> Nat], NEW P \in [State -> Nat],
         RecordsAfter(T, P), StepsAfter(T, P), NEW a \in Acc, steps[a] # <<>>
  PROVE  \E r \in Record : Pending(r) /\ T[r] < P[<<a, added[a] + 1>>]
  <1>0. /\ ReadInv /\ CoreInv /\ Types /\ Scheduled /\ HoldsGo /\ HeldBack(a) /\ todo = {} /\ drops = {}
        /\ \A r \in Record : status[r] # "none" => r <= count
    <2>1. /\ ReadInv /\ CoreInv /\ Types /\ Scheduled /\ HoldsGo /\ todo = {} /\ drops = {} /\ ready = {}
          /\ Fresh /\ Told
      BY DEF TellInv, ReadInv, CoreInv, Quiet, Locked
    <2>2. HeldBack(a)
      BY <2>1 DEF Told, Quiet
    <2>3. count \in 0..MaxRecords
      BY <2>1 DEF Types
    <2>4. \A r \in Record : status[r] # "none" => r <= count
      <3> SUFFICES ASSUME NEW r \in Record, ~(r <= count) PROVE status[r] = "none"
        OBVIOUS
      <3>1. r \in Nat /\ r > count
        BY <2>3, Counts
      <3> QED
        BY <2>1, <3>1 DEF Fresh
    <2> QED
      BY <2>1, <2>2, <2>4
  <1>1. /\ steps[a] \in Seq(SUBSET Record) /\ Len(steps[a]) \in Nat \ {0} /\ added[a] \in None..MaxPushes
        /\ pushes[a] \in None..MaxPushes /\ added[a] + Len(steps[a]) <= pushes[a]
        /\ Head(steps[a]) = steps[a][1]
    <2>1. /\ steps[a] \in Seq(SUBSET Record) /\ added[a] \in None..MaxPushes
          /\ pushes[a] \in None..MaxPushes /\ added[a] + Len(steps[a]) <= pushes[a]
      BY <1>0 DEF CoreInv, Types, Progress
    <2> QED
      BY <2>1, EmptySeq, LenProperties
  <1>2. ASSUME NEW r \in Head(steps[a]), Pending(r) PROVE r \in Record /\ T[r] < P[<<a, added[a] + 1>>]
    <2>1. 1 \in 1..Len(steps[a]) /\ r \in steps[a][1]
      BY <1>1
    <2>2. r \in Record
      BY <1>1, <2>1, ElementOfSeq
    <2> QED
      BY <2>1, <2>2 DEF StepsAfter
  <1>3. ASSUME ~Unread(a)
        PROVE  \E r \in Record : Pending(r) /\ T[r] < P[<<a, added[a] + 1>>]
    <2> DEFINE s == <<a, added[a]>>
    <2>1. s \in State /\ s \in Key /\ readers[s] > 0 /\ s[1] = a /\ s[2] = added[a]
      <3>1. added[a] # None /\ readers[s] # 0
        BY <1>3 DEF Unread
      <3>2. s \in State /\ s \in Key
        BY <1>1, <3>1, Keys DEF None
      <3> QED
        BY <1>0, <3>1, <3>2, Holding
    <2>2. RecordsOf(s) # {} \/ StepsOf(s) # {} \/ CallsOf(s) # {}
      BY <1>0, <2>1, Unheld DEF CoreInv
    <2> HIDE DEF s
    <2>3. StepsOf(s) = {}
      <3> SUFFICES ASSUME NEW b \in Acc, NEW j \in 1..(MaxPushes + 1), j <= Len(steps[b]),
                          s \in Sources(steps[b][j])
                   PROVE  FALSE
        BY DEF StepsOf
      <3>1. steps[b] \in Seq(SUBSET Record) /\ Len(steps[b]) \in Nat
        BY <1>0, LenProperties DEF Types
      <3>2. steps[b][j] \in SUBSET Record
        BY <3>1, ElementOfSeq
      <3> QED
        BY <2>1, <3>2, Keys
    <2>4. CallsOf(s) = {}
      <3> SUFFICES ASSUME NEW t \in Thread, s \in call[t].pins PROVE FALSE
        BY DEF CallsOf
      <3>1. call[t].phase # "idle"
        BY <1>0 DEF CoreInv, InCalls, Idle
      <3> QED
        BY <2>1, <3>1 DEF Quiet, WaitIsOver
    <2>5. PICK r \in Record : s \in unread[r] \cup held[r]
      BY <2>2, <2>3, <2>4 DEF RecordsOf
    <2>6. refs[r] = {s} /\ at[r] = "idle"
      BY <1>0, <2>1, <2>5 DEF CoreInv, Places, Quiet
    <2>7. s \notin unread[r]
      <3> SUFFICES ASSUME s \in unread[r] PROVE FALSE
        OBVIOUS
      <3>1. Pending(r) /\ waiting[r] \subseteq {s}
        BY <1>0, <2>6 DEF CoreInv, Places
      <3>2. s \in waiting[r]
        BY <1>0, <2>6, <3>1 DEF Scheduled, Quiet
      <3>3. r \in dependents[s]
        BY <1>0, <3>2 DEF Scheduled
      <3> QED
        BY <1>0, <2>1, <3>3 DEF Scheduled
    <2>8. s \in held[r] /\ status[r] = "completed"
      BY <1>0, <2>5, <2>6, <2>7 DEF CoreInv, Places
    <2>9. ~Lasting(r)
      BY <2>1, <2>6, <2>8 DEF Lasting, Lasts
    <2>10. readers[Out(r)] > 0 /\ Out(r) \in Key /\ Out(r) \notin State
      BY <1>0, <2>1, <2>6, <2>8, <2>9, Keys DEF HoldsGo, Lasts
    <2>11. RecordsOf(Out(r)) # {} \/ StepsOf(Out(r)) # {} \/ CallsOf(Out(r)) # {}
      BY <1>0, <2>10, Unheld DEF CoreInv
    <2>12. CallsOf(Out(r)) = {}
      BY <1>0, <2>10, Holding DEF CallsOf
    <2>13. StepsOf(Out(r)) = {}
      <3> SUFFICES ASSUME NEW b \in Acc, NEW j \in 1..(MaxPushes + 1), j <= Len(steps[b]),
                          Out(r) \in Sources(steps[b][j])
                   PROVE  FALSE
        BY DEF StepsOf
      <3>1. steps[b] \in Seq(SUBSET Record) /\ Len(steps[b]) \in Nat
        BY <1>0, LenProperties DEF Types
      <3>2. steps[b][j] \in SUBSET Record /\ j \in 1..Len(steps[b])
        BY <3>1, ElementOfSeq
      <3>3. r \in steps[b][j]
        BY <3>2, Keys
      <3> QED
        BY <2>9, <3>2, <3>3 DEF StepsAfter
    <2>14. PICK y \in Record : Out(r) \in unread[y] \cup held[y]
      BY <2>11, <2>12, <2>13 DEF RecordsOf
    <2>15. Out(r) \in unread[y]
      BY <2>10, <2>14 DEF Lasts, Quiet
    <2>16. Pending(y) /\ Out(r) \in refs[y]
      BY <1>0, <2>15 DEF CoreInv, Places
    <2>17. y <= count /\ r <= count
      BY <1>0, <2>8, <2>16 DEF Pending
    <2>18. T[y] = T[r]
      BY <2>9, <2>16, <2>17 DEF RecordsAfter
    <2>19. At(P, T[r], s)
      BY <2>1, <2>6, <2>17 DEF RecordsAfter
    <2>20. added[a] + 1 \in 0..MaxPushes /\ added[a] + 1 <= pushes[a] /\ ~(added[a] + 1 <= added[a])
      <3>1. added[a] \in Int /\ pushes[a] \in Int /\ added[a] >= -1 /\ pushes[a] <= MaxPushes
        BY <1>1, Counts DEF None
      <3>2. added[a] + 1 <= pushes[a] /\ MaxPushes \in Nat
        BY <1>1, <3>1, Counts
      <3> HIDE DEF None
      <3> QED
        BY <3>1, <3>2
    <2>21. T[r] < P[<<a, added[a] + 1>>]
      BY <2>1, <2>19, <2>20 DEF At
    <2> QED
      BY <2>16, <2>18, <2>21
  <1> QED
    BY <1>0, <1>2, <1>3 DEF HeldBack

\* Accumulators and records, however many there are, never wait for each other in
\* a circle: of all that waits, what was pinned first would have nothing to wait
\* for.
THEOREM NeverInCircles == Spec => []NoCircularWait
  <1>1. ASSUME TellInv, WaitInv, Quiet
        PROVE  /\ \A r \in Record : ~Pending(r)
               /\ \A a \in Acc : steps[a] = <<>>
               /\ \A t \in Thread : call[t] = Idle
    <2>1. PICK T \in [Record -> Nat], P \in [State -> Nat], C \in [Thread -> Nat], now \in Nat :
             InOrder(T, P, C, now)
      BY <1>1 DEF WaitInv, Ordered
    <2>2. Lasts /\ RecordsAfter(T, P) /\ StepsAfter(T, P)
      BY <1>1, <2>1 DEF WaitInv, InOrder
    <2> DEFINE next(a) == <<a, added[a] + 1>>
               Moments == {T[r] : r \in {x \in Record : Pending(x)}}
                          \cup {P[next(a)] : a \in {b \in Acc : steps[b] # <<>> /\ next(b) \in State}}
    <2>3. \A r \in Record : Pending(r) => T[r] \in Moments
      OBVIOUS
    <2>4. \A a \in Acc : steps[a] # <<>> /\ next(a) \in State => P[next(a)] \in Moments
      OBVIOUS
    <2>5. \A m \in Moments : \/ \E r \in Record : Pending(r) /\ m = T[r]
                             \/ \E a \in Acc : steps[a] # <<>> /\ m = P[next(a)]
      OBVIOUS
    <2>6. Moments \in SUBSET Nat
      OBVIOUS
    <2> HIDE DEF Moments
    <2>7. ASSUME Moments # {} PROVE FALSE
      <3>1. PICK m \in Moments : \A n \in Moments : m <= n
        BY <2>6, <2>7, Minimum
      <3>2. \A a \in Acc : steps[a] # <<>> => m # P[next(a)]
        <4> SUFFICES ASSUME NEW a \in Acc, steps[a] # <<>>, m = P[next(a)] PROVE FALSE
          OBVIOUS
        <4>1. PICK r \in Record : Pending(r) /\ T[r] < P[next(a)]
          BY <1>1, <2>2, HeldByEarlier
        <4>2. T[r] \in Moments /\ T[r] \in Nat /\ m \in Nat
          BY <2>3, <2>6, <4>1
        <4>3. m <= T[r] /\ T[r] < m
          BY <3>1, <4>1, <4>2
        <4> QED
          BY <4>2, <4>3
      <3> DEFINE First == {r \in Record : Pending(r) /\ T[r] = m}
      <3>3. First # {} /\ First \in SUBSET Nat
        <4>1. \E r \in Record : Pending(r) /\ m = T[r]
          BY <2>5, <3>2
        <4>2. Record \subseteq Nat
          BY Counts
        <4> QED
          BY <4>1, <4>2
      <3>4. PICK r \in First : \A x \in First : r <= x
        BY <3>3, Minimum
      <3>5. r \in Record /\ r \in Nat /\ Pending(r) /\ T[r] = m /\ m \in Nat
        BY <2>6, <3>3, <3>4
      <3>6. ~ \E x \in Record : Pending(x) /\ x < r /\ T[x] <= T[r]
        <4> SUFFICES ASSUME NEW x \in Record, Pending(x), x < r, T[x] <= T[r] PROVE FALSE
          OBVIOUS
        <4>1. T[x] \in Moments /\ T[x] \in Nat
          BY <2>3
        <4>2. x \in First
          BY <3>1, <3>5, <4>1
        <4>3. x \in Nat
          BY Counts
        <4> QED
          BY <3>4, <3>5, <4>2, <4>3
      <3>7. ~ \E a \in Acc : steps[a] # <<>> /\ next(a) \in State /\ P[next(a)] < T[r]
        <4> SUFFICES ASSUME NEW a \in Acc, steps[a] # <<>>, next(a) \in State, P[next(a)] < T[r] PROVE FALSE
          OBVIOUS
        <4>1. P[next(a)] \in Nat /\ m <= P[next(a)] /\ P[next(a)] < m
          BY <2>4, <3>1, <3>5
        <4> QED
          BY <3>5, <4>1
      <3> QED
        BY <1>1, <2>2, <3>5, <3>6, <3>7, WaitsForEarlier
    <2>8. \A r \in Record : ~Pending(r)
      BY <2>3, <2>7
    <2>9. \A a \in Acc : steps[a] = <<>>
      BY <1>1, <2>2, <2>8, HeldByEarlier
    <2>10. ASSUME NEW t \in Thread PROVE call[t] = Idle
      <3>0. ReadInv /\ CoreInv /\ Types
        BY <1>1 DEF TellInv, ReadInv, CoreInv
      <3> SUFFICES ASSUME call[t].phase = "waiting", \A p \in call[t].pins : ~WaitIsOver(p) PROVE FALSE
        BY <1>1, <3>0 DEF Quiet, CoreInv, InCalls
      <3>1. call[t].op \in {"freeze", "read"}
        BY <3>0 DEF CoreInv, Types, Calls, InCalls
      <3>2. PICK p \in State : call[t].pins = {p}
        BY <3>0, <3>1 DEF CoreInv, InCalls
      <3>3. ~stopped[p[1]] /\ added[p[1]] # p[2] /\ readers[p] > 0
        BY <3>0, <3>2, Holding DEF WaitIsOver
      <3>4. p[1] \in Acc /\ p[2] \in 0..MaxPushes /\ p = <<p[1], p[2]>>
        BY Keys
      <3>5. p[2] \in added[p[1]]..(added[p[1]] + Len(steps[p[1]])) /\ Len(steps[p[1]]) = 0
        BY <2>9, <3>0, <3>3, <3>4 DEF ReadInv, Reached
      <3>6. added[p[1]] \in Int
        BY <3>0, <3>4 DEF Types, None
      <3> QED
        BY <3>3, <3>4, <3>5, <3>6
    <2> QED
      BY <2>8, <2>9, <2>10
  <1>2. TellInv /\ WaitInv => NoCircularWait
    BY <1>1 DEF NoCircularWait
  <1> QED
    BY AlwaysTells, AlwaysOrder, <1>2, PTL

=============================================================================
