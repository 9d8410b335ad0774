---------------------------- MODULE KeWaitProofs ----------------------------
(***************************************************************************)
(* Theorems about KeWait, for any sets of threads, objects and waits.      *)
(***************************************************************************)
EXTENDS KeWait, WaitListProofs

-----------------------------------------------------------------------------
(* The inductive invariant: type correctness, the invariants the runs      *)
(* check, and what makes them inductive.  A sleeping thread is not only    *)
(* not satisfiable while no scan runs: during a scan it can be satisfiable *)
(* through the scanned object alone, and only if the scan has still to     *)
(* reach it.                                                               *)
Waiting(t) == state[t] = "waiting"

SignalOK ==
    /\ \A e \in Event : signal[e] \in {0, 1}
    /\ \A o \in Semaphore \cup Thread : signal[o] >= 0

RequestOK ==
    \A t \in Thread : /\ Waiting(t) => request[t] \in WaitRequest
                      /\ result[t] = "kernelApc" => request[t] \in WaitRequest

(* A WaitAll that can still be satisfied takes no mutant past MINLONG. *)
RecursionOK ==
    \A t \in Thread : Waiting(t) /\ request[t].all =>
        \A m \in Mutant \cap Range(request[t].objs) : ~AtLimit(m, t)

LockOK ==
    /\ lockOwner = NoThread => scanObj = NoObject /\ after = "unlock"
    /\ scanObj = NoObject => after \in {"unlock", "rundown"}
    /\ after = "rundown" => lockOwner \in Thread /\ state[lockOwner] = "exiting"
    /\ after = "terminate" => lockOwner \in Thread /\ state[lockOwner] = "drained"
    /\ after \in {"pulse", "pulseKeep"} => scanObj \in Event

ScanOK ==
    scanObj # NoObject =>
        /\ IsInjective(scanRest)
        /\ Range(scanRest) \subseteq Range(waitList[scanObj])
        /\ \A t \in Thread : Waiting(t) /\ scanObj \in Mutant => owner[scanObj] # t

ScanReaches(t) ==
    scanObj # NoObject /\ signal[scanObj] > 0 /\ t \in Range(scanRest)

WakeupOK ==
    \A t \in Thread : Waiting(t) =>
        /\ ~request[t].all =>
              \A o \in Range(request[t].objs) :
                    Available(o, t) => o = scanObj /\ ScanReaches(t)
        /\ request[t].all /\ (\A o \in Range(request[t].objs) : Available(o, t)) =>
              ScanReaches(t)

IInv ==
    /\ TypeOK /\ SignalOK /\ RequestOK /\ RecursionOK
    /\ LockOK /\ ScanOK /\ WakeupOK
    /\ MutantOwnership /\ WaitLinkage

-----------------------------------------------------------------------------
(* Steps that change alerts and user APCs only. *)
LEMMA AlertStep ==
    ASSUME IInv, UNCHANGED <<objVars, waitVars, lockOwner, scanVars>>,
           alerted' \in [Thread -> SUBSET Modes],
           userApcs' \in [Thread -> Nat],
           userApcPending' \in [Thread -> BOOLEAN]
    PROVE  IInv'
<1> USE DEF IInv, objVars, waitVars, scanVars
<1>1. TypeOK'
  BY DEF TypeOK
<1>2. SignalOK'
  BY DEF SignalOK
<1>3. RequestOK' /\ RecursionOK'
  BY DEF RequestOK, RecursionOK, Waiting, AtLimit
<1>4. LockOK' /\ ScanOK'
  BY DEF LockOK, ScanOK, Waiting
<1>5. WakeupOK'
  BY DEF WakeupOK, ScanReaches, Available, Waiting
<1>6. MutantOwnership' /\ WaitLinkage'
  BY DEF MutantOwnership, WaitLinkage
<1> QED BY <1>1, <1>2, <1>3, <1>4, <1>5, <1>6

(* What KiUnwaitThread does to the wait lists of all objects. *)
LEMMA UnwaitLinks ==
    ASSUME IInv, NEW t \in Thread, NEW status \in Results,
           NEW S \in SUBSET Object, Waiting(t), Unwait(t, status, S)
    PROVE  /\ waitList' \in [Object -> Seq(Thread)]
           /\ state' \in [Thread -> States]
           /\ request' \in [Thread -> WaitRequest \cup {NoRequest}]
           /\ result' \in [Thread -> Results]
           /\ taken' \in [Thread -> SUBSET Object]
           /\ timer' \subseteq Thread
           /\ \A u \in Thread : Waiting(u)' <=> Waiting(u) /\ u # t
           /\ \A o \in Object : Range(waitList'[o]) = Range(waitList[o]) \ {t}
           /\ WaitLinkage'
           /\ RequestOK'
<1> USE DEF IInv, Waiting
<1>1. /\ state' = [state EXCEPT ![t] = "returning"]
      /\ result' = [result EXCEPT ![t] = status]
      /\ taken' = [taken EXCEPT ![t] = S]
      /\ timer' = timer \ {t}
      /\ request' = request
      /\ waitList' = [o \in Object |-> Unlink(waitList[o], t)]
  BY DEF Unwait
<1>2. \A o \in Object : /\ waitList'[o] \in Seq(Thread)
                        /\ IsInjective(waitList'[o])
                        /\ Range(waitList'[o]) = Range(waitList[o]) \ {t}
  <2> SUFFICES ASSUME NEW o \in Object
               PROVE  /\ waitList'[o] \in Seq(Thread)
                      /\ IsInjective(waitList'[o])
                      /\ Range(waitList'[o]) = Range(waitList[o]) \ {t}
    OBVIOUS
  <2>1. waitList[o] \in Seq(Thread) /\ IsInjective(waitList[o])
    BY DEF TypeOK, WaitLinkage
  <2>2. waitList'[o] = Unlink(waitList[o], t)
    BY <1>1
  <2>3. /\ Unlink(waitList[o], t) \in Seq(Thread)
        /\ IsInjective(Unlink(waitList[o], t))
        /\ Range(Unlink(waitList[o], t)) = Range(waitList[o]) \ {t}
    BY <2>1, UnlinkProperties
  <2> QED BY <2>2, <2>3
<1>3. waitList' \in [Object -> Seq(Thread)]
  BY <1>1, <1>2
<1>4. /\ state' \in [Thread -> States]
      /\ request' \in [Thread -> WaitRequest \cup {NoRequest}]
      /\ result' \in [Thread -> Results]
      /\ taken' \in [Thread -> SUBSET Object]
      /\ timer' \subseteq Thread
  BY <1>1 DEF TypeOK, States
<1>5. \A u \in Thread : Waiting(u)' <=> Waiting(u) /\ u # t
  BY <1>1 DEF TypeOK
<1>6. WaitLinkage'
  <2>1. \A o \in Object :
          Range(waitList'[o]) = {u \in Thread : state'[u] = "waiting"
                                                /\ o \in Range(request'[u].objs)}
    BY <1>1, <1>2, <1>5 DEF WaitLinkage
  <2>2. timer' = {u \in Thread : state'[u] = "waiting" /\ request'[u].timeout = "finite"}
    BY <1>1, <1>5 DEF WaitLinkage
  <2> QED BY <1>2, <2>1, <2>2 DEF WaitLinkage
<1>7. RequestOK'
  BY <1>1, <1>5 DEF RequestOK, TypeOK
<1> QED BY <1>2, <1>3, <1>4, <1>5, <1>6, <1>7

(* A thread whose wait ends without a change to any object: a timeout, an  *)
(* alert, an APC, or a synchronization event handed over by KeSetEvent.    *)
LEMMA UnwaitStep ==
    ASSUME IInv, NEW t \in Thread, NEW status \in Results, NEW S \in SUBSET Object,
           Waiting(t), Unwait(t, status, S), lockOwner = NoThread,
           lockOwner' \in Thread \cup {NoThread, Dpc},
           UNCHANGED <<objVars, scanVars>>,
           alerted' \in [Thread -> SUBSET Modes],
           userApcs' \in [Thread -> Nat],
           userApcPending' \in [Thread -> BOOLEAN]
    PROVE  IInv'
<1> USE DEF IInv, objVars, scanVars
<1>1. /\ waitList' \in [Object -> Seq(Thread)]
      /\ state' \in [Thread -> States]
      /\ request' \in [Thread -> WaitRequest \cup {NoRequest}]
      /\ result' \in [Thread -> Results]
      /\ taken' \in [Thread -> SUBSET Object]
      /\ timer' \subseteq Thread
      /\ WaitLinkage' /\ RequestOK'
  BY UnwaitLinks
<1>2. \A u \in Thread : Waiting(u)' <=> Waiting(u) /\ u # t
  BY UnwaitLinks
<1>3. request' = request /\ state' = [state EXCEPT ![t] = "returning"]
  BY DEF Unwait
<1>4. scanObj = NoObject /\ after = "unlock"
  BY DEF LockOK
<1>5. TypeOK'
  BY <1>1 DEF TypeOK
<1>6. SignalOK' /\ RecursionOK'
  BY <1>2, <1>3 DEF SignalOK, RecursionOK, AtLimit
<1>7. LockOK' /\ ScanOK'
  BY <1>3, <1>4, KeWaitAssumption DEF LockOK, ScanOK
<1>8. WakeupOK'
  BY <1>2, <1>3, <1>4 DEF WakeupOK, ScanReaches, Available
<1>9. MutantOwnership'
  BY <1>3 DEF MutantOwnership, Waiting, TypeOK
<1> QED BY <1>1, <1>5, <1>6, <1>7, <1>8, <1>9

(* What a wait that ends at once leaves of the wait lists. *)
LEMMA EndAtOnceLinks ==
    ASSUME IInv, NEW t \in Thread, NEW r \in WaitRequest, NEW status \in Results,
           NEW S \in SUBSET Object, state[t] \in {"running", "returning"},
           EndAtOnce(t, r, status, S)
    PROVE  /\ waitList' \in [Object -> Seq(Thread)]
           /\ state' \in [Thread -> States]
           /\ request' \in [Thread -> WaitRequest \cup {NoRequest}]
           /\ result' \in [Thread -> Results]
           /\ taken' \in [Thread -> SUBSET Object]
           /\ timer' \subseteq Thread
           /\ waitList' = waitList
           /\ state' = [state EXCEPT ![t] = "returning"]
           /\ \A u \in Thread : Waiting(u)' <=> Waiting(u)
           /\ \A u \in Thread : Waiting(u) => request'[u] = request[u]
           /\ WaitLinkage'
           /\ RequestOK'
<1> USE DEF IInv, Waiting
<1>1. /\ state' = [state EXCEPT ![t] = "returning"]
      /\ request' = [request EXCEPT ![t] = r]
      /\ result' = [result EXCEPT ![t] = status]
      /\ taken' = [taken EXCEPT ![t] = S]
      /\ waitList' = waitList /\ timer' = timer
  BY DEF EndAtOnce
<1>2. /\ state' \in [Thread -> States]
      /\ request' \in [Thread -> WaitRequest \cup {NoRequest}]
      /\ result' \in [Thread -> Results]
      /\ taken' \in [Thread -> SUBSET Object]
  BY <1>1 DEF TypeOK, States
<1>3. \A u \in Thread : Waiting(u)' <=> Waiting(u)
  BY <1>1 DEF TypeOK
<1>4. \A u \in Thread : Waiting(u) => request'[u] = request[u]
  BY <1>1 DEF TypeOK
<1>5. WaitLinkage'
  BY <1>1, <1>3, <1>4 DEF WaitLinkage
<1>6. RequestOK'
  BY <1>1, <1>3 DEF RequestOK, TypeOK
<1> QED BY <1>1, <1>2, <1>3, <1>4, <1>5, <1>6 DEF TypeOK

(* The caller of a wait holds the dispatcher database and no scan runs. *)
LEMMA WaiterHoldsLock ==
    ASSUME IInv, NEW t \in Thread, state[t] \in {"running", "returning"},
           lockOwner = NoThread \/ (lockOwner = t /\ scanObj = NoObject)
    PROVE  scanObj = NoObject /\ after = "unlock"
BY DEF IInv, LockOK

(* A wait that ends at once without an object. *)
LEMMA EndAtOnceStep ==
    ASSUME IInv, NEW t \in Thread, NEW r \in WaitRequest, NEW status \in Results,
           state[t] \in {"running", "returning"},
           lockOwner = NoThread \/ (lockOwner = t /\ scanObj = NoObject),
           EndAtOnce(t, r, status, {}), UNCHANGED objVars,
           lockOwner' = NoThread, UNCHANGED scanVars,
           alerted' \in [Thread -> SUBSET Modes],
           userApcs' \in [Thread -> Nat],
           userApcPending' \in [Thread -> BOOLEAN]
    PROVE  IInv'
<1> USE DEF IInv, objVars, scanVars
<1>1. /\ waitList' \in [Object -> Seq(Thread)]
      /\ state' \in [Thread -> States]
      /\ request' \in [Thread -> WaitRequest \cup {NoRequest}]
      /\ result' \in [Thread -> Results]
      /\ taken' \in [Thread -> SUBSET Object]
      /\ timer' \subseteq Thread
      /\ waitList' = waitList
      /\ state' = [state EXCEPT ![t] = "returning"]
      /\ WaitLinkage' /\ RequestOK'
  BY EndAtOnceLinks
<1>2. /\ \A u \in Thread : Waiting(u)' <=> Waiting(u)
      /\ \A u \in Thread : Waiting(u) => request'[u] = request[u]
  BY EndAtOnceLinks
<1>3. scanObj = NoObject /\ after = "unlock"
  BY WaiterHoldsLock
<1>4. TypeOK'
  BY <1>1 DEF TypeOK
<1>5. SignalOK' /\ RecursionOK'
  BY <1>2 DEF SignalOK, RecursionOK, AtLimit
<1>6. LockOK' /\ ScanOK'
  BY <1>3 DEF LockOK, ScanOK
<1>7. WakeupOK'
  BY <1>2, <1>3 DEF WakeupOK, ScanReaches, Available
<1>8. MutantOwnership'
  BY <1>1, <1>3 DEF MutantOwnership, TypeOK
<1> QED BY <1>1, <1>4, <1>5, <1>6, <1>7, <1>8

-----------------------------------------------------------------------------
(* Satisfying a wait of t with the objects S, all of them available: what  *)
(* is available to another thread does not grow.                           *)
LEMMA SatisfyObjects ==
    ASSUME IInv, NEW t \in Thread, NEW S \in SUBSET Object,
           \A o \in S : Available(o, t) /\ ~AtLimit(o, t),
           state[t] \notin {"exiting", "drained", "terminated"},
           state' = [state EXCEPT ![t] = "returning"],
           after' = after, lockOwner' = lockOwner \/ after = "unlock",
           Satisfy(t, S)
    PROVE  /\ signal' \in [Object -> Int]
           /\ owner' \in [Mutant -> Thread \cup {NoThread}]
           /\ abandoned' \in [Mutant -> BOOLEAN]
           /\ held' \in [Thread -> SUBSET Mutant]
           /\ SignalOK' /\ MutantOwnership'
           /\ \A o \in Object : signal'[o] <= signal[o]
           /\ \A m \in Mutant, u \in Thread : u # t /\ owner'[m] = u =>
                 owner[m] = u /\ signal'[m] = signal[m]
<1> USE DEF IInv
<1>1. /\ signal' = [o \in Object |-> IF o \in S THEN Consumed(o) ELSE signal[o]]
      /\ owner' = [m \in Mutant |-> IF m \in Acquired(S) THEN t ELSE owner[m]]
      /\ abandoned' = [m \in Mutant |-> abandoned[m] /\ m \notin Acquired(S)]
      /\ held' = [held EXCEPT ![t] = @ \cup Acquired(S)]
  BY DEF Satisfy
<1>2. signal \in [Object -> Int] /\ held \in [Thread -> SUBSET Mutant]
      /\ owner \in [Mutant -> Thread \cup {NoThread}]
  BY DEF TypeOK
<1>3. Acquired(S) \subseteq Mutant
  BY DEF Acquired
<1>4. \A o \in S \ Mutant : signal[o] > 0
  BY DEF Available
<1>5. \A o \in S : Consumed(o) \in Int /\ Consumed(o) <= signal[o]
  BY <1>2, <1>4, KeWaitAssumption DEF Consumed, SignalOK, Object, Event
<1>6. SignalOK'
  <2>1. \A e \in Event : signal'[e] \in {0, 1}
    BY <1>1, KeWaitAssumption DEF SignalOK, Consumed, Object, Event
  <2>2. \A o \in Semaphore \cup Thread : signal'[o] >= 0
    BY <1>1, <1>2, <1>4, KeWaitAssumption DEF SignalOK, Consumed, Object, Event
  <2> QED BY <2>1, <2>2 DEF SignalOK
<1>7. /\ signal' \in [Object -> Int]
      /\ owner' \in [Mutant -> Thread \cup {NoThread}]
      /\ abandoned' \in [Mutant -> BOOLEAN]
      /\ held' \in [Thread -> SUBSET Mutant]
  BY <1>1, <1>2, <1>3, <1>5
<1>8. \A m \in Mutant : Consumed(m) = signal[m] - 1
  BY KeWaitAssumption DEF Consumed
<1>9. \A m \in S \cap Mutant :
        \/ m \in Acquired(S) /\ signal[m] = 1 /\ owner[m] = NoThread
        \/ m \notin Acquired(S) /\ signal[m] \in (MinSignal + 1)..0 /\ owner[m] = t
  BY <1>2, KeWaitAssumption DEF MutantOwnership, Acquired, Available, AtLimit, Object
<1>10. MutantOwnership'
  <2> SUFFICES ASSUME NEW m \in Mutant
               PROVE  /\ signal'[m] \in MinSignal..1
                      /\ signal'[m] = 1 <=> owner'[m] = NoThread
                      /\ \A u \in Thread : m \in held'[u] <=> owner'[m] = u
                      /\ owner'[m] # NoThread =>
                            /\ ~abandoned'[m]
                            /\ state'[owner'[m]] \notin {"drained", "terminated"}
                            /\ state'[owner'[m]] = "exiting" =>
                                  lockOwner' = owner'[m] /\ after' = "rundown"
    BY DEF MutantOwnership
  <2>1. m \in Object /\ state \in [Thread -> States] /\ t # NoThread
    BY KeWaitAssumption DEF Object, TypeOK
  <2>2. CASE m \in Acquired(S)
    <3>1. signal[m] = 1 /\ owner[m] = NoThread /\ m \in S
          /\ owner'[m] = t /\ signal'[m] = 0
      <4>1. m \in S
        BY <2>2 DEF Acquired
      <4>2. signal[m] = 1 /\ owner[m] = NoThread
        BY <1>9, <2>2, <4>1
      <4>3. signal'[m] = Consumed(m) /\ owner'[m] = t
        BY <1>1, <2>1, <2>2, <4>1
      <4>4. signal'[m] = 1 - 1
        BY <1>8, <4>2, <4>3
      <4> QED BY <4>1, <4>2, <4>3, <4>4
    <3>2. \A u \in Thread : m \in held'[u] <=> owner'[m] = u
      BY <1>1, <1>2, <2>2, <3>1, KeWaitAssumption DEF MutantOwnership
    <3>3. ~abandoned'[m]
      BY <1>1, <2>2
    <3>4. state'[t] = "returning"
      BY <2>1
    <3> QED BY <3>1, <3>2, <3>3, <3>4, KeWaitAssumption
  <2>3. CASE m \notin Acquired(S)
    <3>1. owner'[m] = owner[m] /\ (abandoned'[m] <=> abandoned[m])
      BY <1>1, <2>3 DEF TypeOK
    <3>2. \A u \in Thread : m \in held'[u] <=> owner'[m] = u
      BY <1>1, <1>2, <2>3, <3>1 DEF MutantOwnership
    <3>3. signal'[m] \in MinSignal..1 /\ (signal'[m] = 1 <=> owner'[m] = NoThread)
      <4>1. CASE m \in S
        BY <1>1, <1>8, <1>9, <2>1, <2>3, <3>1, <4>1, KeWaitAssumption
      <4>2. CASE m \notin S
        BY <1>1, <2>1, <3>1, <4>2 DEF MutantOwnership
      <4> QED BY <4>1, <4>2
    <3> QED BY <2>1, <3>1, <3>2, <3>3 DEF MutantOwnership
  <2> QED BY <2>2, <2>3
<1>11. \A o \in Object : signal'[o] <= signal[o]
  BY <1>1, <1>2, <1>5
<1>12. \A m \in Mutant, u \in Thread : u # t /\ owner'[m] = u =>
          owner[m] = u /\ signal'[m] = signal[m]
  BY <1>1, <1>9, KeWaitAssumption DEF Object
<1> QED BY <1>6, <1>7, <1>10, <1>11, <1>12

(* The objects of a wait. *)
LEMMA RequestObjects ==
    ASSUME NEW r \in WaitRequest
    PROVE  /\ r.objs \in Seq(Object) /\ Range(r.objs) \subseteq Object
           /\ r.all \in BOOLEAN
<1>1. r \in RequestType
  BY KeWaitAssumption
<1> QED BY <1>1 DEF RequestType, Range

LEMMA ClaimsAvailable ==
    ASSUME NEW t \in Thread, NEW r \in WaitRequest, NEW S \in Claims(t, r),
           ~LimitExceeded(t, r)
    PROVE  S \subseteq Object /\ \A o \in S : Available(o, t) /\ ~AtLimit(o, t)
<1>1. r.objs \in Seq(Object) /\ Range(r.objs) \subseteq Object /\ r.all \in BOOLEAN
  BY RequestObjects
<1>2. CASE r.all
  <2>1. S = Range(r.objs) /\ \A i \in DOMAIN r.objs : Available(r.objs[i], t)
    BY <1>2 DEF Claims
  <2> QED BY <1>1, <1>2, <2>1 DEF LimitExceeded, Range
<1>3. CASE ~r.all
  <2>1. PICK i \in DOMAIN r.objs : S = {r.objs[i]} /\ Available(r.objs[i], t)
    BY <1>3 DEF Claims
  <2> QED BY <1>1, <1>3, <2>1 DEF LimitExceeded, Range
<1> QED BY <1>1, <1>2, <1>3

LEMMA TakeNowStep ==
    ASSUME IInv, NEW t \in Thread, NEW r \in WaitRequest,
           state[t] \in {"running", "returning"},
           lockOwner = NoThread \/ (lockOwner = t /\ scanObj = NoObject),
           TakeNow(t, r), lockOwner' = NoThread, UNCHANGED scanVars
    PROVE  IInv'
<1> USE DEF IInv, scanVars
<1>1. PICK S \in Claims(t, r) : /\ Satisfy(t, S)
                                /\ EndAtOnce(t, r, SatisfiedStatus(S), S)
  BY DEF TakeNow
<1>2. S \subseteq Object /\ \A o \in S : Available(o, t) /\ ~AtLimit(o, t)
  BY ClaimsAvailable DEF TakeNow
<1>3. SatisfiedStatus(S) \in Results
  BY DEF SatisfiedStatus, Results
<1>4. scanObj = NoObject /\ after = "unlock"
  BY WaiterHoldsLock
<1>5. /\ waitList' \in [Object -> Seq(Thread)]
      /\ state' \in [Thread -> States]
      /\ request' \in [Thread -> WaitRequest \cup {NoRequest}]
      /\ result' \in [Thread -> Results]
      /\ taken' \in [Thread -> SUBSET Object]
      /\ timer' \subseteq Thread
      /\ waitList' = waitList
      /\ state' = [state EXCEPT ![t] = "returning"]
      /\ WaitLinkage' /\ RequestOK'
  BY <1>1, <1>2, <1>3, EndAtOnceLinks
<1>6. /\ \A u \in Thread : Waiting(u)' <=> Waiting(u)
      /\ \A u \in Thread : Waiting(u) => request'[u] = request[u]
  BY <1>1, <1>2, <1>3, EndAtOnceLinks
<1>7. /\ signal' \in [Object -> Int]
      /\ owner' \in [Mutant -> Thread \cup {NoThread}]
      /\ abandoned' \in [Mutant -> BOOLEAN]
      /\ held' \in [Thread -> SUBSET Mutant]
      /\ SignalOK' /\ MutantOwnership'
  BY <1>1, <1>2, <1>4, <1>5, SatisfyObjects
<1>8. /\ \A o \in Object : signal'[o] <= signal[o]
      /\ \A m \in Mutant, u \in Thread : u # t /\ owner'[m] = u =>
            owner[m] = u /\ signal'[m] = signal[m]
  BY <1>1, <1>2, <1>4, <1>5, SatisfyObjects
<1>9. TypeOK'
  BY <1>5, <1>7, KeWaitAssumption DEF TypeOK, TakeNow, alertVars
<1>10. ~Waiting(t)
  BY DEF Waiting
<1>11. RecursionOK'
  BY <1>6, <1>8, <1>10 DEF RecursionOK, AtLimit
<1>12. LockOK' /\ ScanOK'
  BY <1>4 DEF LockOK, ScanOK
<1>13. WakeupOK'
  <2>1. \A u \in Thread, o \in Object : Waiting(u) /\ Available(o, u)' => Available(o, u)
    BY <1>7, <1>8, <1>10 DEF Available, TypeOK
  <2>2. \A u \in Thread : Waiting(u) => Range(request[u].objs) \subseteq Object
    BY RequestObjects DEF RequestOK
  <2> QED BY <1>4, <1>6, <2>1, <2>2 DEF WakeupOK, ScanReaches
<1> QED BY <1>5, <1>7, <1>9, <1>11, <1>12, <1>13

LEMMA BlockStep ==
    ASSUME IInv, NEW t \in Thread, NEW r \in WaitRequest,
           state[t] \in {"running", "returning"},
           lockOwner = NoThread \/ (lockOwner = t /\ scanObj = NoObject),
           Block(t, r), lockOwner' = NoThread, UNCHANGED scanVars
    PROVE  IInv'
<1> USE DEF IInv, scanVars, objVars, alertVars
<1>1. /\ waitList' = [o \in Object |-> IF o \in Range(r.objs)
                                       THEN Append(waitList[o], t) ELSE waitList[o]]
      /\ timer' = IF r.timeout = "finite" THEN timer \cup {t} ELSE timer
      /\ state' = [state EXCEPT ![t] = "waiting"]
      /\ request' = [request EXCEPT ![t] = r]
      /\ result' = [result EXCEPT ![t] = "none"]
      /\ taken' = [taken EXCEPT ![t] = {}]
      /\ UNCHANGED <<signal, owner, abandoned, held>>
      /\ UNCHANGED <<alerted, userApcs, userApcPending>>
      /\ ~LimitExceeded(t, r) /\ ~Satisfiable(t, r)
  BY DEF Block, CannotTake
<1>2. scanObj = NoObject /\ after = "unlock"
  BY WaiterHoldsLock
<1>3. \A u \in Thread : Waiting(u)' <=> Waiting(u) \/ u = t
  BY <1>1 DEF Waiting, TypeOK
<1>4. ~Waiting(t) /\ request'[t] = r
      /\ \A u \in Thread : u # t => request'[u] = request[u]
  BY <1>1 DEF Waiting, TypeOK
<1>5. \A o \in Object :
        /\ waitList'[o] \in Seq(Thread)
        /\ IsInjective(waitList'[o])
        /\ Range(waitList'[o]) = IF o \in Range(r.objs) THEN Range(waitList[o]) \cup {t}
                                 ELSE Range(waitList[o])
  <2> SUFFICES ASSUME NEW o \in Object
               PROVE  /\ waitList'[o] \in Seq(Thread)
                      /\ IsInjective(waitList'[o])
                      /\ Range(waitList'[o]) =
                            IF o \in Range(r.objs) THEN Range(waitList[o]) \cup {t}
                            ELSE Range(waitList[o])
    OBVIOUS
  <2>1. waitList[o] \in Seq(Thread) /\ IsInjective(waitList[o])
    BY DEF TypeOK, WaitLinkage
  <2>2. t \notin Range(waitList[o])
    BY <1>4 DEF WaitLinkage, Waiting
  <2>3. /\ Append(waitList[o], t) \in Seq(Thread)
        /\ IsInjective(Append(waitList[o], t))
        /\ Range(Append(waitList[o], t)) = Range(waitList[o]) \cup {t}
    BY <2>1, <2>2, AppendLinks
  <2> QED BY <1>1, <2>1, <2>3
<1>6. TypeOK'
  <2>1. waitList' \in [Object -> Seq(Thread)]
    BY <1>1, <1>5
  <2>2. /\ state' \in [Thread -> States]
        /\ request' \in [Thread -> WaitRequest \cup {NoRequest}]
        /\ result' \in [Thread -> Results]
        /\ taken' \in [Thread -> SUBSET Object]
        /\ timer' \subseteq Thread
    BY <1>1 DEF TypeOK, States, Results
  <2> QED BY <1>1, <2>1, <2>2 DEF TypeOK
<1>7. WaitLinkage'
  <2>1. \A o \in Object :
          Range(waitList'[o]) = {u \in Thread : state'[u] = "waiting"
                                                /\ o \in Range(request'[u].objs)}
    <3>0. \A o \in Object : Range(waitList'[o]) \subseteq Thread
      BY <1>5 DEF Range
    <3> SUFFICES ASSUME NEW o \in Object, NEW u \in Thread
                 PROVE  u \in Range(waitList'[o]) <=>
                            state'[u] = "waiting" /\ o \in Range(request'[u].objs)
      BY <3>0
    <3>1. u \in Range(waitList[o]) <=> Waiting(u) /\ o \in Range(request[u].objs)
      BY DEF WaitLinkage, Waiting
    <3>2. CASE u = t
      BY <1>1, <1>3, <1>4, <1>5, <3>1, <3>2 DEF Waiting, TypeOK
    <3>3. CASE u # t
      BY <1>3, <1>4, <1>5, <3>1, <3>3 DEF Waiting
    <3> QED BY <3>2, <3>3
  <2>2. timer' = {u \in Thread : state'[u] = "waiting" /\ request'[u].timeout = "finite"}
    BY <1>1, <1>3, <1>4 DEF WaitLinkage, Waiting
  <2> QED BY <1>5, <2>1, <2>2 DEF WaitLinkage
<1>8. SignalOK' /\ MutantOwnership'
  BY <1>1, <1>2 DEF SignalOK, MutantOwnership, TypeOK
<1>9. RequestOK'
  BY <1>1, <1>3, <1>4 DEF RequestOK, TypeOK
<1>10. RecursionOK'
  BY <1>1, <1>3, <1>4 DEF RecursionOK, AtLimit, LimitExceeded
<1>11. LockOK' /\ ScanOK'
  BY <1>2 DEF LockOK, ScanOK
<1>12. WakeupOK'
  <2> SUFFICES ASSUME NEW u \in Thread, Waiting(u)'
               PROVE  /\ request'[u].all =>
                           \E o \in Range(request'[u].objs) : ~Available(o, u)'
                      /\ ~request'[u].all =>
                           \A o \in Range(request'[u].objs) : ~Available(o, u)'
    BY DEF WakeupOK
  <2>1. \A o : Available(o, u)' <=> Available(o, u)
    BY <1>1 DEF Available
  <2>2. CASE u = t
    BY <1>1, <1>4, <2>1, <2>2 DEF Satisfiable
  <2>3. CASE u # t
    BY <1>2, <1>3, <1>4, <2>1, <2>3 DEF WakeupOK, ScanReaches
  <2> QED BY <2>2, <2>3
<1> QED BY <1>6, <1>7, <1>8, <1>9, <1>10, <1>11, <1>12

-----------------------------------------------------------------------------
(* Signalling: entering KiWaitTest with one object signaled, and changing  *)
(* objects in a way that makes nothing available to a thread that waits.   *)
LEMMA StartScan ==
    ASSUME IInv, scanObj = NoObject,
           NEW c \in Thread \cup {Dpc}, NEW o \in Object, NEW next \in After,
           WaitTest(c, o, next), UNCHANGED <<waitVars, alertVars>>,
           signal' \in [Object -> Int],
           owner' \in [Mutant -> Thread \cup {NoThread}],
           abandoned' \in [Mutant -> BOOLEAN],
           held' \in [Thread -> SUBSET Mutant],
           SignalOK', MutantOwnership',
           signal'[o] > 0, o \in Mutant => owner'[o] = NoThread,
           \A p \in Object \ {o} : signal'[p] = signal[p],
           \A m \in Mutant \ {o} : owner'[m] = owner[m],
           next = "rundown" => c \in Thread /\ state[c] = "exiting",
           next = "terminate" => c \in Thread /\ state[c] = "drained",
           next \in {"pulse", "pulseKeep"} => o \in Event
    PROVE  IInv'
<1> USE DEF IInv, waitVars, alertVars
<1>1. lockOwner' = c /\ scanObj' = o /\ scanRest' = waitList[o] /\ after' = next
  BY DEF WaitTest
<1>2. waitList[o] \in Seq(Thread) /\ IsInjective(waitList[o]) /\ o # NoObject
      /\ c # NoThread
  BY KeWaitAssumption DEF TypeOK, WaitLinkage
<1>3. TypeOK'
  BY <1>1, <1>2 DEF TypeOK
<1>4. RequestOK' /\ WaitLinkage'
  BY DEF RequestOK, WaitLinkage, Waiting
<1>5. RecursionOK'
  <2> SUFFICES ASSUME NEW t \in Thread, Waiting(t)', request'[t].all,
                      NEW m \in Mutant \cap Range(request'[t].objs)
               PROVE  ~AtLimit(m, t)'
    BY DEF RecursionOK
  <2>1. ~AtLimit(m, t)
    BY DEF RecursionOK, Waiting
  <2>2. CASE m = o
    BY <2>2, KeWaitAssumption DEF AtLimit
  <2>3. CASE m # o
    BY <2>1, <2>3 DEF AtLimit, Object
  <2> QED BY <2>2, <2>3
<1>6. LockOK'
  BY <1>1, <1>2 DEF LockOK
<1>7. ScanOK'
  BY <1>1, <1>2, KeWaitAssumption DEF ScanOK, Waiting
<1>8. WakeupOK'
  <2>1. \A u \in Thread, p \in Object : p # o /\ Available(p, u)' => Available(p, u)
    BY DEF Available
  <2>2. \A u \in Thread : Waiting(u) => /\ Range(request[u].objs) \subseteq Object
                                        /\ o \in Range(request[u].objs) =>
                                              u \in Range(waitList[o])
    BY RequestObjects DEF RequestOK, WaitLinkage, Waiting
  <2>3. \A u \in Thread : Waiting(u)' <=> Waiting(u)
    BY DEF Waiting
  <2> QED BY <1>1, <1>2, <2>1, <2>2, <2>3 DEF WakeupOK, ScanReaches
<1> QED BY <1>3, <1>4, <1>5, <1>6, <1>7, <1>8

LEMMA QuietStep ==
    ASSUME IInv, scanObj = NoObject, after = "unlock",
           lockOwner' \in Thread \cup {NoThread, Dpc},
           UNCHANGED <<waitVars, alertVars, scanVars>>,
           signal' \in [Object -> Int],
           owner' \in [Mutant -> Thread \cup {NoThread}],
           abandoned' \in [Mutant -> BOOLEAN],
           held' \in [Thread -> SUBSET Mutant],
           SignalOK', MutantOwnership',
           \A u \in Thread : Waiting(u) => \A p \in Range(request[u].objs) :
                /\ Available(p, u)' => Available(p, u)
                /\ AtLimit(p, u)' => AtLimit(p, u)
    PROVE  IInv'
<1> USE DEF IInv, waitVars, alertVars, scanVars
<1>1. TypeOK'
  BY DEF TypeOK
<1>2. RequestOK' /\ WaitLinkage'
  BY DEF RequestOK, WaitLinkage, Waiting
<1>3. RecursionOK'
  BY DEF RecursionOK, Waiting
<1>4. LockOK' /\ ScanOK'
  BY DEF LockOK, ScanOK
<1>5. WakeupOK'
  BY DEF WakeupOK, ScanReaches, Waiting
<1> QED BY <1>1, <1>2, <1>3, <1>4, <1>5

(* Signal states of objects other than mutants. *)
LEMMA SetSignalStep ==
    ASSUME IInv, NEW o \in Object \ Mutant, NEW n \in Int, SetSignal(o, n),
           o \in Event => n \in {0, 1}, n >= 0,
           UNCHANGED <<owner, abandoned, held, state>>,
           after = "unlock" \/ UNCHANGED <<lockOwner, after>>
    PROVE  /\ signal' \in [Object -> Int]
           /\ owner' \in [Mutant -> Thread \cup {NoThread}]
           /\ abandoned' \in [Mutant -> BOOLEAN]
           /\ held' \in [Thread -> SUBSET Mutant]
           /\ SignalOK' /\ MutantOwnership'
           /\ signal'[o] = n
           /\ \A p \in Object \ {o} : signal'[p] = signal[p]
<1> USE DEF IInv
<1>1. signal' = [signal EXCEPT ![o] = n] /\ signal \in [Object -> Int]
  BY DEF SetSignal, TypeOK
<1>2. signal'[o] = n /\ signal' \in [Object -> Int]
      /\ \A p \in Object \ {o} : signal'[p] = signal[p]
  BY <1>1
<1>3. SignalOK'
  BY <1>2 DEF SignalOK, Object, Event
<1>4. MutantOwnership'
  BY <1>2 DEF MutantOwnership, Object
<1> QED BY <1>2, <1>3, <1>4 DEF TypeOK

-----------------------------------------------------------------------------
(* Each action of Next.                                                    *)
LEMMA CallerFacts ==
    ASSUME IInv, NEW c, CanCall(c)
    PROVE  /\ c \in Thread \cup {Dpc} /\ lockOwner = NoThread
           /\ scanObj = NoObject /\ after = "unlock"
           /\ c # Dpc => state[c] = "running"
BY DEF IInv, CanCall, LockOK

LEMMA WaitPassStep ==
    ASSUME IInv, NEW t \in Thread, NEW r \in WaitRequest,
           state[t] \in {"running", "returning"},
           lockOwner = NoThread \/ (lockOwner = t /\ scanObj = NoObject),
           WaitPass(t, r)
    PROVE  IInv'
<1> USE DEF IInv, alertVars, objVars
<1>1. lockOwner' = NoThread /\ UNCHANGED scanVars
  BY DEF WaitPass
<1>2. /\ alerted \in [Thread -> SUBSET Modes]
      /\ userApcs \in [Thread -> Nat]
      /\ userApcPending \in [Thread -> BOOLEAN]
  BY DEF TypeOK
<1>3. CASE ApcFirst(t, r)
  <2>1. EndAtOnce(t, r, "kernelApc", {}) /\ UNCHANGED objVars /\ UNCHANGED alertVars
        /\ "kernelApc" \in Results /\ {} \in SUBSET Object
    BY <1>3 DEF ApcFirst, Results
  <2> QED BY <1>1, <1>2, <2>1, EndAtOnceStep
<1>4. CASE RaiseLimit(t, r)
  <2>1. EndAtOnce(t, r, "limit", {}) /\ UNCHANGED objVars /\ UNCHANGED alertVars
        /\ "limit" \in Results
    BY <1>4 DEF RaiseLimit, Results
  <2> QED BY <1>1, <1>2, <2>1, EndAtOnceStep
<1>5. CASE TakeNow(t, r)
  BY <1>1, <1>5, TakeNowStep
<1>6. CASE Interrupted(t, r)
  <2>1. EndAtOnce(t, r, AlertStatus(t, r), {}) /\ UNCHANGED objVars
        /\ AlertStatus(t, r) \in Results
    BY <1>6 DEF Interrupted, Results
  <2>2. /\ alerted' \in [Thread -> SUBSET Modes]
        /\ userApcs' \in [Thread -> Nat]
        /\ userApcPending' \in [Thread -> BOOLEAN]
    BY <1>2, <1>6 DEF Interrupted
  <2> QED BY <1>1, <2>1, <2>2, EndAtOnceStep
<1>7. CASE TimedOut(t, r)
  <2>1. EndAtOnce(t, r, "timeout", {}) /\ UNCHANGED objVars /\ UNCHANGED alertVars
        /\ "timeout" \in Results
    BY <1>7 DEF TimedOut, Results
  <2> QED BY <1>1, <1>2, <2>1, EndAtOnceStep
<1>8. CASE Block(t, r)
  BY <1>1, <1>8, BlockStep
<1> QED BY <1>3, <1>4, <1>5, <1>6, <1>7, <1>8 DEF WaitPass

(* An update of a Boolean function. *)
LEMMA BooleanExcept ==
    ASSUME NEW D, NEW f \in [D -> BOOLEAN], NEW x, NEW b \in BOOLEAN
    PROVE  [f EXCEPT ![x] = b] \in [D -> BOOLEAN]
<1> DEFINE g == [f EXCEPT ![x] = b]
<1>1. g = [y \in D |-> IF y = x THEN b ELSE f[y]]
  OBVIOUS
<1>2. \A y \in D : (IF y = x THEN b ELSE f[y]) \in BOOLEAN
  BY Zenon
<1> QED BY <1>1, <1>2, Zenon

LEMMA ReturnStep ==
    ASSUME IInv, NEW t \in Thread, Return(t)
    PROVE  IInv'
<1> USE DEF IInv, objVars, scanVars
<1>1. /\ state[t] = "returning" /\ lockOwner = NoThread
      /\ state' = [state EXCEPT ![t] = "running"]
      /\ request' = [request EXCEPT ![t] = NoRequest]
      /\ result' = [result EXCEPT ![t] = "none"]
      /\ taken' = [taken EXCEPT ![t] = {}]
      /\ UNCHANGED <<signal, owner, abandoned, held, waitList, timer, alerted,
                     lockOwner, scanObj, scanRest, after>>
  BY DEF Return
<1>2. \A u \in Thread : /\ Waiting(u)' <=> Waiting(u)
                        /\ Waiting(u) => request'[u] = request[u]
  BY <1>1 DEF Waiting, TypeOK
<1>3. scanObj = NoObject /\ after = "unlock"
  BY <1>1 DEF LockOK
<1>4. TypeOK'
  <2>1. userApcs' \in [Thread -> Nat] /\ userApcPending' \in [Thread -> BOOLEAN]
    <3>1. userApcs \in [Thread -> Nat] /\ userApcPending \in [Thread -> BOOLEAN]
      BY DEF TypeOK
    <3>2. \/ userApcs' = [userApcs EXCEPT ![t] = 0]
             /\ userApcPending' = [userApcPending EXCEPT ![t] = FALSE]
          \/ UNCHANGED <<userApcs, userApcPending>>
      BY DEF Return
    <3>3. userApcs' \in [Thread -> Nat]
      BY <3>1, <3>2
    <3>4. [userApcPending EXCEPT ![t] = FALSE] \in [Thread -> BOOLEAN]
      BY <3>1, BooleanExcept, Zenon
    <3> QED BY <3>1, <3>2, <3>3, <3>4, Zenon
  <2>2. /\ state' \in [Thread -> States]
        /\ request' \in [Thread -> WaitRequest \cup {NoRequest}]
        /\ result' \in [Thread -> Results]
        /\ taken' \in [Thread -> SUBSET Object]
    BY <1>1 DEF TypeOK, States, Results
  <2> QED BY <1>1, <2>1, <2>2 DEF TypeOK
<1>5. SignalOK' /\ MutantOwnership'
  BY <1>1 DEF SignalOK, MutantOwnership, TypeOK
<1>6. RequestOK' /\ RecursionOK'
  BY <1>1, <1>2 DEF RequestOK, RecursionOK, AtLimit, TypeOK
<1>7. LockOK' /\ ScanOK'
  BY <1>1, <1>3 DEF LockOK, ScanOK
<1>8. WakeupOK'
  BY <1>1, <1>2, <1>3 DEF WakeupOK, ScanReaches, Available
<1>9. WaitLinkage'
  BY <1>1, <1>2 DEF WaitLinkage, Waiting
<1> QED BY <1>4, <1>5, <1>6, <1>7, <1>8, <1>9

LEMMA SetEventStep ==
    ASSUME IInv, NEW c, NEW e \in Event, NEW keep \in BOOLEAN, KeSetEvent(c, e, keep)
    PROVE  IInv'
<1> USE DEF IInv
<1>1. /\ c \in Thread \cup {Dpc} /\ lockOwner = NoThread
      /\ scanObj = NoObject /\ after = "unlock"
  BY CallerFacts DEF KeSetEvent
<1>2. e \in Object \ Mutant /\ (Leave(c, keep) => lockOwner' \in Thread \cup {NoThread, Dpc})
  BY <1>1, KeWaitAssumption DEF Object, Event, Leave
<1>3. UNCHANGED <<owner, abandoned, held, alertVars>>
  BY DEF KeSetEvent
<1>4. CASE waitList[e] = <<>> /\ SetSignal(e, 1) /\ Leave(c, keep) /\ UNCHANGED waitVars
  <2>1. /\ signal' \in [Object -> Int]
        /\ owner' \in [Mutant -> Thread \cup {NoThread}]
        /\ abandoned' \in [Mutant -> BOOLEAN]
        /\ held' \in [Thread -> SUBSET Mutant]
        /\ SignalOK' /\ MutantOwnership'
        /\ \A p \in Object \ {e} : signal'[p] = signal[p]
    BY <1>1, <1>2, <1>3, <1>4, SetSignalStep DEF waitVars
  <2>2. \A u \in Thread : Waiting(u) => /\ Range(request[u].objs) \subseteq Object
                                        /\ e \notin Range(request[u].objs)
    BY <1>2, <1>4, RequestObjects DEF RequestOK, WaitLinkage, Waiting, Range
  <2>3. \A u \in Thread : Waiting(u) => \A p \in Range(request[u].objs) :
            /\ Available(p, u)' => Available(p, u)
            /\ AtLimit(p, u)' => AtLimit(p, u)
    BY <1>3, <2>1, <2>2 DEF Available, AtLimit
  <2> QED BY <1>1, <1>2, <1>3, <1>4, <2>1, <2>3, QuietStep DEF Leave
<1>5. CASE \E next \in After : /\ SetSignal(e, 1) /\ WaitTest(c, e, next)
                               /\ next \in {"unlock", "keep"}
                               /\ UNCHANGED waitVars
  <2>1. PICK next \in After : /\ SetSignal(e, 1) /\ WaitTest(c, e, next)
                              /\ next \in {"unlock", "keep"}
                              /\ UNCHANGED waitVars
    BY <1>5
  <2>2. /\ signal' \in [Object -> Int]
        /\ owner' \in [Mutant -> Thread \cup {NoThread}]
        /\ abandoned' \in [Mutant -> BOOLEAN]
        /\ held' \in [Thread -> SUBSET Mutant]
        /\ SignalOK' /\ MutantOwnership' /\ signal'[e] = 1
        /\ \A p \in Object \ {e} : signal'[p] = signal[p]
    BY <1>1, <1>2, <1>3, <2>1, SetSignalStep DEF waitVars
  <2> QED BY <1>1, <1>2, <1>3, <2>1, <2>2, StartScan
<1>6. CASE Leave(c, keep) /\ UNCHANGED <<signal, waitVars>>
  <2>1. SignalOK' /\ MutantOwnership'
    BY <1>1, <1>3, <1>6 DEF SignalOK, MutantOwnership, waitVars
  <2>2. \A u \in Thread : \A p :
            /\ Available(p, u)' => Available(p, u)
            /\ AtLimit(p, u)' => AtLimit(p, u)
    BY <1>3, <1>6 DEF Available, AtLimit
  <2>3. /\ signal' \in [Object -> Int]
        /\ owner' \in [Mutant -> Thread \cup {NoThread}]
        /\ abandoned' \in [Mutant -> BOOLEAN]
        /\ held' \in [Thread -> SUBSET Mutant]
    BY <1>3, <1>6 DEF TypeOK
  <2> QED BY <1>1, <1>2, <1>3, <1>6, <2>1, <2>2, <2>3, QuietStep DEF Leave
<1>7. CASE waitList[e] # <<>> /\ Unwait(Head(waitList[e]), "satisfied", {e})
           /\ Leave(c, keep) /\ UNCHANGED signal
  <2> DEFINE t == Head(waitList[e])
  <2>1. t \in Thread /\ Waiting(t)
    <3>1. waitList[e] \in Seq(Thread) /\ IsInjective(waitList[e])
      BY <1>2 DEF TypeOK, WaitLinkage
    <3>2. t \in Range(waitList[e])
      BY <1>7, <3>1, TailScans
    <3> QED BY <1>2, <3>2 DEF WaitLinkage, Waiting
  <2> HIDE DEF t
  <2>2. Unwait(t, "satisfied", {e}) /\ "satisfied" \in Results /\ {e} \in SUBSET Object
    BY <1>2, <1>7 DEF t, Results
  <2>3. UNCHANGED objVars /\ UNCHANGED scanVars
    BY <1>3, <1>7 DEF objVars, Leave
  <2>4. /\ alerted' \in [Thread -> SUBSET Modes]
        /\ userApcs' \in [Thread -> Nat]
        /\ userApcPending' \in [Thread -> BOOLEAN]
    BY <1>3 DEF alertVars, TypeOK
  <2> QED BY <1>1, <1>2, <1>7, <2>1, <2>2, <2>3, <2>4, UnwaitStep
<1>8. (IF keep THEN "keep" ELSE "unlock") \in After \cap {"keep", "unlock"}
  BY DEF After
<1> QED BY <1>4, <1>5, <1>6, <1>7, <1>8 DEF KeSetEvent

LEMMA LowerEvent ==
    ASSUME IInv, NEW e \in Event, SetSignal(e, 0),
           UNCHANGED <<owner, abandoned, held, waitVars, alertVars, scanVars>>,
           lockOwner = NoThread, lockOwner' \in Thread \cup {NoThread, Dpc}
    PROVE  IInv'
<1> USE DEF IInv
<1>1. scanObj = NoObject /\ after = "unlock" /\ e \in Object \ Mutant
  BY KeWaitAssumption DEF LockOK, Object, Event
<1>2. /\ signal' \in [Object -> Int]
      /\ owner' \in [Mutant -> Thread \cup {NoThread}]
      /\ abandoned' \in [Mutant -> BOOLEAN]
      /\ held' \in [Thread -> SUBSET Mutant]
      /\ SignalOK' /\ MutantOwnership' /\ signal'[e] = 0
      /\ \A p \in Object \ {e} : signal'[p] = signal[p]
  BY <1>1, SetSignalStep DEF waitVars
<1>3. \A u \in Thread : Waiting(u) => Range(request[u].objs) \subseteq Object
  BY RequestObjects DEF RequestOK
<1>4. \A u \in Thread : Waiting(u) => \A p \in Range(request[u].objs) :
        /\ Available(p, u)' => Available(p, u)
        /\ AtLimit(p, u)' => AtLimit(p, u)
  BY <1>1, <1>2, <1>3 DEF Available, AtLimit
<1> QED BY <1>1, <1>2, <1>4, QuietStep

LEMMA ResetStep ==
    ASSUME IInv, NEW c, NEW e \in Event, KeResetEvent(c, e)
    PROVE  IInv'
<1>1. lockOwner = NoThread /\ lockOwner' \in Thread \cup {NoThread, Dpc}
  BY DEF KeResetEvent, CanCall
<1> QED BY <1>1, LowerEvent DEF KeResetEvent

LEMMA PulseStep ==
    ASSUME IInv, NEW c, NEW e \in Event, NEW keep \in BOOLEAN, KePulseEvent(c, e, keep)
    PROVE  IInv'
<1> USE DEF IInv
<1>1. /\ c \in Thread \cup {Dpc} /\ lockOwner = NoThread
      /\ scanObj = NoObject /\ after = "unlock"
  BY CallerFacts DEF KePulseEvent
<1>2. e \in Object \ Mutant
  BY KeWaitAssumption DEF Object, Event
<1>3. UNCHANGED <<owner, abandoned, held, waitVars, alertVars>>
  BY DEF KePulseEvent
<1>4. CASE SetSignal(e, 1) /\ WaitTest(c, e, IF keep THEN "pulseKeep" ELSE "pulse")
  <2>1. (IF keep THEN "pulseKeep" ELSE "pulse") \in After \cap {"pulse", "pulseKeep"}
    BY DEF After
  <2>2. /\ signal' \in [Object -> Int]
        /\ owner' \in [Mutant -> Thread \cup {NoThread}]
        /\ abandoned' \in [Mutant -> BOOLEAN]
        /\ held' \in [Thread -> SUBSET Mutant]
        /\ SignalOK' /\ MutantOwnership' /\ signal'[e] = 1
        /\ \A p \in Object \ {e} : signal'[p] = signal[p]
    BY <1>1, <1>2, <1>3, <1>4, SetSignalStep DEF waitVars
  <2> QED BY <1>1, <1>2, <1>3, <1>4, <2>1, <2>2, StartScan
<1>5. CASE SetSignal(e, 0) /\ Leave(c, keep)
  BY <1>1, <1>3, <1>5, LowerEvent DEF Leave
<1> QED BY <1>4, <1>5 DEF KePulseEvent

LEMMA SemaphoreStep ==
    ASSUME IInv, NEW c, NEW s \in Semaphore, NEW n \in 1..Limit, NEW keep \in BOOLEAN,
           KeReleaseSemaphore(c, s, n, keep)
    PROVE  IInv'
<1> USE DEF IInv
<1>1. /\ c \in Thread \cup {Dpc} /\ lockOwner = NoThread
      /\ scanObj = NoObject /\ after = "unlock"
  BY CallerFacts DEF KeReleaseSemaphore
<1>2. s \in Object \ Mutant /\ s \notin Event /\ Limit \in Nat
  BY KeWaitAssumption DEF Object, Event
<1>3. signal[s] \in Int /\ signal[s] >= 0 /\ signal[s] + n \in Int /\ signal[s] + n > 0
  BY <1>2 DEF SignalOK, TypeOK
<1>4. UNCHANGED <<owner, abandoned, held, waitVars, alertVars>>
      /\ SetSignal(s, signal[s] + n)
  BY DEF KeReleaseSemaphore
<1>5. after = "unlock" \/ UNCHANGED <<lockOwner, after>>
  BY <1>1
<1>6. /\ signal' \in [Object -> Int]
      /\ owner' \in [Mutant -> Thread \cup {NoThread}]
      /\ abandoned' \in [Mutant -> BOOLEAN]
      /\ held' \in [Thread -> SUBSET Mutant]
      /\ SignalOK' /\ MutantOwnership' /\ signal'[s] = signal[s] + n
      /\ \A p \in Object \ {s} : signal'[p] = signal[p]
  <2>1. UNCHANGED <<owner, abandoned, held, state>> /\ signal[s] + n >= 0
    BY <1>3, <1>4 DEF waitVars
  <2> QED BY <1>2, <1>3, <1>4, <1>5, <2>1, SetSignalStep
<1>7. CASE WaitTest(c, s, IF keep THEN "keep" ELSE "unlock")
  <2> DEFINE next == IF keep THEN "keep" ELSE "unlock"
  <2>1. next \in After /\ next \notin {"rundown", "terminate", "pulse", "pulseKeep"}
    BY DEF After
  <2>2. WaitTest(c, s, next) /\ scanObj = NoObject /\ c \in Thread \cup {Dpc}
    BY <1>1, <1>7
  <2> HIDE DEF next
  <2>3. UNCHANGED <<waitVars, alertVars, owner, abandoned, held>> /\ signal'[s] > 0
        /\ s \in Object \ Mutant
    BY <1>2, <1>3, <1>4, <1>6
  <2> QED BY <1>6, <2>1, <2>2, <2>3, StartScan
<1>8. CASE ~(signal[s] = 0 /\ waitList[s] # <<>>) /\ Leave(c, keep)
  <2>1. \A u \in Thread : Waiting(u) =>
            /\ Range(request[u].objs) \subseteq Object
            /\ s \in Range(request[u].objs) => waitList[s] # <<>>
    BY <1>2, RequestObjects DEF RequestOK, WaitLinkage, Waiting, Range
  <2>2. waitList[s] # <<>> => signal[s] > 0
    BY <1>3, <1>8
  <2>3. \A u \in Thread : Waiting(u) => \A p \in Range(request[u].objs) :
            /\ Available(p, u)' => Available(p, u)
            /\ AtLimit(p, u)' => AtLimit(p, u)
    BY <1>2, <1>4, <1>6, <2>1, <2>2 DEF Available, AtLimit
  <2>4. UNCHANGED scanVars /\ lockOwner' \in Thread \cup {NoThread, Dpc}
    BY <1>1, <1>8 DEF Leave
  <2> QED BY <1>1, <1>4, <1>6, <2>3, <2>4, QuietStep
<1> QED BY <1>7, <1>8 DEF KeReleaseSemaphore

LEMMA ReleaseMutantStep ==
    ASSUME IInv, NEW t \in Thread, NEW m \in Mutant, NEW keep \in BOOLEAN,
           KeReleaseMutant(t, m, keep)
    PROVE  IInv'
<1> USE DEF IInv
<1>1. /\ t \in Thread \cup {Dpc} /\ lockOwner = NoThread
      /\ scanObj = NoObject /\ after = "unlock" /\ t # Dpc /\ t # NoThread
  BY CallerFacts, KeWaitAssumption DEF KeReleaseMutant
<1>2. state[t] = "running" /\ owner[m] = t
  BY <1>1 DEF KeReleaseMutant, CanCall
<1>3. m \in Object /\ m \notin Event /\ m \notin Semaphore \cup Thread
  BY KeWaitAssumption DEF Object, Event
<1>4. UNCHANGED <<abandoned, waitVars, alertVars>>
      /\ signal' = [signal EXCEPT ![m] = signal[m] + 1]
  BY DEF KeReleaseMutant, SetSignal
<1>5. signal \in [Object -> Int] /\ signal[m] \in MinSignal..0 /\ MinSignal \in Int
      /\ ~abandoned[m]
  BY <1>1, <1>2, <1>3, KeWaitAssumption DEF TypeOK, MutantOwnership
<1>6. /\ signal' \in [Object -> Int] /\ signal'[m] = signal[m] + 1
      /\ \A p \in Object \ {m} : signal'[p] = signal[p]
  BY <1>3, <1>4, <1>5
<1>7. SignalOK'
  BY <1>3, <1>6 DEF SignalOK, Object, Event
<1>8. CASE signal[m] + 1 = 1 /\ held' = Unheld(m) /\ owner' = [owner EXCEPT ![m] = NoThread]
  <2>1. /\ owner' \in [Mutant -> Thread \cup {NoThread}]
        /\ owner'[m] = NoThread
        /\ \A p \in Mutant \ {m} : owner'[p] = owner[p]
    BY <1>8 DEF TypeOK
  <2>2. /\ held' \in [Thread -> SUBSET Mutant]
        /\ \A u \in Thread : held'[u] = held[u] \ {m}
    BY <1>8 DEF Unheld, TypeOK
  <2>3. abandoned' \in [Mutant -> BOOLEAN] /\ state' = state
    BY <1>4 DEF TypeOK, waitVars
  <2>4. MutantOwnership'
    BY <1>1, <1>3, <1>4, <1>5, <1>6, <1>8, <2>1, <2>2, <2>3, KeWaitAssumption
       DEF MutantOwnership, Object
  <2>5. CASE WaitTest(t, m, IF keep THEN "keep" ELSE "unlock")
    <3>1. (IF keep THEN "keep" ELSE "unlock") \in After \cap {"keep", "unlock"}
      BY DEF After
    <3>2. signal'[m] > 0
      BY <1>6, <1>8
    <3> QED BY <1>1, <1>3, <1>4, <1>6, <1>7, <2>1, <2>2, <2>3, <2>4, <2>5, <3>1, <3>2, StartScan
  <2>6. CASE waitList[m] = <<>> /\ Leave(t, keep)
    <3>1. \A u \in Thread : Waiting(u) =>
              /\ Range(request[u].objs) \subseteq Object
              /\ m \notin Range(request[u].objs)
      BY <1>3, <2>6, RequestObjects DEF RequestOK, WaitLinkage, Waiting, Range
    <3>2. \A u \in Thread : Waiting(u) => \A p \in Range(request[u].objs) :
              /\ Available(p, u)' => Available(p, u)
              /\ AtLimit(p, u)' => AtLimit(p, u)
      BY <1>6, <2>1, <3>1 DEF Available, AtLimit
    <3>3. UNCHANGED scanVars /\ lockOwner' \in Thread \cup {NoThread, Dpc}
      BY <1>1, <2>6 DEF Leave
    <3> QED BY <1>1, <1>4, <1>6, <1>7, <2>1, <2>2, <2>3, <2>4, <3>2, <3>3, QuietStep
  <2> QED BY <1>8, <2>5, <2>6 DEF KeReleaseMutant
<1>9. CASE signal[m] + 1 # 1 /\ Leave(t, keep) /\ UNCHANGED <<held, owner>>
  <2>1. /\ owner' \in [Mutant -> Thread \cup {NoThread}]
        /\ held' \in [Thread -> SUBSET Mutant]
        /\ abandoned' \in [Mutant -> BOOLEAN] /\ state' = state
    BY <1>4, <1>9 DEF TypeOK, waitVars
  <2>2. MutantOwnership'
    BY <1>1, <1>2, <1>3, <1>4, <1>5, <1>6, <1>9, <2>1 DEF MutantOwnership, Object
  <2>3. \A u \in Thread : Waiting(u) => \A p \in Range(request[u].objs) :
              /\ Available(p, u)' => Available(p, u)
              /\ AtLimit(p, u)' => AtLimit(p, u)
    <3>1. \A u \in Thread : Waiting(u) => Range(request[u].objs) \subseteq Object /\ u # t
      BY <1>2, RequestObjects DEF RequestOK, Waiting
    <3>2. signal[m] + 1 <= 0
      BY <1>5, <1>9
    <3> QED BY <1>2, <1>6, <1>9, <3>1, <3>2 DEF Available, AtLimit
  <2>4. UNCHANGED scanVars /\ lockOwner' \in Thread \cup {NoThread, Dpc}
    BY <1>1, <1>9 DEF Leave
  <2> QED BY <1>1, <1>4, <1>6, <1>7, <2>1, <2>2, <2>3, <2>4, QuietStep
<1> QED BY <1>8, <1>9 DEF KeReleaseMutant

LEMMA RecycleMutantStep ==
    ASSUME IInv, NEW t \in Thread, NEW m \in Mutant, NEW b \in BOOLEAN,
           RecycleMutant(t, m, b)
    PROVE  IInv'
<1> USE DEF IInv
<1>1. /\ lockOwner = NoThread /\ scanObj = NoObject /\ after = "unlock"
      /\ t # Dpc /\ t # NoThread /\ state[t] = "running"
  BY CallerFacts, KeWaitAssumption DEF RecycleMutant
<1>2. m \in Object /\ m \notin Event /\ m \notin Semaphore \cup Thread
  BY KeWaitAssumption DEF Object, Event
<1> DEFINE freed == IF signal[m] <= 0 THEN Unheld(m) ELSE held
           n == IF b THEN 0 ELSE 1
           new == IF b THEN t ELSE NoThread
<1>3. /\ signal' = [signal EXCEPT ![m] = n]
      /\ owner' = [owner EXCEPT ![m] = new]
      /\ held' = IF b THEN [freed EXCEPT ![t] = @ \cup {m}] ELSE freed
      /\ abandoned' = [abandoned EXCEPT ![m] = FALSE]
      /\ waitList[m] = <<>>
      /\ UNCHANGED <<waitVars, alertVars, lockOwner, scanVars>>
  BY DEF RecycleMutant, SetSignal
<1>4. /\ signal \in [Object -> Int] /\ owner \in [Mutant -> Thread \cup {NoThread}]
      /\ held \in [Thread -> SUBSET Mutant] /\ abandoned \in [Mutant -> BOOLEAN]
  BY DEF TypeOK
<1>5. /\ signal' \in [Object -> Int] /\ signal'[m] = n
      /\ \A p \in Object \ {m} : signal'[p] = signal[p]
  BY <1>2, <1>3, <1>4
<1>6. /\ owner' \in [Mutant -> Thread \cup {NoThread}] /\ owner'[m] = new
      /\ \A p \in Mutant \ {m} : owner'[p] = owner[p]
  BY <1>3, <1>4
<1>7. freed \in [Thread -> SUBSET Mutant]
      /\ \A u \in Thread : freed[u] = held[u] \ {m}
  <2>1. signal[m] <= 0 \/ signal[m] = 1
    BY <1>2, <1>4, KeWaitAssumption DEF MutantOwnership
  <2>2. CASE signal[m] <= 0
    BY <1>4, <2>2 DEF Unheld
  <2>3. CASE signal[m] = 1
    <3>1. \A u \in Thread : m \notin held[u]
      BY <2>3, KeWaitAssumption DEF MutantOwnership
    <3> QED BY <1>4, <2>3, <3>1
  <2> QED BY <2>1, <2>2, <2>3
<1> HIDE DEF freed
<1>8. /\ held' \in [Thread -> SUBSET Mutant]
      /\ \A u \in Thread : held'[u] = IF b /\ u = t THEN held[u] \cup {m}
                                      ELSE held[u] \ {m}
  BY <1>3, <1>7
<1>9. abandoned' \in [Mutant -> BOOLEAN] /\ ~abandoned'[m]
      /\ \A p \in Mutant \ {m} : abandoned'[p] <=> abandoned[p]
  <2>1. [abandoned EXCEPT ![m] = FALSE] \in [Mutant -> BOOLEAN]
    BY <1>4, BooleanExcept, Zenon
  <2> QED BY <1>3, <1>4, <2>1
<1>10. SignalOK'
  BY <1>2, <1>5 DEF SignalOK, Object, Event
<1>11. MutantOwnership'
  <2>1. state' = state /\ lockOwner' = lockOwner /\ after' = after
    BY <1>3 DEF waitVars, scanVars
  <2> SUFFICES ASSUME NEW k \in Mutant
               PROVE  /\ signal'[k] \in MinSignal..1
                      /\ signal'[k] = 1 <=> owner'[k] = NoThread
                      /\ \A u \in Thread : k \in held'[u] <=> owner'[k] = u
                      /\ owner'[k] # NoThread =>
                            /\ ~abandoned'[k]
                            /\ state[owner'[k]] \notin {"drained", "terminated"}
                            /\ state[owner'[k]] = "exiting" =>
                                  lockOwner = owner'[k] /\ after = "rundown"
    BY <2>1 DEF MutantOwnership
  <2>2. CASE k = m
    BY <1>1, <1>5, <1>6, <1>8, <1>9, <2>2, KeWaitAssumption
  <2>3. CASE k # m
    BY <1>5, <1>6, <1>8, <1>9, <2>3 DEF MutantOwnership, Object
  <2> QED BY <2>2, <2>3
<1>12. \A u \in Thread : Waiting(u) =>
            /\ Range(request[u].objs) \subseteq Object
            /\ m \notin Range(request[u].objs)
  BY <1>2, <1>3, RequestObjects DEF RequestOK, WaitLinkage, Waiting, Range
<1>13. \A u \in Thread : Waiting(u) => \A p \in Range(request[u].objs) :
            /\ Available(p, u)' => Available(p, u)
            /\ AtLimit(p, u)' => AtLimit(p, u)
  BY <1>5, <1>6, <1>12 DEF Available, AtLimit
<1>14. lockOwner' \in Thread \cup {NoThread, Dpc}
       /\ UNCHANGED <<waitVars, alertVars, scanVars>>
  BY <1>1, <1>3
<1> QED BY <1>1, <1>5, <1>6, <1>8, <1>9, <1>10, <1>11, <1>13, <1>14, QuietStep

-----------------------------------------------------------------------------
(* The loop of KiWaitTest. *)
LEMMA ScanStepKeeps ==
    ASSUME IInv, ScanStep
    PROVE  IInv'
<1> USE DEF IInv
<1> DEFINE t == Head(scanRest)
<1>1. /\ scanObj # NoObject /\ signal[scanObj] > 0 /\ scanRest # <<>>
      /\ scanRest' = Tail(scanRest)
      /\ UNCHANGED <<alertVars, lockOwner, scanObj, after>>
  BY DEF ScanStep
<1>2. scanObj \in Object /\ scanRest \in Seq(Thread) /\ IsInjective(scanRest)
  BY <1>1 DEF TypeOK, ScanOK
<1>3. /\ scanRest' \in Seq(Thread) /\ t \in Thread /\ IsInjective(scanRest')
      /\ t \in Range(scanRest) /\ Range(scanRest') = Range(scanRest) \ {t}
  BY <1>1, <1>2, TailScans
<1> HIDE DEF t
<1>4. /\ Waiting(t) /\ scanObj \in Range(request[t].objs)
      /\ request[t] \in WaitRequest
  BY <1>1, <1>2, <1>3 DEF ScanOK, WaitLinkage, Waiting, RequestOK
<1>5. Range(request[t].objs) \subseteq Object /\ request[t].all \in BOOLEAN
  BY <1>4, RequestObjects
<1>6. CASE /\ request[t].all => Satisfiable(t, request[t])
           /\ Satisfy(t, ScanClaim(t))
           /\ Unwait(t, SatisfiedStatus(ScanClaim(t)), ScanClaim(t))
  <2> DEFINE S == ScanClaim(t)
  <2>1. S \in SUBSET Object /\ \A o \in S : Available(o, t) /\ ~AtLimit(o, t)
    <3>1. CASE request[t].all
      BY <1>3, <1>4, <1>5, <1>6, <3>1 DEF ScanClaim, Satisfiable, RecursionOK, AtLimit
    <3>2. CASE ~request[t].all
      BY <1>1, <1>2, <1>3, <1>4, <3>2 DEF ScanClaim, Available, AtLimit, ScanOK
    <3> QED BY <1>5, <3>1, <3>2
  <2>2. SatisfiedStatus(S) \in Results
    BY DEF SatisfiedStatus, Results
  <2>3. Satisfy(t, S) /\ Unwait(t, SatisfiedStatus(S), S)
    BY <1>6
  <2> HIDE DEF S
  <2>4. /\ waitList' \in [Object -> Seq(Thread)]
        /\ state' \in [Thread -> States]
        /\ request' \in [Thread -> WaitRequest \cup {NoRequest}]
        /\ result' \in [Thread -> Results]
        /\ taken' \in [Thread -> SUBSET Object]
        /\ timer' \subseteq Thread
        /\ WaitLinkage' /\ RequestOK'
    BY <1>3, <1>4, <2>1, <2>2, <2>3, UnwaitLinks
  <2>5. /\ \A u \in Thread : Waiting(u)' <=> Waiting(u) /\ u # t
        /\ \A o \in Object : Range(waitList'[o]) = Range(waitList[o]) \ {t}
    BY <1>3, <1>4, <2>1, <2>2, <2>3, UnwaitLinks
  <2>6. request' = request /\ state' = [state EXCEPT ![t] = "returning"]
    BY <2>3 DEF Unwait
  <2>7. /\ signal' \in [Object -> Int]
        /\ owner' \in [Mutant -> Thread \cup {NoThread}]
        /\ abandoned' \in [Mutant -> BOOLEAN]
        /\ held' \in [Thread -> SUBSET Mutant]
        /\ SignalOK' /\ MutantOwnership'
    BY <1>1, <1>3, <1>4, <2>1, <2>3, <2>6, SatisfyObjects DEF Waiting
  <2>8. /\ \A o \in Object : signal'[o] <= signal[o]
        /\ \A m \in Mutant, u \in Thread : u # t /\ owner'[m] = u =>
              owner[m] = u /\ signal'[m] = signal[m]
    BY <1>1, <1>3, <1>4, <2>1, <2>3, <2>6, SatisfyObjects DEF Waiting
  <2>9. TypeOK'
    BY <1>1, <1>2, <1>3, <2>4, <2>7 DEF TypeOK, alertVars
  <2>10. RecursionOK'
    BY <2>5, <2>6, <2>8 DEF RecursionOK, AtLimit
  <2>11. LockOK'
    BY <1>1, <1>4, <2>6 DEF LockOK, Waiting, TypeOK
  <2>12. ScanOK'
    BY <1>1, <1>2, <1>3, <2>5, <2>8 DEF ScanOK
  <2>13. WakeupOK'
    <3>1. \A u \in Thread, o \in Object :
            Waiting(u)' /\ Available(o, u)' => Available(o, u)
      BY <2>5, <2>7, <2>8 DEF Available, TypeOK
    <3>2. \A u \in Thread : Waiting(u) => Range(request[u].objs) \subseteq Object
      BY RequestObjects DEF RequestOK
    <3>3. \A u \in Thread : Waiting(u)' /\ ScanReaches(u) /\ signal'[scanObj] > 0
                              => ScanReaches(u)'
      BY <1>1, <1>3, <2>5 DEF ScanReaches
    <3>4. \A u \in Thread, o \in Object :
            Waiting(u)' /\ Available(o, u)' /\ o = scanObj => signal'[scanObj] > 0
      BY <1>1, <1>2, <2>5, <2>8 DEF Available, ScanOK
    <3>5. \A u \in Thread : Waiting(u) /\ ScanReaches(u) =>
                              scanObj \in Range(request[u].objs)
      BY <1>2 DEF ScanReaches, ScanOK, WaitLinkage, Waiting
    <3> SUFFICES ASSUME NEW u \in Thread, Waiting(u)'
                 PROVE  /\ ~request[u].all =>
                             \A o \in Range(request[u].objs) :
                                Available(o, u)' => o = scanObj /\ ScanReaches(u)'
                        /\ request[u].all
                             /\ (\A o \in Range(request[u].objs) : Available(o, u)') =>
                             ScanReaches(u)'
      BY <1>1, <2>6 DEF WakeupOK
    <3>6. Waiting(u)
      BY <2>5
    <3>7. \A o \in Range(request[u].objs) : Available(o, u)' => Available(o, u)
      BY <3>1, <3>2, <3>6
    <3>8. \A o \in Range(request[u].objs) :
            ScanReaches(u) /\ Available(o, u)' /\ o = scanObj => ScanReaches(u)'
      BY <3>2, <3>3, <3>4, <3>6
    <3> QED BY <3>5, <3>6, <3>7, <3>8 DEF WakeupOK
  <2> QED BY <2>4, <2>7, <2>9, <2>10, <2>11, <2>12, <2>13
<1>7. CASE request[t].all /\ ~Satisfiable(t, request[t]) /\ UNCHANGED <<objVars, waitVars>>
  <2>1. TypeOK' /\ SignalOK' /\ RequestOK' /\ RecursionOK'
    BY <1>1, <1>3, <1>7
       DEF TypeOK, SignalOK, RequestOK, RecursionOK, Waiting, AtLimit, objVars, waitVars, alertVars
  <2>2. LockOK' /\ ScanOK' /\ MutantOwnership' /\ WaitLinkage'
    BY <1>1, <1>3, <1>7
       DEF LockOK, ScanOK, MutantOwnership, WaitLinkage, Waiting, objVars, waitVars
  <2>3. WakeupOK'
    BY <1>1, <1>3, <1>7
       DEF WakeupOK, ScanReaches, Available, Satisfiable, Waiting, objVars, waitVars
  <2> QED BY <2>1, <2>2, <2>3
<1> QED BY <1>6, <1>7 DEF ScanStep, t

(* The end of the loop: nobody who still waits can be satisfied. *)
LEMMA ScanEnds ==
    ASSUME IInv, ScanOver, EndScan,
           UNCHANGED <<owner, abandoned, held, waitList, request, result, taken,
                       timer, alertVars>>,
           \/ state' = state
           \/ /\ after = "terminate" /\ lockOwner' = NoThread
              /\ state' = [state EXCEPT ![lockOwner] = "terminated"],
           \/ signal' = signal
           \/ scanObj \in Event /\ SetSignal(scanObj, 0),
           lockOwner' \in {NoThread, lockOwner},
           after = "rundown" => lockOwner' = lockOwner,
           after = "terminate" => lockOwner' = NoThread
    PROVE  IInv'
<1> USE DEF IInv
<1>1. /\ scanObj \in Object /\ scanObj # NoObject
      /\ signal[scanObj] <= 0 \/ scanRest = <<>>
  BY DEF ScanOver, TypeOK
<1>2. /\ scanObj' = NoObject /\ scanRest' = <<>> /\ scanRest' \in Seq(Thread)
      /\ after' = IF after = "rundown" THEN "rundown" ELSE "unlock"
  BY DEF EndScan
<1>3. signal \in [Object -> Int] /\ state \in [Thread -> States]
  BY DEF TypeOK
<1>4. /\ signal' \in [Object -> Int]
      /\ \A o \in Object : signal'[o] = signal[o] \/ (o \in Event /\ signal'[o] = 0)
  <2>1. CASE signal' = signal
    BY <1>3, <2>1
  <2>2. CASE scanObj \in Event /\ SetSignal(scanObj, 0)
    BY <1>1, <1>3, <2>2 DEF SetSignal
  <2> QED BY <2>1, <2>2
<1>5. /\ state' \in [Thread -> States]
      /\ \A u \in Thread :
            \/ state'[u] = state[u]
            \/ u = lockOwner /\ after = "terminate" /\ state[u] = "drained"
               /\ state'[u] = "terminated"
  BY <1>3 DEF LockOK, States
<1>6. \A u \in Thread : Waiting(u)' <=> Waiting(u)
  BY <1>5 DEF Waiting
<1>7. TypeOK'
  BY <1>2, <1>4, <1>5 DEF TypeOK, alertVars, After
<1>8. SignalOK'
  BY <1>4, KeWaitAssumption DEF SignalOK, Object, Event
<1>9. RequestOK' /\ WaitLinkage'
  BY <1>6 DEF RequestOK, WaitLinkage, Waiting
<1>10. \A m \in Mutant : signal'[m] = signal[m]
  BY <1>4, KeWaitAssumption DEF Object, Event
<1>11. RecursionOK'
  BY <1>6, <1>10 DEF RecursionOK, AtLimit
<1>12. LockOK'
  BY <1>1, <1>2, <1>5, KeWaitAssumption DEF LockOK
<1>13. ScanOK'
  BY <1>2 DEF ScanOK
<1>14. MutantOwnership'
  BY <1>2, <1>5, <1>10, KeWaitAssumption DEF MutantOwnership, TypeOK
<1>15. WakeupOK'
  <2>1. \A u \in Thread : ~ScanReaches(u)
    BY <1>1, <1>3 DEF ScanReaches, Range
  <2>2. \A u \in Thread, o \in Object : Available(o, u)' => Available(o, u)
    BY <1>3, <1>4, <1>10 DEF Available
  <2>3. \A u \in Thread : Waiting(u) => Range(request[u].objs) \subseteq Object
    BY RequestObjects DEF RequestOK
  <2> QED BY <1>6, <2>1, <2>2, <2>3 DEF WakeupOK
<1> QED BY <1>7, <1>8, <1>9, <1>11, <1>12, <1>13, <1>14, <1>15

LEMMA ScanKeeps ==
    ASSUME IInv, Scan
    PROVE  IInv'
<1> USE DEF IInv
<1>1. CASE FinishSignal
  <2>1. ScanOver /\ EndScan /\ after \in {"unlock", "keep", "pulse", "pulseKeep"}
        /\ UNCHANGED <<owner, abandoned, held, waitVars, alertVars>>
        /\ lockOwner' \in {NoThread, lockOwner}
    BY <1>1 DEF FinishSignal
  <2>2. signal' = signal \/ (scanObj \in Event /\ SetSignal(scanObj, 0))
    <3>1. after \in {"pulse", "pulseKeep"} => scanObj \in Event
      BY DEF LockOK
    <3> QED BY <1>1, <3>1 DEF FinishSignal
  <2> QED BY <2>1, <2>2, ScanEnds DEF waitVars
<1>2. CASE NextMutant
  <2>1. ScanOver /\ EndScan /\ after = "rundown"
        /\ UNCHANGED <<objVars, waitVars, alertVars, lockOwner>>
    BY <1>2 DEF NextMutant
  <2> QED BY <2>1, ScanEnds DEF waitVars, objVars
<1>3. CASE Terminated
  <2>1. ScanOver /\ EndScan /\ after = "terminate" /\ lockOwner' = NoThread
        /\ state' = [state EXCEPT ![lockOwner] = "terminated"]
        /\ UNCHANGED <<objVars, waitList, request, result, taken, timer, alertVars>>
    BY <1>3 DEF Terminated
  <2> QED BY <2>1, ScanEnds DEF objVars
<1> QED BY <1>1, <1>2, <1>3, ScanStepKeeps DEF Scan

-----------------------------------------------------------------------------
(* The end of a thread. *)
LEMMA LifeStep ==
    ASSUME IInv, scanObj = NoObject, NEW t \in Thread, NEW s \in States \ {"waiting"},
           state[t] # "waiting", state' = [state EXCEPT ![t] = s],
           UNCHANGED <<objVars, waitList, request, result, taken, timer, alerted,
                       userApcPending, scanObj, scanRest>>,
           userApcs' \in [Thread -> Nat],
           lockOwner' \in Thread \cup {NoThread}, after' \in After,
           LockOK', MutantOwnership'
    PROVE  IInv'
<1> USE DEF IInv, objVars
<1>1. state' \in [Thread -> States] /\ \A u \in Thread : Waiting(u)' <=> Waiting(u)
  BY DEF TypeOK, Waiting
<1>2. TypeOK'
  BY <1>1 DEF TypeOK
<1>3. SignalOK' /\ RequestOK' /\ RecursionOK' /\ WaitLinkage'
  BY <1>1 DEF SignalOK, RequestOK, RecursionOK, WaitLinkage, AtLimit, Waiting
<1>4. ScanOK' /\ WakeupOK'
  BY <1>1 DEF ScanOK, WakeupOK, ScanReaches, Available
<1> QED BY <1>2, <1>3, <1>4

LEMMA KeRundownThreadStep ==
    ASSUME IInv, NEW t \in Thread, KeRundownThread(t)
    PROVE  IInv'
<1> USE DEF IInv
<1>1. /\ lockOwner = NoThread /\ scanObj = NoObject /\ state[t] = "running"
      /\ t # NoThread
  BY CallerFacts, KeWaitAssumption DEF KeRundownThread
<1>2. /\ state' = [state EXCEPT ![t] = "exiting"]
      /\ lockOwner' = t /\ after' = "rundown"
      /\ UNCHANGED <<objVars, waitList, request, result, taken, timer, alertVars,
                     scanObj, scanRest>>
  BY DEF KeRundownThread
<1>3. "exiting" \in States \ {"waiting"} /\ "rundown" \in After
  BY DEF States, After
<1>4. state \in [Thread -> States] /\ userApcs' \in [Thread -> Nat]
  BY <1>2 DEF TypeOK, alertVars
<1>5. LockOK'
  BY <1>1, <1>2, <1>4 DEF LockOK
<1>6. MutantOwnership'
  BY <1>1, <1>2, <1>4 DEF MutantOwnership, objVars, TypeOK
<1> QED BY <1>1, <1>2, <1>3, <1>4, <1>5, <1>6, LifeStep DEF alertVars

LEMMA KeFlushQueueApcStep ==
    ASSUME IInv, NEW t \in Thread, KeFlushQueueApc(t)
    PROVE  IInv'
<1> USE DEF IInv
<1>1. /\ state[t] = "exiting" /\ lockOwner = NoThread /\ t # NoThread
      /\ scanObj = NoObject /\ after = "unlock"
  BY KeWaitAssumption DEF KeFlushQueueApc, LockOK
<1>2. /\ state' = [state EXCEPT ![t] = "drained"]
      /\ userApcs' = [userApcs EXCEPT ![t] = 0]
      /\ UNCHANGED <<objVars, waitList, request, result, taken, timer, alerted,
                     userApcPending, lockOwner, scanVars>>
  BY DEF KeFlushQueueApc
<1>3. "drained" \in States \ {"waiting"} /\ "unlock" \in After
  BY DEF States, After
<1>4. state \in [Thread -> States] /\ userApcs' \in [Thread -> Nat]
  BY <1>2 DEF TypeOK
<1>5. LockOK'
  BY <1>1, <1>2 DEF LockOK, scanVars
<1>6. MutantOwnership'
  BY <1>1, <1>2, <1>4 DEF MutantOwnership, objVars, scanVars, TypeOK
<1> QED BY <1>1, <1>2, <1>3, <1>4, <1>5, <1>6, LifeStep DEF scanVars

LEMMA KeTerminateThreadStep ==
    ASSUME IInv, NEW t \in Thread, KeTerminateThread(t)
    PROVE  IInv'
<1> USE DEF IInv
<1>1. /\ state[t] = "drained" /\ lockOwner = NoThread
      /\ scanObj = NoObject /\ after = "unlock"
  BY DEF KeTerminateThread, LockOK
<1>2. /\ SetSignal(t, 1) /\ WaitTest(t, t, "terminate")
      /\ UNCHANGED <<owner, abandoned, held, waitVars, alertVars>>
  BY DEF KeTerminateThread
<1>3. t \in Object \ Mutant /\ t \notin Event
  BY KeWaitAssumption DEF Object
<1>4. /\ signal' \in [Object -> Int]
      /\ owner' \in [Mutant -> Thread \cup {NoThread}]
      /\ abandoned' \in [Mutant -> BOOLEAN]
      /\ held' \in [Thread -> SUBSET Mutant]
      /\ SignalOK' /\ MutantOwnership' /\ signal'[t] = 1
      /\ \A p \in Object \ {t} : signal'[p] = signal[p]
  <2>1. UNCHANGED <<owner, abandoned, held, state>>
    BY <1>2 DEF waitVars
  <2> QED BY <1>1, <1>2, <1>3, <2>1, SetSignalStep
<1>5. "terminate" \in After
  BY DEF After
<1> QED BY <1>1, <1>2, <1>3, <1>4, <1>5, StartScan

LEMMA RundownKeeps ==
    ASSUME IInv, Rundown
    PROVE  IInv'
<1> USE DEF IInv
<1>1. /\ after = "rundown" /\ scanObj = NoObject
      /\ lockOwner \in Thread /\ state[lockOwner] = "exiting" /\ lockOwner # NoThread
  BY KeWaitAssumption DEF Rundown, RundownDone, AbandonNext, LockOK
<1>2. ASSUME RundownDone PROVE IInv'
  <2>1. /\ held[lockOwner] = {} /\ lockOwner' = NoThread /\ after' = "unlock"
        /\ UNCHANGED <<objVars, waitVars, alertVars, scanObj, scanRest>>
    BY <1>2 DEF RundownDone
  <2>2. state' = [state EXCEPT ![lockOwner] = "exiting"]
    BY <1>1, <2>1 DEF waitVars, TypeOK
  <2>3. LockOK'
    BY <1>1, <2>1 DEF LockOK
  <2>4. MutantOwnership'
    BY <1>1, <2>1 DEF MutantOwnership, objVars, waitVars, TypeOK
  <2>5. userApcs' \in [Thread -> Nat]
    BY <2>1 DEF TypeOK, alertVars
  <2>6. "exiting" \in States \ {"waiting"} /\ "unlock" \in After
    BY DEF States, After
  <2> QED BY <1>1, <2>1, <2>2, <2>3, <2>4, <2>5, <2>6, LifeStep DEF waitVars, alertVars
<1>3. ASSUME NEW m \in Mutant, AbandonNext(m) PROVE IInv'
  <2>1. /\ m \in held[lockOwner]
        /\ held' = Unheld(m)
        /\ signal' = [signal EXCEPT ![m] = 1]
        /\ abandoned' = [abandoned EXCEPT ![m] = TRUE]
        /\ owner' = [owner EXCEPT ![m] = NoThread]
        /\ WaitTest(lockOwner, m, "rundown")
        /\ UNCHANGED <<waitVars, alertVars>>
    BY <1>3 DEF AbandonNext, SetSignal
  <2>2. m \in Object /\ m \notin Event /\ m \notin Semaphore \cup Thread
    BY KeWaitAssumption DEF Object, Event
  <2>3. /\ signal' \in [Object -> Int] /\ signal'[m] = 1
        /\ \A p \in Object \ {m} : signal'[p] = signal[p]
    BY <2>1, <2>2 DEF TypeOK
  <2>4. /\ owner' \in [Mutant -> Thread \cup {NoThread}] /\ owner'[m] = NoThread
        /\ \A p \in Mutant \ {m} : owner'[p] = owner[p]
    BY <2>1 DEF TypeOK
  <2>5. /\ held' \in [Thread -> SUBSET Mutant]
        /\ \A u \in Thread : held'[u] = held[u] \ {m}
    BY <2>1 DEF Unheld, TypeOK
  <2>6. abandoned' \in [Mutant -> BOOLEAN]
        /\ \A p \in Mutant \ {m} : abandoned'[p] = abandoned[p]
    <3>1. abandoned \in [Mutant -> BOOLEAN]
      BY DEF TypeOK
    <3>2. [abandoned EXCEPT ![m] = TRUE] \in [Mutant -> BOOLEAN]
      BY <3>1, BooleanExcept, Zenon
    <3> QED BY <2>1, <3>1, <3>2
  <2>7. SignalOK'
    BY <2>2, <2>3 DEF SignalOK, Object, Event
  <2>8. MutantOwnership'
    <3>1. state' = state /\ lockOwner' = lockOwner /\ after' = after
      BY <1>1, <2>1 DEF waitVars, WaitTest
    <3> SUFFICES ASSUME NEW k \in Mutant
                 PROVE  /\ signal'[k] \in MinSignal..1
                        /\ signal'[k] = 1 <=> owner'[k] = NoThread
                        /\ \A u \in Thread : k \in held'[u] <=> owner'[k] = u
                        /\ owner'[k] # NoThread =>
                              /\ ~abandoned'[k]
                              /\ state[owner'[k]] \notin {"drained", "terminated"}
                              /\ state[owner'[k]] = "exiting" =>
                                    lockOwner = owner'[k] /\ after = "rundown"
      BY <3>1 DEF MutantOwnership
    <3>2. CASE k = m
      BY <2>3, <2>4, <2>5, <3>2, KeWaitAssumption
    <3>3. CASE k # m
      BY <2>3, <2>4, <2>5, <2>6, <3>3 DEF MutantOwnership, Object
    <3> QED BY <3>2, <3>3
  <2>9. "rundown" \in After
    BY DEF After
  <2> QED BY <1>1, <2>1, <2>2, <2>3, <2>4, <2>5, <2>6, <2>7, <2>8, <2>9, StartScan
<1> QED BY <1>2, <1>3 DEF Rundown

-----------------------------------------------------------------------------
(* Timers, alerts, APCs, and the waits themselves. *)
LEMMA EndWaitStep ==
    ASSUME IInv, NEW t \in Thread,
           \/ TimerExpire(t) \/ InsertUserApc(t) \/ RemoveUserApc(t)
           \/ InsertKernelApc(t)
           \/ \E mode \in AlertMode : KeAlertThread(t, mode)
           \/ \E mode \in AlertMode : KeTestAlertThread(t, mode)
    PROVE  IInv'
<1> USE DEF IInv
<1>1. /\ alerted \in [Thread -> SUBSET Modes]
      /\ userApcs \in [Thread -> Nat]
      /\ userApcPending \in [Thread -> BOOLEAN]
      /\ lockOwner \in Thread \cup {NoThread, Dpc}
  BY DEF TypeOK
<1>2. [userApcPending EXCEPT ![t] = TRUE] \in [Thread -> BOOLEAN]
  BY <1>1, BooleanExcept, Zenon
<1>3. {"timeout", "alerted", "userApc", "kernelApc"} \subseteq Results
  BY DEF Results
<1>4. CASE TimerExpire(t)
  <2>1. Waiting(t)
    BY <1>4 DEF TimerExpire, WaitLinkage, Waiting
  <2>2. /\ lockOwner = NoThread /\ Unwait(t, "timeout", {})
        /\ UNCHANGED objVars /\ UNCHANGED alertVars
        /\ UNCHANGED lockOwner /\ UNCHANGED scanVars
    BY <1>4 DEF TimerExpire
  <2> QED BY <1>1, <1>3, <2>1, <2>2, UnwaitStep DEF alertVars
<1>5. CASE InsertKernelApc(t)
  <2>1. /\ Waiting(t) /\ lockOwner = NoThread /\ Unwait(t, "kernelApc", {})
        /\ UNCHANGED objVars /\ UNCHANGED alertVars
        /\ UNCHANGED lockOwner /\ UNCHANGED scanVars
    BY <1>5 DEF InsertKernelApc, Waiting
  <2> QED BY <1>1, <1>3, <2>1, UnwaitStep DEF alertVars
<1>6. CASE InsertUserApc(t)
  <2>1. /\ lockOwner = NoThread /\ UNCHANGED objVars /\ UNCHANGED alerted
        /\ UNCHANGED lockOwner /\ UNCHANGED scanVars
        /\ userApcs' = [userApcs EXCEPT ![t] = @ + 1]
    BY <1>6 DEF InsertUserApc
  <2>2. userApcs' \in [Thread -> Nat]
    BY <1>1, <2>1
  <2>3. CASE /\ WaitsIn(t, "user") /\ Unwait(t, "userApc", {})
             /\ userApcPending' = [userApcPending EXCEPT ![t] = TRUE]
    <3>1. Waiting(t)
      BY <2>3 DEF WaitsIn, Waiting
    <3>2. userApcPending' \in [Thread -> BOOLEAN]
      BY <1>2, <2>3, Zenon
    <3> QED BY <1>1, <1>3, <2>1, <2>2, <2>3, <3>1, <3>2, UnwaitStep
  <2>4. CASE UNCHANGED <<userApcPending, waitVars>>
    BY <1>1, <2>1, <2>2, <2>4, AlertStep
  <2> QED BY <1>6, <2>3, <2>4 DEF InsertUserApc
<1>7. CASE RemoveUserApc(t)
  <2>1. /\ UNCHANGED <<objVars, waitVars, alerted, lockOwner, scanVars>>
        /\ userApcs[t] > 0 /\ userApcs' = [userApcs EXCEPT ![t] = @ - 1]
        /\ userApcPending' = [userApcPending EXCEPT
                                ![t] = userApcPending[t] /\ userApcs[t] > 1]
    BY <1>7 DEF RemoveUserApc
  <2>2. userApcs' \in [Thread -> Nat]
    BY <1>1, <2>1
  <2>3. (userApcPending[t] /\ userApcs[t] > 1) \in BOOLEAN
    OBVIOUS
  <2>4. [userApcPending EXCEPT ![t] = userApcPending[t] /\ userApcs[t] > 1]
            \in [Thread -> BOOLEAN]
    BY <1>1, <2>3, BooleanExcept, Zenon
  <2>5. userApcPending' \in [Thread -> BOOLEAN]
    BY <2>1, <2>4, Zenon
  <2> QED BY <1>1, <2>1, <2>2, <2>5, AlertStep
<1>8. ASSUME NEW mode \in AlertMode, KeAlertThread(t, mode) PROVE IInv'
  <2>1. /\ lockOwner = NoThread
        /\ UNCHANGED <<userApcs, userApcPending>> /\ UNCHANGED objVars
        /\ UNCHANGED lockOwner /\ UNCHANGED scanVars
    BY <1>8 DEF KeAlertThread
  <2>2. CASE WaitsIn(t, mode) /\ Unwait(t, "alerted", {}) /\ UNCHANGED alerted
    <3>1. Waiting(t)
      BY <2>2 DEF WaitsIn, Waiting
    <3> QED BY <1>1, <1>3, <2>1, <2>2, <3>1, UnwaitStep
  <2>3. CASE UNCHANGED waitVars /\ alerted' = [alerted EXCEPT ![t] = @ \cup {mode}]
    <3>1. mode \in Modes
      BY KeWaitAssumption
    <3>2. alerted' \in [Thread -> SUBSET Modes]
      BY <1>1, <2>3, <3>1
    <3> QED BY <1>1, <2>1, <2>3, <3>2, AlertStep
  <2> QED BY <1>8, <2>2, <2>3 DEF KeAlertThread
<1>9. ASSUME NEW mode \in AlertMode, KeTestAlertThread(t, mode) PROVE IInv'
  <2>1. UNCHANGED <<objVars, waitVars, userApcs, lockOwner, scanVars>>
    BY <1>9 DEF KeTestAlertThread
  <2>2. CASE alerted' = [alerted EXCEPT ![t] = @ \ {mode}] /\ UNCHANGED userApcPending
    <3>1. alerted' \in [Thread -> SUBSET Modes]
      BY <1>1, <2>2
    <3> QED BY <1>1, <2>1, <2>2, <3>1, AlertStep
  <2>3. CASE /\ userApcPending' = [userApcPending EXCEPT ![t] = TRUE]
             /\ UNCHANGED alerted
    <3>1. userApcPending' \in [Thread -> BOOLEAN]
      BY <1>2, <2>3, Zenon
    <3> QED BY <1>1, <2>1, <2>3, <3>1, AlertStep
  <2> QED BY <1>9, <2>2, <2>3 DEF KeTestAlertThread
<1> QED BY <1>4, <1>5, <1>6, <1>7, <1>8, <1>9

LEMMA WaitStep ==
    ASSUME IInv, NEW t \in Thread, \/ \E r \in WaitRequest : Wait(t, r)
                                   \/ Rewait(t)
    PROVE  IInv'
<1>1. CASE Rewait(t)
  <2>1. request[t] \in WaitRequest
    BY <1>1 DEF IInv, RequestOK, Rewait
  <2> QED BY <1>1, <2>1, WaitPassStep DEF Rewait
<1>2. ASSUME NEW r \in WaitRequest, Wait(t, r) PROVE IInv'
  BY <1>2, WaitPassStep DEF Wait
<1> QED BY <1>1, <1>2

-----------------------------------------------------------------------------
LEMMA InitEstablishes ==
    ASSUME Init
    PROVE  IInv
<1> USE DEF Init
<1>1. /\ waitList \in [Object -> Seq(Thread)]
      /\ \A o \in Object : IsInjective(waitList[o]) /\ Range(waitList[o]) = {}
  BY DEF IsInjective, Range
<1>2. signal \in [Object -> Int]
  BY KeWaitAssumption
<1>3. abandoned \in [Mutant -> BOOLEAN] /\ userApcPending \in [Thread -> BOOLEAN]
  BY Zenon
<1>4. TypeOK
  BY <1>1, <1>2, <1>3 DEF TypeOK, States, Results, After
<1>5. SignalOK
  <2>1. \A o \in Object : signal[o] \in 0..Limit
    OBVIOUS
  <2>2. \A e \in Event : signal[e] \in {0, 1}
    BY KeWaitAssumption DEF Object, Event
  <2> QED BY <2>1, <2>2, KeWaitAssumption DEF SignalOK, Object
<1>6. RequestOK /\ RecursionOK /\ LockOK /\ ScanOK /\ WakeupOK
  BY DEF RequestOK, RecursionOK, LockOK, ScanOK, WakeupOK, Waiting
<1>7. \A m \in Mutant : signal[m] = 1
  BY KeWaitAssumption DEF Object, Event
<1>8. MutantOwnership
  BY <1>7, KeWaitAssumption DEF MutantOwnership
<1>9. WaitLinkage
  BY <1>1 DEF WaitLinkage
<1> QED BY <1>4, <1>5, <1>6, <1>8, <1>9 DEF IInv

LEMMA NextPreserves ==
    ASSUME IInv, [Next]_vars
    PROVE  IInv'
<1>1. ASSUME NEW t \in Thread, NEW r \in WaitRequest, Wait(t, r) PROVE IInv'
  BY <1>1, WaitStep
<1>2. ASSUME NEW t \in Thread, Rewait(t) PROVE IInv'
  BY <1>2, WaitStep
<1>3. ASSUME NEW t \in Thread, Return(t) PROVE IInv'
  BY <1>3, ReturnStep
<1>4. ASSUME NEW t \in Thread, KeRundownThread(t) \/ Exit(t) PROVE IInv'
  BY <1>4, KeRundownThreadStep, KeFlushQueueApcStep, KeTerminateThreadStep DEF Exit
<1>5. ASSUME NEW t \in Thread,
             \/ TimerExpire(t) \/ InsertUserApc(t) \/ RemoveUserApc(t)
             \/ InsertKernelApc(t)
             \/ \E mode \in AlertMode : KeAlertThread(t, mode)
             \/ \E mode \in AlertMode : KeTestAlertThread(t, mode)
      PROVE IInv'
  BY <1>5, EndWaitStep
<1>6. CASE Signal
  BY <1>6, SetEventStep, PulseStep, SemaphoreStep DEF Signal
<1>7. CASE Reset
  BY <1>7, ResetStep DEF Reset
<1>8. CASE UseMutant
  BY <1>8, ReleaseMutantStep, RecycleMutantStep DEF UseMutant
<1>9. CASE Scan
  BY <1>9, ScanKeeps
<1>10. CASE Rundown
  BY <1>10, RundownKeeps
<1>11. CASE UNCHANGED vars
  <2>1. /\ UNCHANGED <<objVars, waitVars, lockOwner, scanVars>>
        /\ UNCHANGED <<alerted, userApcs, userApcPending>>
    BY <1>11 DEF vars, alertVars
  <2>2. /\ alerted' \in [Thread -> SUBSET Modes]
        /\ userApcs' \in [Thread -> Nat]
        /\ userApcPending' \in [Thread -> BOOLEAN]
    BY <2>1 DEF IInv, TypeOK
  <2> QED BY <2>1, <2>2, AlertStep
<1> QED BY <1>1, <1>2, <1>3, <1>4, <1>5, <1>6, <1>7, <1>8, <1>9, <1>10, <1>11 DEF Next

THEOREM Inductive == Spec => []IInv
<1>1. Init => IInv
  BY InitEstablishes
<1>2. IInv /\ [Next]_vars => IInv'
  BY NextPreserves
<1> QED BY <1>1, <1>2, PTL DEF Spec

(* Every variable keeps to its type: no count goes below zero, no list     *)
(* names anything but threads, in any instance of wait.c and its objects.  *)
THEOREM TypeCorrect == Spec => []TypeOK
<1>1. IInv => TypeOK
  BY DEF IInv
<1> QED BY <1>1, Inductive, PTL

(* NoLostWakeup, of one thread. *)
LEMMA SatisfiableScanned ==
    ASSUME IInv, NEW t \in Thread, Waiting(t), Satisfiable(t, request[t])
    PROVE  ScanReaches(t) /\ t \in Range(scanRest)
<1>1. request[t].all \in BOOLEAN
  BY RequestObjects DEF IInv, RequestOK
<1>2. CASE request[t].all
  BY <1>2 DEF IInv, WakeupOK, Satisfiable, ScanReaches
<1>3. CASE ~request[t].all
  BY <1>3 DEF IInv, WakeupOK, Satisfiable, ScanReaches
<1> QED BY <1>1, <1>2, <1>3

(* No wakeup is lost by KiWaitTest, KeSetEvent, KeReleaseSemaphore,        *)
(* KeReleaseMutant, KePulseEvent, KeRundownThread and KeTerminateThread,   *)
(* however many threads, objects and kinds of wait there are.              *)
THEOREM WakeupsNotLost == Spec => []NoLostWakeup
<1>1. IInv => NoLostWakeup
  BY SatisfiableScanned DEF NoLostWakeup, ScanReaches, Waiting
<1> QED BY <1>1, Inductive, PTL

(* A mutant is owned, listed by its owner and counted consistently, and a  *)
(* thread that has been run down owns none, whatever waits, releases,      *)
(* deletions and thread exits the threads interleave.                      *)
THEOREM MutantsOwnedByOne == Spec => []MutantOwnership
<1>1. IInv => MutantOwnership
  BY DEF IInv
<1> QED BY <1>1, Inductive, PTL

(* The wait blocks and the timer KiUnwaitThread takes out are exactly      *)
(* those the wait put in, for every way a wait ends.                       *)
THEOREM WaitsLinked == Spec => []WaitLinkage
<1>1. IInv => WaitLinkage
  BY DEF IInv
<1> QED BY <1>1, Inductive, PTL

-----------------------------------------------------------------------------
(* Alerts and APCs: a user APC is pending only while one is queued, until  *)
(* the thread closes its queues.  Without it a user-mode wait could begin  *)
(* with the flag set and sleep on.                                         *)
Closed(t) == state[t] \in {"drained", "terminated"}

ApcOK == \A t \in Thread : userApcPending[t] => userApcs[t] > 0 \/ Closed(t)

(* Nobody begins a wait and nobody's queues open again. *)
Calm ==
    \A t \in Thread : /\ Waiting(t)' => Waiting(t) /\ request'[t] = request[t]
                      /\ Closed(t) => Closed(t)'

(* The threads at the heads of the lists the signalling routines look at. *)
LEMMA EventHead ==
    ASSUME IInv, NEW o \in Object, waitList[o] # <<>>
    PROVE  /\ Head(waitList[o]) \in Thread /\ Waiting(Head(waitList[o]))
           /\ Head(waitList[o]) \in Range(waitList[o])
           /\ o \in Range(request[Head(waitList[o])].objs)
<1> DEFINE t == Head(waitList[o])
<1>1. waitList[o] \in Seq(Thread) /\ IsInjective(waitList[o])
  BY DEF IInv, TypeOK, WaitLinkage
<1>2. t \in Range(waitList[o])
  BY <1>1, TailScans
<1> HIDE DEF t
<1>3. t \in Thread /\ Waiting(t) /\ o \in Range(request[t].objs)
  BY <1>2 DEF IInv, WaitLinkage, Waiting
<1> QED BY <1>2, <1>3 DEF t

LEMMA ScanHead ==
    ASSUME IInv, scanObj # NoObject, scanRest # <<>>
    PROVE  /\ scanObj \in Object /\ scanRest \in Seq(Thread) /\ IsInjective(scanRest)
           /\ Head(scanRest) \in Thread /\ Waiting(Head(scanRest))
           /\ scanObj \in Range(request[Head(scanRest)].objs)
           /\ Head(scanRest) \in Range(scanRest)
           /\ Range(Tail(scanRest)) = Range(scanRest) \ {Head(scanRest)}
<1> DEFINE t == Head(scanRest)
<1>1. scanObj \in Object /\ scanRest \in Seq(Thread) /\ IsInjective(scanRest)
  BY DEF IInv, TypeOK, ScanOK
<1>2. t \in Range(scanRest) /\ Range(Tail(scanRest)) = Range(scanRest) \ {t}
  BY <1>1, TailScans
<1> HIDE DEF t
<1>3. t \in Thread /\ Waiting(t) /\ scanObj \in Range(request[t].objs)
  BY <1>1, <1>2 DEF IInv, ScanOK, WaitLinkage, Waiting
<1> QED BY <1>1, <1>2, <1>3 DEF t

LEMMA UnwaitCalm ==
    ASSUME TypeOK, NEW t \in Thread, NEW status, NEW S,
           Waiting(t), Unwait(t, status, S)
    PROVE  Calm
<1>1. state' = [state EXCEPT ![t] = "returning"] /\ request' = request
  BY DEF Unwait
<1> QED BY <1>1 DEF Calm, Waiting, Closed, TypeOK

(* A thread changes its state, and does not begin a wait. *)
LEMMA StateCalm ==
    ASSUME TypeOK, NEW t \in Thread, NEW new,
           state' = [state EXCEPT ![t] = new], new # "waiting",
           Closed(t) => new \in {"drained", "terminated"},
           \A u \in Thread \ {t} : request'[u] = request[u]
    PROVE  Calm
BY DEF Calm, Waiting, Closed, TypeOK

LEMMA EndAtOnceCalm ==
    ASSUME TypeOK, NEW t \in Thread, state[t] \in {"running", "returning"},
           NEW r, NEW status, NEW S, EndAtOnce(t, r, status, S)
    PROVE  Calm
<1>1. state' = [state EXCEPT ![t] = "returning"] /\ request' = [request EXCEPT ![t] = r]
  BY DEF EndAtOnce
<1>2. ~Closed(t) /\ \A u \in Thread \ {t} : request'[u] = request[u]
  BY <1>1 DEF Closed, TypeOK
<1> QED BY <1>1, <1>2, StateCalm

(* A calm step with no alert and no APC. *)
LEMMA CalmKeeps ==
    ASSUME AlertsSeen, ApcOK, Calm, UNCHANGED alertVars
    PROVE  AlertsSeen' /\ ApcOK'
<1>1. AlertsSeen'
  BY DEF AlertsSeen, Calm, Waiting, alertVars
<1>2. ApcOK'
  BY DEF ApcOK, Calm, alertVars
<1> QED BY <1>1, <1>2

(* Taking an alert off a thread that runs, or a pending APC from it.       *)
LEMMA TakenAlertsKept ==
    ASSUME AlertsSeen, ApcOK, Calm, NEW t \in Thread, ~Waiting(t),
           \A u \in Thread : /\ alerted'[u] \subseteq alerted[u]
                             /\ u # t => userApcPending'[u] = userApcPending[u]
                             /\ u # t => userApcs'[u] = userApcs[u],
           userApcPending'[t] => userApcs'[t] > 0 \/ Closed(t)'
    PROVE  AlertsSeen' /\ ApcOK'
<1>1. AlertsSeen'
  BY DEF AlertsSeen, Calm, Waiting
<1>2. ApcOK'
  BY DEF ApcOK, Calm
<1> QED BY <1>1, <1>2

LEMMA WaitPassAlerts ==
    ASSUME IInv, AlertsSeen, ApcOK, NEW t \in Thread, NEW r \in WaitRequest,
           state[t] \in {"running", "returning"}, WaitPass(t, r)
    PROVE  AlertsSeen' /\ ApcOK'
<1>1. /\ alerted \in [Thread -> SUBSET Modes]
      /\ userApcs \in [Thread -> Nat]
      /\ userApcPending \in [Thread -> BOOLEAN]
      /\ TypeOK /\ ~Waiting(t) /\ ~Closed(t)
  BY DEF IInv, TypeOK, Waiting, Closed
<1>2. CASE ApcFirst(t, r)
  BY <1>1, <1>2, EndAtOnceCalm, CalmKeeps DEF ApcFirst
<1>3. CASE RaiseLimit(t, r)
  BY <1>1, <1>3, EndAtOnceCalm, CalmKeeps DEF RaiseLimit
<1>4. CASE TakeNow(t, r)
  <2>1. PICK S : EndAtOnce(t, r, SatisfiedStatus(S), S)
    BY <1>4 DEF TakeNow
  <2> QED BY <1>1, <1>4, <2>1, EndAtOnceCalm, CalmKeeps DEF TakeNow
<1>5. CASE TimedOut(t, r)
  BY <1>1, <1>5, EndAtOnceCalm, CalmKeeps DEF TimedOut
<1>6. CASE Interrupted(t, r)
  <2>1. Calm
    BY <1>1, <1>6, EndAtOnceCalm DEF Interrupted
  <2>2. /\ UNCHANGED userApcs
        /\ \/ alerted' = [alerted EXCEPT ![t] =
                            @ \ {IF r.mode \in @ THEN r.mode ELSE "kernel"}]
              /\ UNCHANGED userApcPending
           \/ /\ AlertStatus(t, r) = "userApc"
              /\ userApcPending' = [userApcPending EXCEPT ![t] = TRUE]
              /\ UNCHANGED alerted
    BY <1>6 DEF Interrupted
  <2>3. AlertStatus(t, r) = "userApc" => userApcs[t] > 0
    BY <1>1 DEF AlertStatus, ApcOK
  <2>4. /\ \A u \in Thread : alerted'[u] \subseteq alerted[u]
        /\ \A u \in Thread \ {t} : userApcPending'[u] = userApcPending[u]
        /\ userApcPending'[t] => userApcs'[t] > 0
    BY <1>1, <2>2, <2>3 DEF ApcOK
  <2> QED BY <1>1, <2>1, <2>2, <2>4, TakenAlertsKept
<1>7. CASE Block(t, r)
  <2>1. /\ AlertStatus(t, r) = "none"
        /\ state' = [state EXCEPT ![t] = "waiting"]
        /\ request' = [request EXCEPT ![t] = r]
        /\ UNCHANGED <<alerted, userApcs, userApcPending>>
    BY <1>7 DEF Block, alertVars
  <2>2. ApcOK'
    BY <1>1, <2>1 DEF ApcOK, Closed, TypeOK
  <2>3. r \in RequestType
    BY KeWaitAssumption
  <2>4. r.alertable \in BOOLEAN /\ r.mode \in Modes
    BY <2>3 DEF RequestType
  <2>5. /\ r.alertable => /\ "kernel" \notin alerted[t] /\ r.mode \notin alerted[t]
                          /\ r.mode = "user" => userApcs[t] = 0
        /\ r.mode = "user" => ~userApcPending[t]
    BY <1>1, <2>1, <2>4 DEF AlertStatus, Modes, ApcOK
  <2>6. AlertsSeen'
    <3> SUFFICES ASSUME NEW u \in Thread, state'[u] = "waiting"
                 PROVE  /\ request'[u].alertable =>
                              /\ "kernel" \notin alerted[u]
                              /\ request'[u].mode \notin alerted[u]
                              /\ request'[u].mode = "user" => userApcs[u] = 0
                        /\ request'[u].mode = "user" => ~userApcPending[u]
      BY <2>1 DEF AlertsSeen
    <3>1. CASE u = t
      <4>1. request'[u] = r
        BY <1>1, <2>1, <3>1 DEF TypeOK
      <4> QED BY <2>5, <3>1, <4>1
    <3>2. CASE u # t
      <4>1. request'[u] = request[u] /\ state[u] = "waiting"
        BY <1>1, <2>1, <3>2 DEF TypeOK
      <4> QED BY <4>1 DEF AlertsSeen
    <3> QED BY <3>1, <3>2
  <2> QED BY <2>2, <2>6
<1> QED BY <1>2, <1>3, <1>4, <1>5, <1>6, <1>7 DEF WaitPass

(* An alert or a user APC sent to a thread, one tested for or taken back.  *)
LEMMA AlertActions ==
    ASSUME IInv, AlertsSeen, ApcOK, NEW t \in Thread,
           \/ TimerExpire(t) \/ InsertUserApc(t) \/ RemoveUserApc(t)
           \/ InsertKernelApc(t)
           \/ \E mode \in AlertMode : KeAlertThread(t, mode)
           \/ \E mode \in AlertMode : KeTestAlertThread(t, mode)
    PROVE  AlertsSeen' /\ ApcOK'
<1>1. /\ alerted \in [Thread -> SUBSET Modes]
      /\ userApcs \in [Thread -> Nat]
      /\ userApcPending \in [Thread -> BOOLEAN]
      /\ TypeOK
  BY DEF IInv, TypeOK
<1>2. UNCHANGED waitVars => Calm
  BY DEF waitVars, Calm, Waiting, Closed
<1>3. CASE TimerExpire(t)
  <2>1. Waiting(t)
    BY <1>3 DEF TimerExpire, IInv, WaitLinkage, Waiting
  <2> QED BY <1>1, <1>3, <2>1, UnwaitCalm, CalmKeeps DEF TimerExpire
<1>4. CASE InsertKernelApc(t)
  <2>1. Waiting(t)
    BY <1>4 DEF InsertKernelApc, Waiting
  <2> QED BY <1>1, <1>4, <2>1, UnwaitCalm, CalmKeeps DEF InsertKernelApc
<1>5. CASE InsertUserApc(t)
  <2>1. /\ userApcs' = [userApcs EXCEPT ![t] = userApcs[t] + 1]
        /\ UNCHANGED alerted /\ ~Closed(t)
    BY <1>5 DEF InsertUserApc, Closed
  <2>2. CASE /\ WaitsIn(t, "user") /\ Unwait(t, "userApc", {})
             /\ userApcPending' = [userApcPending EXCEPT ![t] = TRUE]
    <3>1. Waiting(t)
      BY <2>2 DEF WaitsIn, Waiting
    <3>2. Calm
      BY <1>1, <2>2, <3>1, UnwaitCalm
    <3>3. ~Waiting(t)'
      BY <1>1, <2>2 DEF Unwait, Waiting, TypeOK
    <3>4. /\ \A u \in Thread \ {t} : userApcs'[u] = userApcs[u]
                                    /\ userApcPending'[u] = userApcPending[u]
          /\ userApcs'[t] > 0
      BY <1>1, <2>1, <2>2
    <3>5. AlertsSeen'
      BY <2>1, <3>2, <3>3, <3>4 DEF AlertsSeen, Calm, Waiting
    <3>6. ApcOK'
      BY <3>2, <3>4 DEF ApcOK, Calm
    <3> QED BY <3>5, <3>6
  <2>3. CASE ~WaitsIn(t, "user") /\ UNCHANGED <<userApcPending, waitVars>>
    <3>1. /\ \A u \in Thread \ {t} : userApcs'[u] = userApcs[u]
          /\ userApcs'[t] > 0
      BY <1>1, <2>1
    <3>2. AlertsSeen'
      BY <2>1, <2>3, <3>1 DEF AlertsSeen, WaitsIn, waitVars
    <3>3. ApcOK'
      BY <1>2, <2>3, <3>1 DEF ApcOK, Calm
    <3> QED BY <3>2, <3>3
  <2> QED BY <1>5, <2>2, <2>3 DEF InsertUserApc
<1>6. CASE RemoveUserApc(t)
  <2>1. /\ UNCHANGED <<waitVars, alerted>>
        /\ userApcs[t] > 0 /\ userApcs' = [userApcs EXCEPT ![t] = userApcs[t] - 1]
        /\ userApcPending' = [userApcPending EXCEPT
                                ![t] = userApcPending[t] /\ userApcs[t] > 1]
    BY <1>6 DEF RemoveUserApc
  <2>2. /\ \A u \in Thread \ {t} : userApcs'[u] = userApcs[u]
                                  /\ userApcPending'[u] = userApcPending[u]
        /\ userApcs'[t] = userApcs[t] - 1
        /\ userApcPending'[t] => userApcPending[t] /\ userApcs[t] > 1
    BY <1>1, <2>1
  <2>3. userApcs[t] > 1 => userApcs'[t] > 0
    BY <1>1, <2>2
  <2>4. AlertsSeen'
    BY <1>1, <2>1, <2>2 DEF AlertsSeen, waitVars
  <2>5. ApcOK'
    BY <1>2, <2>1, <2>2, <2>3 DEF ApcOK, Calm
  <2> QED BY <2>4, <2>5
<1>7. ASSUME NEW mode \in AlertMode, KeAlertThread(t, mode)
      PROVE  AlertsSeen' /\ ApcOK'
  <2>1. UNCHANGED <<userApcs, userApcPending>>
    BY <1>7 DEF KeAlertThread
  <2>2. CASE WaitsIn(t, mode) /\ Unwait(t, "alerted", {}) /\ UNCHANGED alerted
    <3>1. Waiting(t)
      BY <2>2 DEF WaitsIn, Waiting
    <3> QED BY <1>1, <2>1, <2>2, <3>1, UnwaitCalm, CalmKeeps DEF alertVars
  <2>3. CASE /\ ~WaitsIn(t, mode) /\ UNCHANGED waitVars
             /\ alerted' = [alerted EXCEPT ![t] = @ \cup {mode}]
    <3>1. ApcOK'
      BY <1>2, <2>1, <2>3 DEF ApcOK, Calm
    <3>2. /\ \A u \in Thread \ {t} : alerted'[u] = alerted[u]
          /\ alerted'[t] = alerted[t] \cup {mode}
      BY <1>1, <2>3
    <3>3. AlertsSeen'
      BY <2>1, <2>3, <3>2, KeWaitAssumption
         DEF AlertsSeen, WaitsIn, waitVars, Modes
    <3> QED BY <3>1, <3>3
  <2> QED BY <1>7, <2>2, <2>3 DEF KeAlertThread
<1>8. ASSUME NEW mode \in AlertMode, KeTestAlertThread(t, mode)
      PROVE  AlertsSeen' /\ ApcOK'
  <2>1. /\ Calm /\ UNCHANGED userApcs /\ state[t] = "running"
    BY <1>2, <1>8, KeWaitAssumption DEF KeTestAlertThread, CanCall
  <2>2. ~Waiting(t)
    BY <2>1 DEF Waiting
  <2>3. \/ alerted' = [alerted EXCEPT ![t] = @ \ {mode}] /\ UNCHANGED userApcPending
        \/ /\ userApcs[t] > 0
           /\ userApcPending' = [userApcPending EXCEPT ![t] = TRUE]
           /\ UNCHANGED alerted
    BY <1>8 DEF KeTestAlertThread
  <2>4. ~Closed(t)
    BY <2>1 DEF Closed
  <2>5. /\ \A u \in Thread : alerted'[u] \subseteq alerted[u]
        /\ \A u \in Thread \ {t} : userApcPending'[u] = userApcPending[u]
        /\ userApcPending'[t] => userApcs'[t] > 0
    BY <1>1, <2>1, <2>3, <2>4 DEF ApcOK
  <2> QED BY <2>1, <2>2, <2>5, TakenAlertsKept
<1> QED BY <1>3, <1>4, <1>5, <1>6, <1>7, <1>8

LEMMA AlertsPreserved ==
    ASSUME IInv, AlertsSeen, ApcOK, [Next]_vars
    PROVE  AlertsSeen' /\ ApcOK'
<1>1. TypeOK
  BY DEF IInv
<1>2. UNCHANGED <<state, request>> => Calm
  BY DEF Calm, Waiting, Closed
<1>3. UNCHANGED waitVars => UNCHANGED <<state, request>>
  BY DEF waitVars
<1>4. ASSUME NEW t \in Thread, NEW r \in WaitRequest, Wait(t, r)
      PROVE  AlertsSeen' /\ ApcOK'
  BY <1>4, WaitPassAlerts DEF Wait
<1>5. ASSUME NEW t \in Thread, Rewait(t) PROVE AlertsSeen' /\ ApcOK'
  <2>1. request[t] \in WaitRequest
    BY <1>5 DEF IInv, RequestOK, Rewait
  <2> QED BY <1>5, <2>1, WaitPassAlerts DEF Rewait
<1>6. ASSUME NEW t \in Thread, Return(t) PROVE AlertsSeen' /\ ApcOK'
  <2>1. /\ state[t] = "returning" /\ ~Waiting(t) /\ ~Closed(t)
        /\ state' = [state EXCEPT ![t] = "running"]
        /\ request' = [request EXCEPT ![t] = NoRequest] /\ UNCHANGED alerted
    BY <1>6 DEF Return, Waiting, Closed
  <2>2. Calm
    BY <1>1, <2>1, StateCalm DEF TypeOK
  <2>3. CASE /\ userApcs' = [userApcs EXCEPT ![t] = 0]
             /\ userApcPending' = [userApcPending EXCEPT ![t] = FALSE]
    BY <1>1, <2>1, <2>2, <2>3, TakenAlertsKept DEF TypeOK
  <2>4. CASE UNCHANGED <<userApcs, userApcPending>>
    BY <2>1, <2>2, <2>4, CalmKeeps DEF alertVars
  <2> QED BY <1>6, <2>3, <2>4 DEF Return
<1>7. ASSUME NEW t \in Thread, KeRundownThread(t) PROVE AlertsSeen' /\ ApcOK'
  <2>1. /\ state[t] = "running" /\ state' = [state EXCEPT ![t] = "exiting"]
        /\ UNCHANGED <<request, alertVars>>
    BY <1>7, KeWaitAssumption DEF KeRundownThread, CanCall
  <2> QED BY <1>1, <2>1, StateCalm, CalmKeeps DEF Closed
<1>8. ASSUME NEW t \in Thread, KeFlushQueueApc(t) PROVE AlertsSeen' /\ ApcOK'
  <2>1. /\ state[t] = "exiting" /\ state' = [state EXCEPT ![t] = "drained"]
        /\ UNCHANGED <<request, alerted, userApcPending>>
        /\ userApcs' = [userApcs EXCEPT ![t] = 0]
    BY <1>8 DEF KeFlushQueueApc
  <2>2. Calm /\ ~Waiting(t) /\ Closed(t)'
    BY <1>1, <2>1, StateCalm DEF Closed, Waiting, TypeOK
  <2>3. \A u \in Thread \ {t} : userApcs'[u] = userApcs[u]
    BY <1>1, <2>1 DEF TypeOK
  <2> QED BY <2>1, <2>2, <2>3, TakenAlertsKept
<1>9. ASSUME NEW t \in Thread, KeTerminateThread(t) PROVE AlertsSeen' /\ ApcOK'
  BY <1>2, <1>3, <1>9, CalmKeeps DEF KeTerminateThread
<1>10. ASSUME NEW t \in Thread,
             \/ TimerExpire(t) \/ InsertUserApc(t) \/ RemoveUserApc(t)
             \/ InsertKernelApc(t)
             \/ \E mode \in AlertMode : KeAlertThread(t, mode)
             \/ \E mode \in AlertMode : KeTestAlertThread(t, mode)
      PROVE AlertsSeen' /\ ApcOK'
  BY <1>10, AlertActions
<1>11. ASSUME NEW c, NEW e \in Event, NEW keep \in BOOLEAN, KeSetEvent(c, e, keep)
       PROVE  AlertsSeen' /\ ApcOK'
  <2>1. UNCHANGED alertVars /\ e \in Object
    BY <1>11 DEF KeSetEvent, Object, Event
  <2>2. CASE UNCHANGED waitVars
    BY <1>2, <1>3, <2>1, <2>2, CalmKeeps
  <2>3. CASE waitList[e] # <<>> /\ Unwait(Head(waitList[e]), "satisfied", {e})
    BY <1>1, <2>1, <2>3, EventHead, UnwaitCalm, CalmKeeps
  <2> QED BY <1>11, <2>2, <2>3 DEF KeSetEvent
<1>12. CASE \/ Reset \/ UseMutant \/ Rundown \/ FinishSignal \/ NextMutant
            \/ \E c, e, keep : KePulseEvent(c, e, keep)
            \/ \E c, s, n, keep : KeReleaseSemaphore(c, s, n, keep)
  <2>1. UNCHANGED <<waitVars, alertVars>>
    BY <1>12 DEF Reset, KeResetEvent, UseMutant, KeReleaseMutant, RecycleMutant,
                 Rundown, RundownDone, AbandonNext, FinishSignal, NextMutant,
                 KePulseEvent, KeReleaseSemaphore
  <2> QED BY <1>2, <1>3, <2>1, CalmKeeps
<1>13. CASE ScanStep
  <2>1. UNCHANGED alertVars /\ scanObj # NoObject /\ scanRest # <<>>
    BY <1>13 DEF ScanStep
  <2>2. CASE UNCHANGED waitVars
    BY <1>2, <1>3, <2>1, <2>2, CalmKeeps
  <2>3. CASE \E status, S : Unwait(Head(scanRest), status, S)
    BY <1>1, <2>1, <2>3, ScanHead, UnwaitCalm, CalmKeeps
  <2> QED BY <1>13, <2>2, <2>3 DEF ScanStep
<1>14. CASE Terminated
  <2>1. /\ lockOwner \in Thread /\ state' = [state EXCEPT ![lockOwner] = "terminated"]
        /\ UNCHANGED <<request, alertVars>>
    BY <1>14 DEF Terminated, IInv, LockOK
  <2> QED BY <1>1, <2>1, StateCalm, CalmKeeps
<1>15. CASE UNCHANGED vars
  BY <1>2, <1>15, CalmKeeps DEF vars, waitVars
<1> QED BY <1>4, <1>5, <1>6, <1>7, <1>8, <1>9, <1>10, <1>11, <1>12, <1>13, <1>14, <1>15
        DEF Next, Signal, Scan, Exit

(* No alert and no user APC is slept through, whatever alerts, APCs,       *)
(* kernel APCs, timeouts and signals the threads and DPCs interleave:      *)
(* TestForAlertPending sees what came before the wait, KeAlertThread and   *)
(* KiInsertQueueApc end the wait for what comes after.                     *)
THEOREM AlertsNotSlept == Spec => []AlertsSeen
<1>1. Init => AlertsSeen /\ ApcOK
  BY DEF Init, AlertsSeen, ApcOK
<1>2. IInv /\ AlertsSeen /\ ApcOK /\ [Next]_vars => AlertsSeen' /\ ApcOK'
  BY AlertsPreserved
<1> QED BY <1>1, <1>2, Inductive, PTL DEF Spec

-----------------------------------------------------------------------------
(* Who is served: a wait takes objects once, and has not returned as long  *)
(* as they are in its name.  In every step a thread takes all it waits for *)
(* (TakeNow, ScanStep), or KeSetEvent hands it the event, or nobody is     *)
(* served.                                                                 *)
TakenOK ==
    \A t \in Thread :
        taken[t] # {} => state[t] = "returning" /\ result[t] # "kernelApc"

Takes(t, S) ==
    /\ S \in SUBSET Object /\ S # {} /\ taken[t] = {}
    /\ Waiting(t) => scanObj # NoObject /\ scanRest # <<>> /\ t = Head(scanRest)
    /\ \A o \in S : Available(o, t)
    /\ Satisfy(t, S)
    /\ result'[t] = SatisfiedStatus(S)
    /\ taken' = [taken EXCEPT ![t] = S]
    /\ request'[t].all => S = Range(request'[t].objs)
    /\ ~request'[t].all => \E o \in Range(request'[t].objs) : S = {o}

HandedOver(t, e) ==
    /\ waitList[e] # <<>> /\ t = Head(waitList[e])
    /\ result'[t] = "satisfied" /\ taken' = [taken EXCEPT ![t] = {e}]
    /\ UNCHANGED <<signal, abandoned>>
    /\ ~request'[t].all /\ e \in Range(request'[t].objs)

NobodyServed ==
    /\ \A t \in Thread : ~Served(t)
    /\ \A s \in Semaphore : signal'[s] >= signal[s]

Serving ==
    \/ \E t \in Thread, S \in SUBSET Object : Takes(t, S)
    \/ \E t \in Thread, e \in Synchronization : HandedOver(t, e)
    \/ NobodyServed

(* A step that leaves objects and takers alone, or takes a thread out.     *)
LEMMA NothingTaken ==
    ASSUME TypeOK, NEW t \in Thread,
           UNCHANGED signal,
           taken' = taken \/ taken' = [taken EXCEPT ![t] = {}]
    PROVE  NobodyServed
<1>1. \A s \in Semaphore : signal'[s] \in Int /\ signal'[s] = signal[s]
  BY DEF TypeOK, Object
<1>2. \A u \in Thread : taken'[u] = taken[u] \/ taken'[u] = {}
  BY DEF TypeOK
<1>3. \A u \in Thread : ~Served(u)
  BY <1>2 DEF Served
<1> QED BY <1>1, <1>3 DEF NobodyServed

LEMMA SignalRaised ==
    ASSUME TypeOK, NEW o \in Object, NEW n \in Int, SetSignal(o, n),
           o \in Semaphore => n >= signal[o], UNCHANGED taken
    PROVE  NobodyServed
<1>1. \A s \in Semaphore : signal'[s] >= signal[s]
  BY DEF SetSignal, TypeOK, Object
<1> QED BY <1>1 DEF NobodyServed, Served

LEMMA ScanTakes ==
    ASSUME IInv, TakenOK, NEW t \in Thread, Waiting(t), scanObj \in Range(request[t].objs),
           scanObj \in Object, signal[scanObj] > 0,
           scanObj # NoObject, scanRest # <<>>, t = Head(scanRest),
           request[t].all => Satisfiable(t, request[t]),
           Satisfy(t, ScanClaim(t)),
           Unwait(t, SatisfiedStatus(ScanClaim(t)), ScanClaim(t))
    PROVE  Takes(t, ScanClaim(t))
<1>1. request[t] \in WaitRequest
  BY DEF IInv, RequestOK
<1>2. Range(request[t].objs) \subseteq Object /\ request[t].all \in BOOLEAN
  BY <1>1, RequestObjects
<1> DEFINE S == ScanClaim(t)
<1>3. S = IF request[t].all THEN Range(request[t].objs) ELSE {scanObj}
  BY DEF ScanClaim
<1>4. S \in SUBSET Object /\ S # {}
  BY <1>2, <1>3
<1>5. \A o \in S : Available(o, t)
  BY <1>2, <1>3 DEF Satisfiable, Available
<1>6. /\ result' = [result EXCEPT ![t] = SatisfiedStatus(S)]
      /\ taken' = [taken EXCEPT ![t] = S] /\ request' = request
  BY DEF Unwait
<1>7. result'[t] = SatisfiedStatus(S)
  BY <1>6 DEF IInv, TypeOK
<1>8. taken[t] = {}
  BY DEF TakenOK, Waiting
<1> QED BY <1>3, <1>4, <1>5, <1>6, <1>7, <1>8 DEF Takes

LEMMA ClaimShape ==
    ASSUME NEW t \in Thread, NEW r \in WaitRequest, NEW S \in Claims(t, r)
    PROVE  /\ S \in SUBSET Object /\ S # {} /\ \A o \in S : Available(o, t)
           /\ r.all => S = Range(r.objs)
           /\ ~r.all => \E o \in Range(r.objs) : S = {o}
<1>1. /\ r.objs \in Seq(Object) /\ Range(r.objs) \subseteq Object /\ r.all \in BOOLEAN
      /\ r.objs # <<>>
  BY RequestObjects, KeWaitAssumption
<1>2. CASE r.all
  <2>1. S = Range(r.objs) /\ \A i \in DOMAIN r.objs : Available(r.objs[i], t)
    BY <1>2 DEF Claims
  <2>2. r.objs[1] \in Range(r.objs)
    BY <1>1 DEF Range
  <2> QED BY <1>1, <1>2, <2>1, <2>2 DEF Range
<1>3. CASE ~r.all
  <2>1. PICK i \in DOMAIN r.objs : S = {r.objs[i]} /\ Available(r.objs[i], t)
    BY <1>3 DEF Claims
  <2>2. r.objs[i] \in Range(r.objs)
    BY <2>1 DEF Range
  <2> QED BY <1>1, <1>3, <2>1, <2>2
<1> QED BY <1>1, <1>2, <1>3

LEMMA WaitPassServes ==
    ASSUME IInv, TakenOK, NEW t \in Thread, NEW r \in WaitRequest,
           state[t] = "running" \/ (state[t] = "returning" /\ result[t] = "kernelApc"),
           WaitPass(t, r)
    PROVE  Serving /\ TakenOK'
<1>1. /\ taken \in [Thread -> SUBSET Object] /\ state \in [Thread -> States]
      /\ result \in [Thread -> Results]
      /\ request \in [Thread -> WaitRequest \cup {NoRequest}] /\ TypeOK
  BY DEF IInv, TypeOK
<1>2. taken[t] = {} /\ ~Waiting(t)
  BY DEF TakenOK, Waiting, IInv, RequestOK
<1>3. ASSUME NEW status, EndAtOnce(t, r, status, {}), UNCHANGED objVars
      PROVE  Serving /\ TakenOK'
  <2>1. /\ UNCHANGED signal /\ taken' = [taken EXCEPT ![t] = {}]
        /\ state' = [state EXCEPT ![t] = "returning"]
        /\ result' = [result EXCEPT ![t] = status]
    BY <1>3 DEF EndAtOnce, objVars
  <2>2. TakenOK'
    BY <1>1, <2>1 DEF TakenOK
  <2> QED BY <1>1, <2>1, <2>2, NothingTaken DEF Serving
<1>4. CASE ApcFirst(t, r) \/ RaiseLimit(t, r) \/ Interrupted(t, r) \/ TimedOut(t, r)
  BY <1>3, <1>4 DEF ApcFirst, RaiseLimit, Interrupted, TimedOut
<1>5. CASE TakeNow(t, r)
  <2>1. PICK S \in Claims(t, r) : /\ Satisfy(t, S)
                                  /\ EndAtOnce(t, r, SatisfiedStatus(S), S)
    BY <1>5 DEF TakeNow
  <2>2. /\ taken' = [taken EXCEPT ![t] = S] /\ request' = [request EXCEPT ![t] = r]
        /\ state' = [state EXCEPT ![t] = "returning"]
        /\ result' = [result EXCEPT ![t] = SatisfiedStatus(S)]
    BY <2>1 DEF EndAtOnce
  <2>3. /\ S \in SUBSET Object /\ S # {} /\ \A o \in S : Available(o, t)
        /\ r.all => S = Range(r.objs)
        /\ ~r.all => \E o \in Range(r.objs) : S = {o}
    BY <2>1, ClaimShape
  <2>4. request'[t] = r /\ result'[t] = SatisfiedStatus(S)
    BY <1>1, <2>2
  <2>5. Takes(t, S)
    BY <1>2, <2>1, <2>2, <2>3, <2>4 DEF Takes
  <2>6. SatisfiedStatus(S) # "kernelApc"
    BY DEF SatisfiedStatus
  <2>7. TakenOK'
    BY <1>1, <2>2, <2>6 DEF TakenOK
  <2> QED BY <2>3, <2>5, <2>7 DEF Serving
<1>6. CASE Block(t, r)
  <2>1. /\ UNCHANGED signal /\ taken' = [taken EXCEPT ![t] = {}]
        /\ state' = [state EXCEPT ![t] = "waiting"]
        /\ result' = [result EXCEPT ![t] = "none"]
    BY <1>6 DEF Block, objVars
  <2>2. TakenOK'
    BY <1>1, <2>1 DEF TakenOK
  <2> QED BY <1>1, <2>1, <2>2, NothingTaken DEF Serving
<1> QED BY <1>4, <1>5, <1>6 DEF WaitPass

LEMMA EndWaitServes ==
    ASSUME IInv, TakenOK, NEW t \in Thread, NEW status \in Results,
           Waiting(t), Unwait(t, status, {}), UNCHANGED objVars
    PROVE  Serving /\ TakenOK'
<1>1. /\ UNCHANGED signal /\ taken' = [taken EXCEPT ![t] = {}]
      /\ state' = [state EXCEPT ![t] = "returning"]
      /\ result' = [result EXCEPT ![t] = status]
  BY DEF Unwait, objVars
<1>2. TakenOK'
  BY <1>1 DEF TakenOK, IInv, TypeOK
<1> QED BY <1>1, <1>2, NothingTaken DEF Serving, IInv

(* A step that ends no wait. *)
LEMMA QuietServes ==
    ASSUME TakenOK, NobodyServed, UNCHANGED waitVars
    PROVE  Serving /\ TakenOK'
BY DEF Serving, TakenOK, waitVars

(* A thread that is in no wait moves on. *)
LEMMA LifeServes ==
    ASSUME IInv, TakenOK, NEW t \in Thread, state[t] # "returning", NEW new,
           state' = [state EXCEPT ![t] = new], UNCHANGED <<signal, taken, result>>
    PROVE  Serving /\ TakenOK'
<1>1. TakenOK'
  BY DEF TakenOK, IInv, TypeOK
<1> QED BY <1>1, NothingTaken DEF Serving, IInv

LEMMA SetEventServes ==
    ASSUME IInv, TakenOK, NEW c, NEW e \in Event, NEW keep \in BOOLEAN,
           KeSetEvent(c, e, keep)
    PROVE  Serving /\ TakenOK'
<1>1. e \in Object /\ e \notin Semaphore /\ TypeOK
  BY KeWaitAssumption DEF Object, Event, IInv
<1>2. CASE SetSignal(e, 1) /\ UNCHANGED waitVars
  <2>1. UNCHANGED taken
    BY <1>2 DEF waitVars
  <2> QED BY <1>1, <1>2, <2>1, SignalRaised, QuietServes
<1>3. CASE UNCHANGED <<signal, waitVars>>
  <2>1. NobodyServed
    BY <1>1, <1>3 DEF NobodyServed, Served, waitVars, TypeOK, Object
  <2> QED BY <1>3, <2>1, QuietServes
<1>4. CASE /\ waitList[e] # <<>>
           /\ e \in Synchronization /\ ~request[Head(waitList[e])].all
           /\ Unwait(Head(waitList[e]), "satisfied", {e})
           /\ UNCHANGED signal
  <2> DEFINE t == Head(waitList[e])
  <2>1. t \in Thread /\ e \in Range(request[t].objs) /\ t = Head(waitList[e])
    BY <1>1, <1>4, EventHead
  <2>2. ~request[t].all /\ Unwait(t, "satisfied", {e})
    BY <1>4
  <2> HIDE DEF t
  <2>3. /\ state' = [state EXCEPT ![t] = "returning"]
        /\ result' = [result EXCEPT ![t] = "satisfied"]
        /\ taken' = [taken EXCEPT ![t] = {e}] /\ request' = request
    BY <2>2 DEF Unwait
  <2>4. result'[t] = "satisfied"
    BY <1>1, <2>1, <2>3 DEF TypeOK
  <2>5. HandedOver(t, e)
    BY <1>4, <2>1, <2>2, <2>3, <2>4 DEF HandedOver, KeSetEvent
  <2>6. TakenOK'
    BY <1>1, <2>1, <2>3 DEF TakenOK, TypeOK
  <2> QED BY <1>4, <2>1, <2>5, <2>6 DEF Serving
<1> QED BY <1>2, <1>3, <1>4 DEF KeSetEvent

LEMMA ScanStepServes ==
    ASSUME IInv, TakenOK, ScanStep
    PROVE  Serving /\ TakenOK'
<1> DEFINE t == Head(scanRest)
<1>1. scanObj # NoObject /\ signal[scanObj] > 0 /\ scanRest # <<>>
  BY DEF ScanStep
<1>2. t \in Thread /\ Waiting(t) /\ scanObj \in Range(request[t].objs)
      /\ scanObj \in Object /\ t = Head(scanRest)
  BY <1>1, ScanHead
<1>3. \/ /\ request[t].all => Satisfiable(t, request[t])
         /\ Satisfy(t, ScanClaim(t))
         /\ Unwait(t, SatisfiedStatus(ScanClaim(t)), ScanClaim(t))
      \/ UNCHANGED <<objVars, waitVars>>
  BY DEF ScanStep
<1> HIDE DEF t
<1>4. CASE /\ request[t].all => Satisfiable(t, request[t])
           /\ Satisfy(t, ScanClaim(t))
           /\ Unwait(t, SatisfiedStatus(ScanClaim(t)), ScanClaim(t))
  <2> DEFINE S == ScanClaim(t)
  <2>1. Takes(t, S)
    BY <1>1, <1>2, <1>4, ScanTakes
  <2>2. S \in SUBSET Object
    BY <2>1 DEF Takes
  <2>3. SatisfiedStatus(S) # "kernelApc"
    BY DEF SatisfiedStatus
  <2>4. Unwait(t, SatisfiedStatus(S), S)
    BY <1>4
  <2> HIDE DEF S
  <2>5. TakenOK'
    BY <1>2, <2>3, <2>4 DEF TakenOK, Unwait, IInv, TypeOK
  <2> QED BY <1>2, <2>1, <2>2, <2>5 DEF Serving
<1>5. CASE UNCHANGED <<objVars, waitVars>>
  <2>1. NobodyServed
    BY <1>5 DEF NobodyServed, Served, objVars, waitVars, IInv, TypeOK, Object
  <2> QED BY <1>5, <2>1, QuietServes
<1> QED BY <1>3, <1>4, <1>5

LEMMA StepServes ==
    ASSUME IInv, TakenOK, [Next]_vars
    PROVE  Serving /\ TakenOK'
<1>1. TypeOK /\ {"timeout", "alerted", "userApc", "kernelApc"} \subseteq Results
  BY DEF IInv, Results
<1>2. ASSUME UNCHANGED <<signal, waitVars>> PROVE Serving /\ TakenOK'
  <2>1. NobodyServed
    BY <1>1, <1>2 DEF NobodyServed, Served, waitVars, TypeOK, Object
  <2> QED BY <1>2, <2>1, QuietServes
<1>3. ASSUME NEW o \in Object, NEW n \in Int, SetSignal(o, n),
             o \in Semaphore => n >= signal[o], UNCHANGED waitVars
      PROVE  Serving /\ TakenOK'
  BY <1>1, <1>3, SignalRaised, QuietServes DEF waitVars
<1>4. /\ Event \subseteq Object \ Semaphore /\ Mutant \subseteq Object \ Semaphore
      /\ Thread \subseteq Object \ Semaphore /\ Semaphore \subseteq Object
  BY KeWaitAssumption DEF Object, Event
<1>5. ASSUME NEW t \in Thread, NEW r \in WaitRequest, Wait(t, r)
      PROVE  Serving /\ TakenOK'
  BY <1>5, WaitPassServes DEF Wait
<1>6. ASSUME NEW t \in Thread, Rewait(t) PROVE Serving /\ TakenOK'
  <2>1. request[t] \in WaitRequest
    BY <1>6 DEF IInv, RequestOK, Rewait
  <2> QED BY <1>6, <2>1, WaitPassServes DEF Rewait
<1>7. ASSUME NEW t \in Thread, Return(t) PROVE Serving /\ TakenOK'
  <2>1. UNCHANGED signal /\ taken' = [taken EXCEPT ![t] = {}]
        /\ state' = [state EXCEPT ![t] = "running"]
        /\ result' = [result EXCEPT ![t] = "none"]
    BY <1>7 DEF Return, objVars
  <2>2. TakenOK'
    BY <1>1, <2>1 DEF TakenOK, TypeOK
  <2> QED BY <1>1, <2>1, <2>2, NothingTaken DEF Serving
<1>8. ASSUME NEW t \in Thread, KeRundownThread(t) \/ KeFlushQueueApc(t)
      PROVE  Serving /\ TakenOK'
  <2>1. /\ state[t] # "returning" /\ UNCHANGED <<signal, taken, result>>
        /\ \E new : state' = [state EXCEPT ![t] = new]
    BY <1>8, KeWaitAssumption DEF KeRundownThread, KeFlushQueueApc, CanCall, objVars
  <2> QED BY <2>1, LifeServes
<1>9. ASSUME NEW t \in Thread, KeTerminateThread(t) PROVE Serving /\ TakenOK'
  BY <1>3, <1>4, <1>9 DEF KeTerminateThread
<1>10. ASSUME NEW t \in Thread, RemoveUserApc(t) \/ \E mode : KeTestAlertThread(t, mode)
       PROVE  Serving /\ TakenOK'
  BY <1>2, <1>10 DEF RemoveUserApc, KeTestAlertThread, objVars
<1>11. ASSUME NEW t \in Thread,
              \/ TimerExpire(t) \/ InsertUserApc(t) \/ InsertKernelApc(t)
              \/ \E mode : KeAlertThread(t, mode)
       PROVE  Serving /\ TakenOK'
  <2>1. UNCHANGED objVars
    BY <1>11 DEF TimerExpire, InsertUserApc, InsertKernelApc, KeAlertThread
  <2>2. CASE UNCHANGED waitVars
    BY <1>2, <2>1, <2>2 DEF objVars
  <2>3. CASE Waiting(t) /\ \E status \in Results : Unwait(t, status, {})
    BY <2>1, <2>3, EndWaitServes
  <2>4. TimerExpire(t) => Waiting(t)
    BY DEF TimerExpire, IInv, WaitLinkage, Waiting
  <2> QED BY <1>1, <1>11, <2>2, <2>3, <2>4
          DEF TimerExpire, InsertUserApc, InsertKernelApc, KeAlertThread, WaitsIn, Waiting
<1>12. ASSUME NEW c, NEW e \in Event, NEW keep \in BOOLEAN, KeSetEvent(c, e, keep)
       PROVE  Serving /\ TakenOK'
  BY <1>12, SetEventServes
<1>13. ASSUME NEW c, NEW e \in Event, NEW keep,
              KePulseEvent(c, e, keep) \/ KeResetEvent(c, e)
       PROVE  Serving /\ TakenOK'
  BY <1>3, <1>4, <1>13 DEF KePulseEvent, KeResetEvent
<1>14. ASSUME NEW c, NEW s \in Semaphore, NEW n \in 1..Limit, NEW keep,
              KeReleaseSemaphore(c, s, n, keep)
       PROVE  Serving /\ TakenOK'
  <2>1. signal[s] \in Int /\ n \in Int /\ n >= 0
    BY <1>1, <1>4, KeWaitAssumption DEF TypeOK
  <2>2. signal[s] + n \in Int /\ signal[s] + n >= signal[s]
    BY <2>1
  <2> QED BY <1>3, <1>4, <1>14, <2>2 DEF KeReleaseSemaphore
<1>15. ASSUME NEW t, NEW m \in Mutant, NEW b \in BOOLEAN,
              KeReleaseMutant(t, m, b) \/ RecycleMutant(t, m, b)
       PROVE  Serving /\ TakenOK'
  <2>1. UNCHANGED waitVars /\ signal[m] + 1 \in Int
        /\ \E n \in {signal[m] + 1, 0, 1} : SetSignal(m, n)
    BY <1>1, <1>4, <1>15 DEF KeReleaseMutant, RecycleMutant, TypeOK
  <2>2. \E n \in Int : SetSignal(m, n)
    BY <2>1
  <2> QED BY <1>3, <1>4, <2>1, <2>2
<1>16. CASE ScanStep
  BY <1>16, ScanStepServes
<1>17. CASE FinishSignal
  <2>1. UNCHANGED waitVars
        /\ \/ UNCHANGED signal
           \/ after \in {"pulse", "pulseKeep"} /\ SetSignal(scanObj, 0)
    BY <1>17 DEF FinishSignal
  <2>2. after \in {"pulse", "pulseKeep"} => scanObj \in Event
    BY DEF IInv, LockOK
  <2>3. CASE scanObj \in Event /\ SetSignal(scanObj, 0)
    BY <1>3, <1>4, <2>1, <2>3
  <2> QED BY <1>2, <2>1, <2>2, <2>3
<1>18. CASE Terminated
  <2>1. lockOwner \in Thread /\ state[lockOwner] # "returning"
    BY <1>18 DEF Terminated, IInv, LockOK
  <2> QED BY <1>18, <2>1, LifeServes DEF Terminated, objVars
<1>19. CASE NextMutant \/ RundownDone
  BY <1>2, <1>19 DEF NextMutant, RundownDone, objVars
<1>20. ASSUME NEW m \in Mutant, AbandonNext(m) PROVE Serving /\ TakenOK'
  BY <1>3, <1>4, <1>20 DEF AbandonNext
<1>21. CASE UNCHANGED vars
  BY <1>2, <1>21 DEF vars, objVars
<1> QED BY <1>5, <1>6, <1>7, <1>8, <1>9, <1>10, <1>11, <1>12, <1>13, <1>14, <1>15,
           <1>16, <1>17, <1>18, <1>19, <1>20, <1>21
        DEF Next, Signal, Reset, UseMutant, Scan, Rundown, Exit

THEOREM OneTaking == Spec => [](IInv /\ TakenOK)
<1>1. Init => TakenOK
  BY DEF Init, TakenOK
<1>2. IInv /\ TakenOK /\ [Next]_vars => TakenOK'
  BY StepServes
<1> QED BY <1>1, <1>2, Inductive, PTL DEF Spec

-----------------------------------------------------------------------------
(* What is taken, and what the taker is told. *)
Told(t) ==
    result'[t] = "abandoned" <=>
        \E m \in taken'[t] \cap Mutant : abandoned[m] /\ ~abandoned'[m]

TookAll(t) ==
    /\ result'[t] \in {"satisfied", "abandoned"}
    /\ request'[t].all => taken'[t] = Range(request'[t].objs)
    /\ ~request'[t].all => \E o \in Range(request'[t].objs) : taken'[t] = {o}
    /\ \A m \in taken'[t] \cap Mutant : owner'[m] = t

Winners(s) == {t \in Thread : Served(t) /\ s \in taken'[t]}

OneUnit(s) ==
    \/ Winners(s) = {} /\ signal'[s] >= signal[s]
    \/ \E t \in Winners(s) : Winners(s) = {t} /\ signal'[s] = signal[s] - 1

LEMMA TakesTold ==
    ASSUME IInv, NEW t \in Thread, NEW S \in SUBSET Object, Takes(t, S)
    PROVE  /\ taken'[t] = S /\ Told(t) /\ TookAll(t)
           /\ \A u \in Thread \ {t} : ~Served(u)
           /\ \A s \in Semaphore : signal'[s] = IF s \in S THEN signal[s] - 1
                                                  ELSE signal[s]
<1>1. /\ taken' = [taken EXCEPT ![t] = S] /\ result'[t] = SatisfiedStatus(S)
      /\ \A o \in S : Available(o, t)
      /\ signal' = [o \in Object |-> IF o \in S THEN Consumed(o) ELSE signal[o]]
      /\ owner' = [m \in Mutant |-> IF m \in Acquired(S) THEN t ELSE owner[m]]
      /\ abandoned' = [m \in Mutant |-> abandoned[m] /\ m \notin Acquired(S)]
  BY DEF Takes, Satisfy
<1>2. taken'[t] = S /\ \A u \in Thread \ {t} : taken'[u] = taken[u]
  BY <1>1 DEF IInv, TypeOK
<1>3. \A u \in Thread \ {t} : ~Served(u)
  BY <1>2 DEF Served
<1>4. Acquired(S) \subseteq S \cap Mutant
  BY DEF Acquired
<1>5. \A m \in Mutant : abandoned'[m] <=> abandoned[m] /\ m \notin Acquired(S)
  BY <1>1
<1>6. result'[t] = "abandoned" <=> \E m \in Acquired(S) : abandoned[m]
  BY <1>1 DEF SatisfiedStatus
<1>7. Told(t)
  BY <1>2, <1>4, <1>5, <1>6 DEF Told
<1>8. ASSUME NEW m \in S \cap Mutant PROVE owner'[m] = t
  <2>1. owner'[m] = IF m \in Acquired(S) THEN t ELSE owner[m]
    BY <1>1
  <2>2. signal[m] \in Int /\ signal[m] <= 1
    BY KeWaitAssumption DEF IInv, MutantOwnership
  <2>3. signal[m] > 0 => m \in Acquired(S)
    BY <2>2 DEF Acquired
  <2>4. signal[m] > 0 \/ owner[m] = t
    BY <1>1 DEF Available
  <2> QED BY <2>1, <2>3, <2>4
<1>9. TookAll(t)
  <2>1. result'[t] \in {"satisfied", "abandoned"}
    BY <1>1 DEF SatisfiedStatus
  <2> QED BY <1>2, <1>8, <2>1 DEF TookAll, Takes
<1>10. \A s \in Semaphore : Consumed(s) = signal[s] - 1 /\ s \in Object
  BY KeWaitAssumption DEF Consumed, Object
<1> QED BY <1>1, <1>2, <1>3, <1>7, <1>9, <1>10

LEMMA HandedOverTold ==
    ASSUME IInv, NEW t \in Thread, NEW e \in Synchronization, HandedOver(t, e)
    PROVE  /\ taken'[t] = {e} /\ Told(t) /\ TookAll(t)
           /\ \A u \in Thread \ {t} : ~Served(u)
<1>1. taken'[t] = {e} /\ \A u \in Thread \ {t} : taken'[u] = taken[u]
  BY DEF HandedOver, IInv, TypeOK
<1>2. e \notin Mutant
  BY KeWaitAssumption
<1> QED BY <1>1, <1>2 DEF HandedOver, Served, Told, TookAll

(* The thread that gets a mutant its owner left behind when it was run     *)
(* down is the one KiWaitSatisfyMutant tells, and no other is told, on     *)
(* every path by which a wait is satisfied.                                *)
THEOREM AbandonmentIsTold == Spec => AbandonmentTold
<1>1. IInv /\ TakenOK /\ [Next]_vars => \A t \in Thread : Served(t) => Told(t)
  <2> SUFFICES ASSUME IInv, TakenOK, [Next]_vars, NEW t \in Thread, Served(t)
               PROVE  Told(t)
    OBVIOUS
  <2>1. Serving
    BY StepServes
  <2>2. ASSUME NEW u \in Thread, NEW S \in SUBSET Object, Takes(u, S) PROVE Told(t)
    BY <2>2, TakesTold
  <2>3. ASSUME NEW u \in Thread, NEW e \in Synchronization, HandedOver(u, e)
        PROVE  Told(t)
    BY <2>3, HandedOverTold
  <2> QED BY <2>1, <2>2, <2>3 DEF Serving, NobodyServed
<1>2. IInv /\ TakenOK /\ [Next]_vars =>
        \A t \in Thread : Served(t) =>
            (result'[t] = "abandoned" <=>
                \E m \in taken'[t] \cap Mutant : abandoned[m] /\ ~abandoned'[m])
  BY <1>1 DEF Told
<1> QED BY <1>2, OneTaking, PTL DEF Spec, AbandonmentTold

(* No unit of a semaphore serves two waits or is lost without serving one, *)
(* and a WaitAll takes all of its objects in one step or none: nobody sees *)
(* or keeps half of them, whatever ends the other waits meanwhile.         *)
THEOREM WaitsTakeAll == Spec => AllOrNothing
<1>1. IInv /\ TakenOK /\ [Next]_vars =>
        /\ \A s \in Semaphore : OneUnit(s)
        /\ \A t \in Thread : Served(t) => TookAll(t)
  <2> SUFFICES ASSUME IInv, TakenOK, [Next]_vars
               PROVE  /\ \A s \in Semaphore : OneUnit(s)
                      /\ \A t \in Thread : Served(t) => TookAll(t)
    OBVIOUS
  <2>1. Serving /\ TypeOK
    BY StepServes DEF IInv
  <2>2. ASSUME NEW t \in Thread, NEW S \in SUBSET Object, Takes(t, S)
        PROVE  /\ \A s \in Semaphore : OneUnit(s)
               /\ \A u \in Thread : Served(u) => TookAll(u)
    <3>1. /\ taken'[t] = S /\ TookAll(t)
          /\ \A u \in Thread \ {t} : ~Served(u)
          /\ \A s \in Semaphore : signal'[s] = IF s \in S THEN signal[s] - 1
                                                 ELSE signal[s]
      BY <2>2, TakesTold
    <3>2. Served(t)
      BY <2>2, <3>1 DEF Takes, Served
    <3>3. \A s \in Semaphore : Winners(s) = IF s \in S THEN {t} ELSE {}
      BY <3>1, <3>2 DEF Winners
    <3>4. \A s \in Semaphore : signal[s] \in Int
      BY <2>1 DEF TypeOK, Object
    <3>5. ASSUME NEW s \in Semaphore PROVE OneUnit(s)
      <4>1. CASE s \in S
        <5>1. Winners(s) = {t} /\ signal'[s] = signal[s] - 1
          BY <3>1, <3>3, <4>1
        <5> QED BY <5>1 DEF OneUnit
      <4>2. CASE s \notin S
        <5>1. Winners(s) = {} /\ signal'[s] = signal[s] /\ signal[s] \in Int
          BY <3>1, <3>3, <3>4, <4>2
        <5> QED BY <5>1 DEF OneUnit
      <4> QED BY <4>1, <4>2
    <3> QED BY <3>1, <3>5
  <2>3. ASSUME NEW t \in Thread, NEW e \in Synchronization, HandedOver(t, e)
        PROVE  /\ \A s \in Semaphore : OneUnit(s)
               /\ \A u \in Thread : Served(u) => TookAll(u)
    <3>1. /\ taken'[t] = {e} /\ TookAll(t) /\ \A u \in Thread \ {t} : ~Served(u)
      BY <2>3, HandedOverTold
    <3>2. \A s \in Semaphore : s # e /\ signal'[s] = signal[s] /\ signal[s] \in Int
      BY <2>1, <2>3, KeWaitAssumption DEF HandedOver, TypeOK, Object
    <3>3. \A s \in Semaphore : Winners(s) = {}
      BY <3>1, <3>2 DEF Winners
    <3> QED BY <3>1, <3>2, <3>3 DEF OneUnit
  <2>4. CASE NobodyServed
    <3>1. \A s \in Semaphore : Winners(s) = {}
      BY <2>4 DEF NobodyServed, Winners
    <3> QED BY <2>4, <3>1 DEF NobodyServed, OneUnit
  <2> QED BY <2>1, <2>2, <2>3, <2>4 DEF Serving
<1> QED BY <1>1, OneTaking, PTL DEF Spec, AllOrNothing, TookAll, OneUnit, Winners

-----------------------------------------------------------------------------
(* The order of service: all wait lists name the threads in one order, the *)
(* order their waits began in, and KiWaitTest goes through its list in     *)
(* that order.                                                             *)
OrderOK ==
    \A o, p \in Object : \A a, b \in Thread :
        ~(Before(waitList[o], a, b) /\ Before(waitList[p], b, a))

ScanOrder ==
    scanObj # NoObject =>
        \A i, j \in DOMAIN scanRest :
            i < j => ~Before(waitList[scanObj], scanRest[j], scanRest[i])

ListsLose(t) == waitList' = [o \in Object |-> Unlink(waitList[o], t)]

ListsGain(t, Q) ==
    /\ waitList' = [o \in Object |-> IF o \in Q THEN Append(waitList[o], t)
                                     ELSE waitList[o]]
    /\ \A o \in Object : t \notin Range(waitList[o])

ListStep ==
    \/ UNCHANGED waitList
    \/ \E t \in Thread : ListsLose(t)
    \/ \E t \in Thread, Q \in SUBSET Object : ListsGain(t, Q)

(* One after the other on a list: they were before, or the latter is new.  *)
LEMMA ListsKeepOrder ==
    ASSUME TypeOK, ListStep, NEW o \in Object,
           NEW i \in DOMAIN waitList'[o], NEW j \in DOMAIN waitList'[o], i < j
    PROVE  \/ Before(waitList[o], waitList'[o][i], waitList'[o][j])
           \/ /\ waitList'[o][j] \notin Range(waitList[o])
              /\ waitList'[o][i] \in Range(waitList[o])
              /\ \A p \in Object : waitList'[o][j] \notin Range(waitList[p])
<1>1. waitList[o] \in Seq(Thread)
  BY DEF TypeOK
<1>2. CASE UNCHANGED waitList
  BY <1>2 DEF Before
<1>3. ASSUME NEW t \in Thread, ListsLose(t)
      PROVE  Before(waitList[o], waitList'[o][i], waitList'[o][j])
  <2>1. waitList'[o] = Unlink(waitList[o], t)
    BY <1>3 DEF ListsLose
  <2>2. \E k, l \in DOMAIN waitList[o] :
          /\ k < l /\ waitList[o][k] = Unlink(waitList[o], t)[i]
          /\ waitList[o][l] = Unlink(waitList[o], t)[j]
    BY <1>1, <2>1, UnlinkKeepsOrder
  <2> QED BY <2>1, <2>2 DEF Before
<1>4. ASSUME NEW t \in Thread, NEW Q \in SUBSET Object, ListsGain(t, Q), o \in Q
      PROVE  \/ Before(waitList[o], waitList'[o][i], waitList'[o][j])
             \/ waitList'[o][j] = t /\ waitList'[o][i] \in Range(waitList[o])
  <2>1. waitList'[o] = Append(waitList[o], t)
    BY <1>4 DEF ListsGain
  <2>2. \/ \E k, l \in DOMAIN waitList[o] :
             /\ k < l /\ waitList[o][k] = Append(waitList[o], t)[i]
             /\ waitList[o][l] = Append(waitList[o], t)[j]
        \/ /\ Append(waitList[o], t)[j] = t
           /\ Append(waitList[o], t)[i] \in Range(waitList[o])
    BY <1>1, <2>1, AppendKeepsOrder
  <2> QED BY <2>1, <2>2 DEF Before
<1>5. ASSUME NEW t \in Thread, NEW Q \in SUBSET Object, ListsGain(t, Q), o \notin Q
      PROVE  Before(waitList[o], waitList'[o][i], waitList'[o][j])
  <2>1. waitList'[o] = waitList[o]
    BY <1>5 DEF ListsGain
  <2> QED BY <2>1 DEF Before
<1>6. \A t : (\E Q : ListsGain(t, Q)) => \A p \in Object : t \notin Range(waitList[p])
  BY DEF ListsGain
<1> QED BY <1>2, <1>3, <1>4, <1>5, <1>6 DEF ListStep

LEMMA BeforeKept ==
    ASSUME TypeOK, ListStep, NEW o \in Object, NEW a, NEW b, Before(waitList'[o], a, b)
    PROVE  \/ Before(waitList[o], a, b)
           \/ a \in Range(waitList[o]) /\ \A p \in Object : b \notin Range(waitList[p])
<1>1. PICK i, j \in DOMAIN waitList'[o] :
        i < j /\ waitList'[o][i] = a /\ waitList'[o][j] = b
  BY DEF Before
<1> QED BY <1>1, ListsKeepOrder

LEMMA BeforeInside ==
    ASSUME NEW s, NEW a, NEW b, Before(s, a, b)
    PROVE  a \in Range(s) /\ b \in Range(s)
BY DEF Before, Range

LEMMA OrderKept ==
    ASSUME TypeOK, OrderOK, ListStep
    PROVE  OrderOK'
<1> SUFFICES ASSUME NEW o \in Object, NEW p \in Object, NEW a \in Thread, NEW b \in Thread,
                    Before(waitList'[o], a, b), Before(waitList'[p], b, a)
             PROVE  FALSE
  BY DEF OrderOK
<1>1. \/ Before(waitList[o], a, b)
      \/ a \in Range(waitList[o]) /\ \A q \in Object : b \notin Range(waitList[q])
  BY BeforeKept
<1>2. \/ Before(waitList[p], b, a)
      \/ b \in Range(waitList[p]) /\ \A q \in Object : a \notin Range(waitList[q])
  BY BeforeKept
<1>3. Before(waitList[o], a, b) => a \in Range(waitList[o]) /\ b \in Range(waitList[o])
  BY BeforeInside
<1>4. Before(waitList[p], b, a) => a \in Range(waitList[p]) /\ b \in Range(waitList[p])
  BY BeforeInside
<1> QED BY <1>1, <1>2, <1>3, <1>4 DEF OrderOK

-----------------------------------------------------------------------------
LEMMA WaitPassLists ==
    ASSUME IInv, NEW t \in Thread, NEW r \in WaitRequest,
           state[t] \in {"running", "returning"}, WaitPass(t, r)
    PROVE  ListStep
<1>1. CASE ApcFirst(t, r) \/ RaiseLimit(t, r) \/ TakeNow(t, r)
           \/ Interrupted(t, r) \/ TimedOut(t, r)
  BY <1>1 DEF ApcFirst, RaiseLimit, TakeNow, Interrupted, TimedOut, EndAtOnce, ListStep
<1>2. CASE Block(t, r)
  <2>1. waitList' = [o \in Object |-> IF o \in Range(r.objs)
                                      THEN Append(waitList[o], t) ELSE waitList[o]]
    BY <1>2 DEF Block
  <2>2. \A o \in Object : t \notin Range(waitList[o])
    BY DEF IInv, WaitLinkage
  <2>3. Range(r.objs) \in SUBSET Object
    BY RequestObjects
  <2> QED BY <2>1, <2>2, <2>3 DEF ListsGain, ListStep
<1> QED BY <1>1, <1>2 DEF WaitPass

(* What each step does to the lists and to the scan. *)
ScanMoves ==
    \/ scanObj' = NoObject
    \/ UNCHANGED <<scanObj, scanRest, waitList>>
    \/ /\ scanObj' \in Object /\ scanRest' = waitList[scanObj']
       /\ UNCHANGED waitList
    \/ ScanStep

LEMMA StepLists ==
    ASSUME IInv, [Next]_vars
    PROVE  ListStep /\ ScanMoves
<1>1. lockOwner = NoThread => scanObj = NoObject
  BY DEF IInv, LockOK
<1>2. ASSUME UNCHANGED <<waitList, scanObj, scanRest>> PROVE ListStep /\ ScanMoves
  BY <1>2 DEF ListStep, ScanMoves
<1>3. ASSUME NEW c, NEW o \in Object, NEW next, WaitTest(c, o, next), UNCHANGED waitList
      PROVE  ListStep /\ ScanMoves
  BY <1>3 DEF ListStep, ScanMoves, WaitTest
<1>4. ASSUME NEW t \in Thread, NEW status, NEW S, Unwait(t, status, S)
      PROVE  ListStep
  BY <1>4 DEF Unwait, ListStep, ListsLose
<1>5. /\ Event \subseteq Object /\ Mutant \subseteq Object
      /\ Thread \subseteq Object /\ Semaphore \subseteq Object
  BY DEF Object, Event
<1>6. ASSUME NEW t \in Thread, NEW r \in WaitRequest, Wait(t, r)
      PROVE  ListStep /\ ScanMoves
  <2>1. ListStep
    BY <1>6, WaitPassLists DEF Wait
  <2>2. scanObj = NoObject /\ UNCHANGED scanObj
    BY <1>1, <1>6 DEF Wait, WaitPass, scanVars
  <2> QED BY <2>1, <2>2 DEF ScanMoves
<1>7. ASSUME NEW t \in Thread, Rewait(t) PROVE ListStep /\ ScanMoves
  <2>1. request[t] \in WaitRequest
    BY <1>7 DEF IInv, RequestOK, Rewait
  <2>2. ListStep
    BY <1>7, <2>1, WaitPassLists DEF Rewait
  <2>3. scanObj = NoObject /\ UNCHANGED scanObj
    BY <1>1, <1>7 DEF Rewait, WaitPass, scanVars
  <2> QED BY <2>2, <2>3 DEF ScanMoves
<1>8. ASSUME NEW t \in Thread,
             \/ Return(t) \/ KeRundownThread(t) \/ KeFlushQueueApc(t)
             \/ RemoveUserApc(t) \/ \E mode : KeTestAlertThread(t, mode)
      PROVE  ListStep /\ ScanMoves
  BY <1>2, <1>8 DEF Return, KeRundownThread, KeFlushQueueApc, RemoveUserApc,
                    KeTestAlertThread, waitVars, scanVars
<1>9. ASSUME NEW t \in Thread, KeTerminateThread(t) PROVE ListStep /\ ScanMoves
  BY <1>3, <1>5, <1>9 DEF KeTerminateThread, waitVars
<1>10. ASSUME NEW t \in Thread,
              \/ TimerExpire(t) \/ InsertUserApc(t) \/ InsertKernelApc(t)
              \/ \E mode : KeAlertThread(t, mode)
       PROVE  ListStep /\ ScanMoves
  <2>1. scanObj' = NoObject
    BY <1>1, <1>10 DEF TimerExpire, InsertUserApc, InsertKernelApc, KeAlertThread, scanVars
  <2>2. UNCHANGED waitVars => ListStep
    BY DEF waitVars, ListStep
  <2>3. (\E status, S : Unwait(t, status, S)) \/ UNCHANGED waitVars
    BY <1>10 DEF TimerExpire, InsertUserApc, InsertKernelApc, KeAlertThread
  <2> QED BY <1>4, <2>1, <2>2, <2>3 DEF ScanMoves
<1>11. ASSUME NEW c, NEW e \in Event, NEW keep \in BOOLEAN, KeSetEvent(c, e, keep)
       PROVE  ListStep /\ ScanMoves
  <2>1. CASE UNCHANGED <<waitVars, scanVars>>
    BY <1>2, <2>1 DEF waitVars, scanVars
  <2>2. CASE UNCHANGED waitVars /\ \E next : WaitTest(c, e, next)
    BY <1>3, <1>5, <2>2 DEF waitVars
  <2>3. CASE /\ waitList[e] # <<>> /\ Unwait(Head(waitList[e]), "satisfied", {e})
             /\ UNCHANGED scanVars
    <3>1. Head(waitList[e]) \in Thread
      BY <1>5, <2>3, EventHead
    <3>2. scanObj' = NoObject
      BY <1>1, <1>11, <2>3 DEF KeSetEvent, CanCall, scanVars
    <3> QED BY <1>4, <2>3, <3>1, <3>2 DEF ScanMoves
  <2> QED BY <1>11, <2>1, <2>2, <2>3 DEF KeSetEvent, Leave
<1>12. ASSUME NEW c, NEW o \in Object,
              \/ \E keep : KePulseEvent(c, o, keep)
              \/ \E n, keep : KeReleaseSemaphore(c, o, n, keep)
              \/ \E keep : KeReleaseMutant(c, o, keep)
       PROVE  ListStep /\ ScanMoves
  <2>1. UNCHANGED waitList
    BY <1>12 DEF KePulseEvent, KeReleaseSemaphore, KeReleaseMutant, waitVars
  <2>2. UNCHANGED scanVars \/ \E next : WaitTest(c, o, next)
    BY <1>12 DEF KePulseEvent, KeReleaseSemaphore, KeReleaseMutant, Leave
  <2> QED BY <1>2, <1>3, <2>1, <2>2 DEF scanVars
<1>13. ASSUME \/ \E c, e : KeResetEvent(c, e)
              \/ \E t, m, b : RecycleMutant(t, m, b)
       PROVE  ListStep /\ ScanMoves
  BY <1>2, <1>13 DEF KeResetEvent, RecycleMutant, waitVars, scanVars
<1>14. CASE ScanStep
  <2>1. scanObj # NoObject /\ scanRest # <<>>
    BY <1>14 DEF ScanStep
  <2>2. Head(scanRest) \in Thread
    BY <2>1, ScanHead
  <2>3. UNCHANGED waitList \/ \E status, S : Unwait(Head(scanRest), status, S)
    BY <1>14 DEF ScanStep, waitVars
  <2> QED BY <1>4, <1>14, <2>2, <2>3 DEF ScanMoves, ListStep
<1>15. CASE FinishSignal \/ NextMutant \/ Terminated
  BY <1>15 DEF FinishSignal, NextMutant, Terminated, EndScan, ScanMoves, ListStep, waitVars
<1>16. CASE RundownDone
  BY <1>2, <1>16 DEF RundownDone, waitVars
<1>17. ASSUME NEW m \in Mutant, AbandonNext(m) PROVE ListStep /\ ScanMoves
  BY <1>3, <1>5, <1>17 DEF AbandonNext, waitVars
<1>18. CASE UNCHANGED vars
  BY <1>2, <1>18 DEF vars, waitVars, scanVars
<1> QED BY <1>5, <1>6, <1>7, <1>8, <1>9, <1>10, <1>11, <1>12, <1>13, <1>14, <1>15,
           <1>16, <1>17, <1>18
        DEF Next, Signal, Reset, UseMutant, Scan, Rundown, Exit

LEMMA ScanOrderKept ==
    ASSUME IInv, ScanOrder, ListStep, ScanMoves
    PROVE  ScanOrder'
<1>1. TypeOK /\ WaitLinkage
  BY DEF IInv
<1>2. CASE scanObj' = NoObject
  BY <1>2 DEF ScanOrder
<1>3. CASE UNCHANGED <<scanObj, scanRest, waitList>>
  BY <1>3 DEF ScanOrder
<1>4. CASE /\ scanObj' \in Object /\ scanRest' = waitList[scanObj']
           /\ UNCHANGED waitList
  <2> DEFINE w == waitList[scanObj']
  <2>1. w \in Seq(Thread) /\ IsInjective(w)
    BY <1>1, <1>4 DEF TypeOK, WaitLinkage
  <2>2. \A i, j \in DOMAIN w : i < j => ~Before(w, w[j], w[i])
    <3> HIDE DEF w
    <3>1. DOMAIN w \subseteq Int
      BY <2>1
    <3> QED BY <2>1, <3>1 DEF Before, IsInjective
  <2> QED BY <1>4, <2>2 DEF ScanOrder
<1>5. CASE ScanStep
  <2>1. scanObj # NoObject /\ scanRest # <<>> /\ scanObj' = scanObj
        /\ scanRest' = Tail(scanRest)
    BY <1>5 DEF ScanStep
  <2>2. scanObj \in Object /\ scanRest \in Seq(Thread)
        /\ Range(scanRest) \subseteq Range(waitList[scanObj])
    BY <1>1, <2>1 DEF IInv, ScanOK, TypeOK
  <2>3. /\ \A i \in DOMAIN scanRest' : i + 1 \in DOMAIN scanRest
                                       /\ scanRest'[i] = scanRest[i + 1]
        /\ DOMAIN scanRest' \subseteq Int
    BY <2>1, <2>2
  <2> SUFFICES ASSUME NEW i \in DOMAIN scanRest', NEW j \in DOMAIN scanRest', i < j,
                      Before(waitList'[scanObj], scanRest'[j], scanRest'[i])
               PROVE  FALSE
    BY <2>1 DEF ScanOrder
  <2>4. scanRest'[i] \in Range(waitList[scanObj])
    BY <2>2, <2>3 DEF Range
  <2>5. Before(waitList[scanObj], scanRest'[j], scanRest'[i])
    BY <1>1, <2>2, <2>4, BeforeKept
  <2>6. i + 1 < j + 1
    BY <2>3
  <2> QED BY <2>1, <2>3, <2>5, <2>6 DEF ScanOrder
<1> QED BY <1>2, <1>3, <1>4, <1>5 DEF ScanMoves

THEOREM OneOrder == Spec => [](IInv /\ OrderOK /\ ScanOrder)
<1>1. Init => OrderOK /\ ScanOrder
  <2>1. Init => \A o \in Object : waitList[o] = <<>>
    BY DEF Init
  <2>2. \A a, b : ~Before(<<>>, a, b)
    BY DEF Before
  <2>3. Init => scanObj = NoObject
    BY DEF Init
  <2> QED BY <2>1, <2>2, <2>3 DEF OrderOK, ScanOrder
<1>2. IInv /\ OrderOK /\ ScanOrder /\ [Next]_vars => OrderOK' /\ ScanOrder'
  BY StepLists, OrderKept, ScanOrderKept DEF IInv
<1> QED BY <1>1, <1>2, Inductive, PTL DEF Spec

(* A signal that satisfies a wait passes over nobody: one who is ahead     *)
(* on the list and satisfiable would be before it in the scan as well.     *)
LEMMA ServedFirst ==
    ASSUME IInv, TakenOK, OrderOK, ScanOrder, [Next]_vars,
           NEW o \in Object, NEW j \in DOMAIN waitList[o], Waiting(waitList[o][j]),
           Served(waitList[o][j]), o \in taken'[waitList[o][j]], NEW i \in 1..(j - 1)
    PROVE  ~Satisfiable(waitList[o][i], request[waitList[o][i]])
<1> DEFINE t == waitList[o][j]
           u == waitList[o][i]
<1>1. waitList[o] \in Seq(Thread) /\ IsInjective(waitList[o])
  BY DEF IInv, TypeOK, WaitLinkage
<1>2. j \in 1..Len(waitList[o]) /\ i \in 1..Len(waitList[o]) /\ i < j
  BY <1>1
<1>3. t \in Range(waitList[o]) /\ u \in Range(waitList[o]) /\ t # u
  BY <1>1, <1>2 DEF Range, IsInjective
<1>4. t \in Thread /\ u \in Thread /\ Waiting(u) /\ o \in Range(request[u].objs)
  BY <1>3 DEF IInv, WaitLinkage, Waiting
<1>5. Before(waitList[o], u, t)
  BY <1>1, <1>2 DEF Before
<1>6. ASSUME NEW S \in SUBSET Object, NEW v \in Thread, Takes(v, S)
      PROVE  ~Satisfiable(u, request[u])
  <2>1. v = t
    BY <1>4, <1>6, TakesTold
  <2>2. scanObj # NoObject /\ scanRest # <<>> /\ t = Head(scanRest)
    BY <1>6, <2>1 DEF Takes
  <2>3. scanObj \in Object /\ scanRest \in Seq(Thread)
        /\ Range(scanRest) \subseteq Range(waitList[scanObj])
    BY <2>2 DEF IInv, ScanOK, TypeOK
  <2> SUFFICES ASSUME Satisfiable(u, request[u]) PROVE FALSE
    OBVIOUS
  <2> HIDE DEF t, u
  <2>4. u \in Range(scanRest)
    BY <1>4, SatisfiableScanned
  <2>5. PICK k \in 1..Len(scanRest) : scanRest[k] = u
    BY <2>3, <2>4 DEF Range
  <2>6. scanRest[1] = t /\ 1 \in DOMAIN scanRest /\ k \in DOMAIN scanRest /\ 1 < k
    BY <1>3, <2>2, <2>3, <2>5
  <2>7. ~Before(waitList[scanObj], u, t)
    BY <2>2, <2>5, <2>6 DEF ScanOrder
  <2>8. ~Before(waitList[scanObj], t, u)
    BY <1>4, <1>5, <2>3 DEF OrderOK
  <2>9. t \in Range(waitList[scanObj]) /\ u \in Range(waitList[scanObj])
    BY <2>3, <2>4, <2>6 DEF Range
  <2>10. waitList[scanObj] \in Seq(Thread)
    BY <2>3 DEF IInv, TypeOK
  <2>11. PICK m, n \in 1..Len(waitList[scanObj]) :
            waitList[scanObj][m] = t /\ waitList[scanObj][n] = u
    BY <2>9, <2>10 DEF Range
  <2>12. m < n \/ n < m
    BY <1>3, <2>10, <2>11 DEF t, u
  <2>13. m \in DOMAIN waitList[scanObj] /\ n \in DOMAIN waitList[scanObj]
    BY <2>10, <2>11
  <2> QED BY <2>7, <2>8, <2>11, <2>12, <2>13 DEF Before
<1>7. ASSUME NEW e \in Synchronization, NEW v \in Thread, HandedOver(v, e)
      PROVE  ~Satisfiable(u, request[u])
  <2>1. v = t /\ taken'[t] = {e}
    BY <1>4, <1>7, HandedOverTold
  <2>2. e = o /\ waitList[o] # <<>> /\ t = Head(waitList[o])
    BY <1>7, <2>1 DEF HandedOver
  <2>3. t = waitList[o][1] /\ 1 \in 1..Len(waitList[o])
    BY <1>1, <2>2
  <2> QED BY <1>1, <1>2, <2>3 DEF IsInjective
<1>8. Serving
  BY StepServes
<1> QED BY <1>4, <1>6, <1>7, <1>8 DEF Serving, NobodyServed

(* Waits are served in the order they began: those on a list never change  *)
(* places, a newcomer goes to the tail, and neither KeSetEvent nor the     *)
(* scan of KiWaitTest serves a wait while one that is ahead of it on the   *)
(* list of an object it takes could have been satisfied.                   *)
THEOREM WaitsServedInOrder == Spec => ServedInOrder
<1>1. IInv /\ TakenOK /\ OrderOK /\ ScanOrder /\ [Next]_vars =>
        \A o \in Object :
          /\ \A i, j \in DOMAIN waitList'[o] : i < j =>
                \/ Before(waitList[o], waitList'[o][i], waitList'[o][j])
                \/ waitList'[o][j] \notin Range(waitList[o])
          /\ \A j \in DOMAIN waitList[o] :
                LET t == waitList[o][j]
                IN  state[t] = "waiting" /\ Served(t) /\ o \in taken'[t] =>
                      \A i \in 1..(j - 1) :
                          ~Satisfiable(waitList[o][i], request[waitList[o][i]])
  <2> SUFFICES ASSUME IInv, TakenOK, OrderOK, ScanOrder, [Next]_vars, NEW o \in Object
               PROVE  /\ \A i, j \in DOMAIN waitList'[o] : i < j =>
                            \/ Before(waitList[o], waitList'[o][i], waitList'[o][j])
                            \/ waitList'[o][j] \notin Range(waitList[o])
                      /\ \A j \in DOMAIN waitList[o] :
                            /\ Waiting(waitList[o][j]) /\ Served(waitList[o][j])
                            /\ o \in taken'[waitList[o][j]]
                            => \A i \in 1..(j - 1) :
                                ~Satisfiable(waitList[o][i], request[waitList[o][i]])
    BY DEF Waiting
  <2> QED BY StepLists, ListsKeepOrder, ServedFirst DEF IInv
<1> QED BY <1>1, OneTaking, OneOrder, PTL DEF Spec, ServedInOrder
=============================================================================
