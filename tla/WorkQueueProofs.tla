-------------------------- MODULE WorkQueueProofs ---------------------------
(***************************************************************************)
(* Safety of the work queue, for any number of workers and connections.    *)
(***************************************************************************)
EXTENDS WorkQueue, FiniteSetTheorems, SequenceTheorems, TLAPS

USE WorkQueueAssumption, ThreadAssumption

(***************************************************************************)
(* TypeOK alone is not inductive: that front() never meets an empty list   *)
(* depends on the mutex, which keeps the other workers out between the     *)
(* test and pop_front.                                                     *)
(***************************************************************************)
MutexHeld ==
    /\ \A w \in Worker :
          wpc[w] \in {"test", "front", "pop", "unlock"} => m_mutex = w
    /\ apc \in {"push", "signal", "unlock"} => m_mutex = Acceptor

SleepersWait == \A w \in m_condv : wpc[w] = "wait"

FrontHasItem ==
    \A w \in Worker : wpc[w] \in {"front", "pop"} => m_queue # << >>

ItemAccepted == apc # "accept" => accepted \in Item

IInv == TypeOK /\ MutexHeld /\ SleepersWait /\ FrontHasItem /\ ItemAccepted

LEMMA InitIInv == Init => IInv
BY DEF Init, IInv, TypeOK, MutexHeld, SleepersWait, FrontHasItem,
       ItemAccepted, Item, Thread

LEMMA NextIInv == IInv /\ [Next]_vars => IInv'
<1> SUFFICES ASSUME IInv, [Next]_vars PROVE IInv'
  OBVIOUS
<1> USE DEF IInv, TypeOK, MutexHeld, SleepersWait, FrontHasItem, ItemAccepted,
            Item, Thread, Goto
<1>1. CASE accept
  BY <1>1 DEF accept
<1>2. CASE add_lock
  BY <1>2 DEF add_lock
<1>3. CASE add_push_back
  BY <1>3 DEF add_push_back
<1>4. CASE add_signal
  BY <1>4 DEF add_signal
<1>5. CASE add_unlock
  BY <1>5 DEF add_unlock
<1>6. ASSUME NEW w \in Worker, remove_lock(w) PROVE IInv'
  BY <1>6 DEF remove_lock
<1>7. ASSUME NEW w \in Worker, remove_test(w) PROVE IInv'
  BY <1>7 DEF remove_test
<1>8. ASSUME NEW w \in Worker, remove_wake(w) PROVE IInv'
  BY <1>8 DEF remove_wake
<1>9. ASSUME NEW w \in Worker, remove_front(w) PROVE IInv'
  BY <1>9 DEF remove_front
<1>10. ASSUME NEW w \in Worker, remove_pop_front(w) PROVE IInv'
  <2>1. m_queue' \in Seq(Item)
    BY <1>10, HeadTailProperties DEF remove_pop_front
  <2>2. \A v \in Worker : wpc'[v] \notin {"front", "pop"}
    <3>1. \A v \in Worker \ {w} : m_mutex # v
      BY <1>10 DEF remove_pop_front
    <3> QED
      BY <3>1, <1>10 DEF remove_pop_front
  <2>3. TypeOK' /\ MutexHeld' /\ SleepersWait' /\ ItemAccepted'
    BY <2>1, <1>10 DEF remove_pop_front
  <2>4. FrontHasItem'
    BY <2>2
  <2> QED
    BY <2>3, <2>4
<1>11. ASSUME NEW w \in Worker, remove_unlock(w) PROVE IInv'
  BY <1>11 DEF remove_unlock
<1>12. ASSUME NEW w \in Worker, run(w) PROVE IInv'
  BY <1>12 DEF run
<1>13. ASSUME NEW w \in Worker, SpuriousWakeup(w) PROVE IInv'
  BY <1>13 DEF SpuriousWakeup
<1>14. CASE UNCHANGED vars
  BY <1>14 DEF vars
<1> QED
  BY <1>1, <1>2, <1>3, <1>4, <1>5, <1>6, <1>7, <1>8, <1>9, <1>10, <1>11,
     <1>12, <1>13, <1>14 DEF Next, add, remove

(* TypeOK for any number of workers and connections.                       *)
THEOREM TypeCorrect == Spec => []TypeOK
<1>1. IInv => TypeOK
  BY DEF IInv
<1> QED
  BY InitIInv, NextIInv, <1>1, PTL DEF Spec

(* MutualExclusion: between the lock and the unlock of add and remove a    *)
(* thread is alone with the list.                                          *)
THEOREM ListIsProtected == Spec => []MutualExclusion
<1>1. IInv => MutualExclusion
  BY DEF IInv, MutexHeld, MutualExclusion, Inside
<1> QED
  BY InitIInv, NextIInv, <1>1, PTL DEF Spec

-----------------------------------------------------------------------------
(***************************************************************************)
(* No wakeup is lost.  EnoughAwake is inductive relative to IInv: a push   *)
(* announces its signal, a signal adds a worker to Awake, a worker leaves  *)
(* Awake by taking an item or by finding the list empty.                   *)
(***************************************************************************)
LEMMA AwakeFinite == IsFiniteSet(Awake) /\ Cardinality(Awake) \in Nat
BY FS_Subset, FS_CardinalityType DEF Awake

LEMMA AwakeFinitePrime == IsFiniteSet(Awake') /\ Cardinality(Awake') \in Nat
BY FS_Subset, FS_CardinalityType DEF Awake

LEMMA InitEnoughAwake == Init => EnoughAwake
BY DEF Init, EnoughAwake

LEMMA NextEnoughAwake ==
    IInv /\ EnoughAwake /\ [Next]_vars => EnoughAwake'
<1> SUFFICES ASSUME IInv, EnoughAwake, [Next]_vars PROVE EnoughAwake'
  OBVIOUS
<1> DEFINE Signal == IF apc = "signal" THEN 1 ELSE 0
<1>a. TypeOK /\ SleepersWait /\ FrontHasItem /\ Len(m_queue) \in Nat
  BY LenProperties DEF IInv, TypeOK
<1>b. IsFiniteSet(Awake) /\ Cardinality(Awake) \in Nat
  BY AwakeFinite
<1>c. IsFiniteSet(Awake') /\ Cardinality(Awake') \in Nat
  BY AwakeFinitePrime
<1>d. ASSUME Awake \subseteq Awake', m_condv' \subseteq m_condv,
             m_queue' = m_queue, Signal' = Signal
      PROVE  EnoughAwake'
  <2>1. Cardinality(Awake) <= Cardinality(Awake')
    BY <1>d, <1>c, FS_Subset
  <2> QED
    BY <1>a, <1>b, <1>c, <1>d, <2>1 DEF EnoughAwake
<1>1. CASE accept
  BY <1>1, <1>d DEF accept, Awake
<1>2. CASE add_lock
  BY <1>2, <1>d DEF add_lock, Awake
<1>3. CASE add_push_back
  <2>1. Len(m_queue') = Len(m_queue) + 1
    BY <1>3, <1>a DEF add_push_back, IInv, TypeOK
  <2>2. Awake' = Awake
    BY <1>3 DEF add_push_back, Awake
  <2> QED
    BY <1>3, <1>a, <1>b, <2>1, <2>2 DEF add_push_back, EnoughAwake
<1>4. CASE add_signal
  <2>1. CASE m_condv = {}
    BY <1>4, <2>1 DEF add_signal, EnoughAwake
  <2>2. ASSUME NEW w \in m_condv, m_condv' = m_condv \ {w}
        PROVE  EnoughAwake'
    <3>1. Awake' = Awake \cup {w} /\ w \notin Awake
      BY <1>4, <1>a, <2>2 DEF add_signal, Awake, SleepersWait, TypeOK
    <3>2. Cardinality(Awake') = Cardinality(Awake) + 1
      BY <3>1, <1>b, FS_AddElement
    <3> QED
      BY <1>4, <1>a, <1>b, <2>2, <3>2 DEF add_signal, EnoughAwake
  <2> QED
    BY <1>4, <2>1, <2>2 DEF add_signal
<1>5. CASE add_unlock
  BY <1>5, <1>d DEF add_unlock, Awake
<1>6. ASSUME NEW w \in Worker, remove_lock(w) PROVE EnoughAwake'
  BY <1>6, <1>d, <1>a DEF remove_lock, Awake, Goto, TypeOK
<1>7. ASSUME NEW w \in Worker, remove_test(w) PROVE EnoughAwake'
  <2>1. CASE m_queue = << >>
    BY <1>7, <2>1, <1>c DEF remove_test, EnoughAwake
  <2>2. CASE m_queue # << >>
    BY <1>7, <2>2, <1>d, <1>a DEF remove_test, Awake, Goto, TypeOK
  <2> QED
    BY <2>1, <2>2
<1>8. ASSUME NEW w \in Worker, remove_wake(w) PROVE EnoughAwake'
  BY <1>8, <1>d, <1>a DEF remove_wake, Awake, Goto, TypeOK
<1>9. ASSUME NEW w \in Worker, remove_front(w) PROVE EnoughAwake'
  BY <1>9, <1>d, <1>a DEF remove_front, Awake, Goto, TypeOK
<1>10. ASSUME NEW w \in Worker, remove_pop_front(w) PROVE EnoughAwake'
  <2>1. Len(m_queue') = Len(m_queue) - 1
    BY <1>10, <1>a, HeadTailProperties
       DEF remove_pop_front, Goto, TypeOK, FrontHasItem
  <2>2. w \in Awake /\ Awake' = Awake \ {w}
    BY <1>10, <1>a DEF remove_pop_front, Awake, Goto, TypeOK
  <2>3. Cardinality(Awake') = Cardinality(Awake) - 1
    BY <2>2, <1>b, FS_RemoveElement
  <2> QED
    BY <1>10, <1>a, <1>b, <2>1, <2>3 DEF remove_pop_front, EnoughAwake
<1>11. ASSUME NEW w \in Worker, remove_unlock(w) PROVE EnoughAwake'
  BY <1>11, <1>d, <1>a DEF remove_unlock, Awake, Goto, TypeOK
<1>12. ASSUME NEW w \in Worker, run(w) PROVE EnoughAwake'
  BY <1>12, <1>d, <1>a DEF run, Awake, Goto, TypeOK
<1>13. ASSUME NEW w \in Worker, SpuriousWakeup(w) PROVE EnoughAwake'
  BY <1>13, <1>d DEF SpuriousWakeup, Awake
<1>14. CASE UNCHANGED vars
  BY <1>14, <1>d DEF vars, Awake
<1> QED
  BY <1>1, <1>2, <1>3, <1>4, <1>5, <1>6, <1>7, <1>8, <1>9, <1>10, <1>11,
     <1>12, <1>13, <1>14 DEF Next, add, remove

(* EnoughAwake: whoever sleeps, somebody is awake for every item.          *)
THEOREM NoLostWakeup == Spec => []EnoughAwake
BY InitIInv, NextIInv, InitEnoughAwake, NextEnoughAwake, PTL DEF Spec

-----------------------------------------------------------------------------
(***************************************************************************)
(* Every item has one owner.  The list is sorted by arrival, everything in *)
(* it has been added, and what a worker holds is older than all of it,     *)
(* except the front that a worker has read and not popped yet.             *)
(***************************************************************************)
LastAdded == IF apc \in {"lock", "push"} THEN accepted - 1 ELSE accepted

QueueSorted ==
    /\ \A i, j \in 1 .. Len(m_queue) : i < j => m_queue[i] < m_queue[j]
    /\ \A i \in 1 .. Len(m_queue) : m_queue[i] <= LastAdded

HeldBefore ==
    \A w \in Worker : item[w] # NoItem =>
        /\ item[w] <= LastAdded
        /\ \A i \in 1 .. Len(m_queue) :
              \/ item[w] < m_queue[i]
              \/ wpc[w] = "pop" /\ i = 1 /\ item[w] = m_queue[1]

HeldOnce ==
    \A v, w \in Worker : v # w /\ item[v] = item[w] => item[v] = NoItem

Order == QueueSorted /\ HeldBefore /\ HeldOnce

LEMMA InitOrder == Init => Order
BY DEF Init, Order, QueueSorted, HeldBefore, HeldOnce

LEMMA NextOrder == IInv /\ Order /\ [Next]_vars => Order'
<1> SUFFICES ASSUME IInv, Order, [Next]_vars PROVE Order'
  OBVIOUS
<1> USE DEF Order, QueueSorted, HeldBefore, HeldOnce, LastAdded, Goto
<1>a. /\ TypeOK /\ MutexHeld /\ FrontHasItem /\ ItemAccepted
      /\ Len(m_queue) \in Nat /\ accepted \in Nat
      /\ \A i \in 1 .. Len(m_queue) : m_queue[i] \in Nat
      /\ \A w \in Worker : item[w] # NoItem => item[w] \in Nat
  BY LenProperties, ElementOfSeq DEF IInv, TypeOK, Item
<1>1. CASE accept
  BY <1>1, <1>a DEF accept
<1>2. CASE add_lock
  BY <1>2, <1>a DEF add_lock
<1>3. CASE add_push_back
  <2>1. /\ Len(m_queue') = Len(m_queue) + 1
        /\ \A i \in 1 .. Len(m_queue) : m_queue'[i] = m_queue[i]
        /\ m_queue'[Len(m_queue) + 1] = accepted
    BY <1>3, <1>a DEF add_push_back, TypeOK
  <2>2. \A i \in 1 .. Len(m_queue') : i \in 1 .. Len(m_queue)
                                        \/ i = Len(m_queue) + 1
    BY <2>1, <1>a
  <2>3. \A w \in Worker : wpc[w] # "pop"
    BY <1>3, <1>a DEF add_push_back, MutexHeld
  <2>4. QueueSorted'
    <3>1. apc = "push" /\ apc' = "signal" /\ accepted' = accepted
      BY <1>3 DEF add_push_back
    <3>2. \A i \in 1 .. Len(m_queue) : m_queue[i] < accepted
      BY <3>1, <1>a
    <3>3. ASSUME NEW i \in 1 .. Len(m_queue'), NEW j \in 1 .. Len(m_queue'),
                 i < j
          PROVE  m_queue'[i] < m_queue'[j]
      <4>1. i \in 1 .. Len(m_queue) /\ m_queue'[i] = m_queue[i]
        BY <3>3, <2>1, <2>2, <1>a
      <4>2. CASE j \in 1 .. Len(m_queue)
        BY <3>3, <4>1, <4>2, <2>1
      <4>3. CASE j = Len(m_queue) + 1
        BY <4>1, <4>3, <3>2, <2>1
      <4> QED
        BY <4>2, <4>3, <2>2
    <3>4. ASSUME NEW i \in 1 .. Len(m_queue')
          PROVE  m_queue'[i] <= accepted'
      BY <3>1, <3>2, <2>1, <2>2, <1>a
    <3>5. LastAdded' = accepted'
      BY <3>1
    <3> QED
      BY <3>3, <3>4, <3>5
  <2>5. HeldBefore'
    BY <1>3, <1>a, <2>1, <2>2, <2>3 DEF add_push_back
  <2> QED
    BY <1>3, <2>4, <2>5 DEF add_push_back
<1>4. CASE add_signal
  BY <1>4, <1>a DEF add_signal
<1>5. CASE add_unlock
  BY <1>5, <1>a DEF add_unlock
<1>6. ASSUME NEW w \in Worker, remove_lock(w) PROVE Order'
  BY <1>6, <1>a DEF remove_lock, TypeOK
<1>7. ASSUME NEW w \in Worker, remove_test(w) PROVE Order'
  BY <1>7, <1>a DEF remove_test, TypeOK
<1>8. ASSUME NEW w \in Worker, remove_wake(w) PROVE Order'
  BY <1>8, <1>a DEF remove_wake, TypeOK
<1>9. ASSUME NEW w \in Worker, remove_front(w) PROVE Order'
  <2>1. Len(m_queue) >= 1 /\ item' = [item EXCEPT ![w] = m_queue[1]]
    <3>1. m_queue # << >>
      BY <1>9, <1>a DEF remove_front, FrontHasItem
    <3>2. Len(m_queue) >= 1
      BY <3>1, <1>a, EmptySeq DEF TypeOK
    <3>3. Head(m_queue) = m_queue[1]
      BY <3>1, <1>a DEF TypeOK
    <3> QED
      BY <3>1, <3>2, <3>3, <1>9 DEF remove_front
  <2>2. \A v \in Worker \ {w} : wpc[v] # "pop" /\ wpc'[v] # "pop"
    BY <1>9, <1>a DEF remove_front, MutexHeld, TypeOK
  <2>3. wpc'[w] = "pop" /\ m_queue' = m_queue /\ UNCHANGED <<apc, accepted>>
    BY <1>9, <1>a DEF remove_front, TypeOK
  <2>4. \A v \in Worker \ {w} : item'[v] = item[v]
    BY <2>1, <1>a DEF TypeOK
  <2>5. item'[w] = m_queue[1]
    BY <2>1, <1>a DEF TypeOK
  <2>6. HeldBefore'
    <3> SUFFICES ASSUME NEW v \in Worker, item'[v] # NoItem
                 PROVE  /\ item'[v] <= LastAdded'
                        /\ \A i \in 1 .. Len(m_queue') :
                              \/ item'[v] < m_queue'[i]
                              \/ /\ wpc'[v] = "pop" /\ i = 1
                                 /\ item'[v] = m_queue'[1]
      OBVIOUS
    <3>1. CASE v = w
      BY <3>1, <2>1, <2>3, <2>5, <1>a
    <3>2. CASE v # w
      BY <3>2, <2>2, <2>3, <2>4, <1>a
    <3> QED
      BY <3>1, <3>2
  <2>7. HeldOnce'
    <3>1. \A v \in Worker \ {w} : item[v] # m_queue[1]
      BY <2>1, <2>2, <1>a
    <3> QED
      BY <3>1, <2>4, <2>5
  <2> QED
    BY <2>3, <2>6, <2>7
<1>10. ASSUME NEW w \in Worker, remove_pop_front(w) PROVE Order'
  <2>1. /\ Len(m_queue') = Len(m_queue) - 1
        /\ \A i \in 1 .. Len(m_queue') : m_queue'[i] = m_queue[i + 1]
    BY <1>10, <1>a, HeadTailProperties
       DEF remove_pop_front, FrontHasItem, TypeOK
  <2>2. \A i \in 1 .. Len(m_queue') : i + 1 \in 1 .. Len(m_queue) /\ i + 1 # 1
    BY <2>1, <1>a
  <2>3. UNCHANGED <<apc, accepted, item>>
    BY <1>10 DEF remove_pop_front
  <2>4. QueueSorted'
    <3>1. ASSUME NEW i \in 1 .. Len(m_queue'), NEW j \in 1 .. Len(m_queue'),
                 i < j
          PROVE  m_queue'[i] < m_queue'[j]
      <4>1. /\ i + 1 \in 1 .. Len(m_queue) /\ j + 1 \in 1 .. Len(m_queue)
            /\ i + 1 < j + 1
        BY <3>1, <2>2, <2>1, <1>a
      <4> QED
        BY <4>1, <2>1
    <3>2. \A i \in 1 .. Len(m_queue') : m_queue'[i] <= LastAdded'
      BY <2>1, <2>2, <2>3
    <3> QED
      BY <3>1, <3>2
  <2>5. HeldBefore'
    <3>1. \A v \in Worker : item[v] # NoItem =>
             /\ item[v] <= LastAdded
             /\ \A i \in 1 .. Len(m_queue') : item[v] < m_queue'[i]
      BY <2>1, <2>2, <1>a
    <3> QED
      BY <3>1, <2>3
  <2> QED
    BY <2>3, <2>4, <2>5
<1>11. ASSUME NEW w \in Worker, remove_unlock(w) PROVE Order'
  BY <1>11, <1>a DEF remove_unlock, TypeOK
<1>12. ASSUME NEW w \in Worker, run(w) PROVE Order'
  BY <1>12, <1>a DEF run, TypeOK
<1>13. ASSUME NEW w \in Worker, SpuriousWakeup(w) PROVE Order'
  BY <1>13, <1>a DEF SpuriousWakeup
<1>14. CASE UNCHANGED vars
  BY <1>14 DEF vars
<1> QED
  BY <1>1, <1>2, <1>3, <1>4, <1>5, <1>6, <1>7, <1>8, <1>9, <1>10, <1>11,
     <1>12, <1>13, <1>14 DEF Next, add, remove

LEMMA OrderOneOwner == IInv /\ Order => OneOwner
<1> SUFFICES ASSUME IInv, Order PROVE OneOwner
  OBVIOUS
<1>1. DOMAIN m_queue = 1 .. Len(m_queue) /\ Len(m_queue) \in Nat
  BY LenProperties DEF IInv, TypeOK
<1>2. \A i \in 1 .. Len(m_queue) : m_queue[i] \in Nat
  BY ElementOfSeq DEF IInv, TypeOK, Item
<1> QED
  BY <1>1, <1>2 DEF Order, HeldBefore, HeldOnce, OneOwner

(* OneOwner: no item is handed out twice, so none is deleted twice.        *)
THEOREM ItemsHaveOneOwner == Spec => []OneOwner
BY InitIInv, NextIInv, InitOrder, NextOrder, OrderOneOwner, PTL DEF Spec

-----------------------------------------------------------------------------
(***************************************************************************)
(* The queue implements FifoQueue: push_back is Add, pop_front is Take,    *)
(* the end of a job is Delete, and everything else is a stuttering step.   *)
(***************************************************************************)
Holding ==
    \A w \in Worker :
        /\ wpc[w] \in {"lock", "test", "wait", "front"} => item[w] = NoItem
        /\ wpc[w] = "pop" => item[w] = Head(m_queue)

LEMMA InitHolding == Init => Holding
BY DEF Init, Holding

LEMMA NextHolding == IInv /\ Holding /\ [Next]_vars => Holding'
<1> SUFFICES ASSUME IInv, Holding, [Next]_vars PROVE Holding'
  OBVIOUS
<1> USE DEF Holding, Goto
<1>a. TypeOK /\ MutexHeld /\ FrontHasItem /\ SleepersWait
  BY DEF IInv
<1>1. CASE accept
  BY <1>1 DEF accept
<1>2. CASE add_lock
  BY <1>2 DEF add_lock
<1>3. CASE add_push_back
  <2>1. \A w \in Worker : wpc[w] # "pop"
    BY <1>3, <1>a DEF add_push_back, MutexHeld
  <2> QED
    BY <1>3, <2>1 DEF add_push_back
<1>4. CASE add_signal
  BY <1>4 DEF add_signal
<1>5. CASE add_unlock
  BY <1>5 DEF add_unlock
<1>6. ASSUME NEW w \in Worker, remove_lock(w) PROVE Holding'
  BY <1>6, <1>a DEF remove_lock, TypeOK
<1>7. ASSUME NEW w \in Worker, remove_test(w) PROVE Holding'
  BY <1>7, <1>a DEF remove_test, TypeOK
<1>8. ASSUME NEW w \in Worker, remove_wake(w) PROVE Holding'
  BY <1>8, <1>a DEF remove_wake, TypeOK
<1>9. ASSUME NEW w \in Worker, remove_front(w) PROVE Holding'
  BY <1>9, <1>a DEF remove_front, TypeOK, FrontHasItem
<1>10. ASSUME NEW w \in Worker, remove_pop_front(w) PROVE Holding'
  <2>1. \A v \in Worker \ {w} : wpc[v] # "pop"
    BY <1>10, <1>a DEF remove_pop_front, MutexHeld
  <2> QED
    BY <1>10, <1>a, <2>1 DEF remove_pop_front, TypeOK
<1>11. ASSUME NEW w \in Worker, remove_unlock(w) PROVE Holding'
  BY <1>11, <1>a DEF remove_unlock, TypeOK
<1>12. ASSUME NEW w \in Worker, run(w) PROVE Holding'
  BY <1>12, <1>a DEF run, TypeOK
<1>13. ASSUME NEW w \in Worker, SpuriousWakeup(w) PROVE Holding'
  BY <1>13 DEF SpuriousWakeup
<1>14. CASE UNCHANGED vars
  BY <1>14 DEF vars
<1> QED
  BY <1>1, <1>2, <1>3, <1>4, <1>5, <1>6, <1>7, <1>8, <1>9, <1>10, <1>11,
     <1>12, <1>13, <1>14 DEF Next, add, remove

LEMMA InitFifo == Init => Fifo!FifoInit
BY DEF Init, Fifo!FifoInit

LEMMA NextFifo ==
    IInv /\ Holding /\ [Next]_vars => [Fifo!FifoNext]_(Fifo!fqvars)
<1> SUFFICES ASSUME IInv, Holding, [Next]_vars
             PROVE  Fifo!FifoNext \/ UNCHANGED Fifo!fqvars
  BY DEF Fifo!fqvars
<1> USE DEF Goto, Fifo!fqvars
<1>a. TypeOK /\ FrontHasItem /\ MutexHeld /\ accepted \in Nat
  BY DEF IInv, TypeOK
<1> DEFINE heldOf(w) == IF wpc[w] = "pop" THEN NoItem ELSE item[w]
<1>b. ASSUME UNCHANGED <<m_queue, item>>,
             apc' = apc /\ accepted' = accepted,
             \A w \in Worker : heldOf(w)' = heldOf(w)
      PROVE  UNCHANGED Fifo!fqvars
  BY <1>b
<1>1. CASE accept
  BY <1>1, <1>a DEF accept
<1>2. CASE add_lock
  BY <1>2 DEF add_lock
<1>3. CASE add_push_back
  BY <1>3, <1>a DEF add_push_back, Fifo!FifoNext, Fifo!Add
<1>4. CASE add_signal
  BY <1>4 DEF add_signal
<1>5. CASE add_unlock
  BY <1>5 DEF add_unlock
<1>6. ASSUME NEW w \in Worker, remove_lock(w) PROVE UNCHANGED Fifo!fqvars
  BY <1>6, <1>a, <1>b DEF remove_lock, TypeOK
<1>7. ASSUME NEW w \in Worker, remove_test(w) PROVE UNCHANGED Fifo!fqvars
  BY <1>7, <1>a, <1>b DEF remove_test, TypeOK
<1>8. ASSUME NEW w \in Worker, remove_wake(w) PROVE UNCHANGED Fifo!fqvars
  BY <1>8, <1>a, <1>b DEF remove_wake, TypeOK
<1>9. ASSUME NEW w \in Worker, remove_front(w) PROVE UNCHANGED Fifo!fqvars
  <2>1. \A v \in Worker : heldOf(v)' = heldOf(v)
    BY <1>9, <1>a DEF remove_front, TypeOK, Holding
  <2> QED
    BY <1>9, <2>1 DEF remove_front
<1>10. ASSUME NEW w \in Worker, remove_pop_front(w) PROVE Fifo!Take(w)
  <2>1. heldOf(w) = NoItem /\ m_queue # << >>
    BY <1>10, <1>a DEF remove_pop_front, FrontHasItem
  <2>2. heldOf(w)' = Head(m_queue)
    BY <1>10, <1>a DEF remove_pop_front, TypeOK, Holding
  <2>3. \A v \in Worker \ {w} : heldOf(v)' = heldOf(v)
    BY <1>10, <1>a DEF remove_pop_front, TypeOK
  <2>4. m_queue' = Tail(m_queue) /\ UNCHANGED <<apc, accepted>>
    BY <1>10, <2>1 DEF remove_pop_front
  <2> QED
    BY <2>1, <2>2, <2>3, <2>4 DEF Fifo!Take
<1>11. ASSUME NEW w \in Worker, remove_unlock(w) PROVE UNCHANGED Fifo!fqvars
  BY <1>11, <1>a, <1>b DEF remove_unlock, TypeOK
<1>12. ASSUME NEW w \in Worker, run(w)
       PROVE  Fifo!Delete(w) \/ UNCHANGED Fifo!fqvars
  <2>1. heldOf(w) = item[w] /\ heldOf(w)' = NoItem
    BY <1>12, <1>a DEF run, TypeOK
  <2>2. \A v \in Worker \ {w} : heldOf(v)' = heldOf(v)
    BY <1>12, <1>a DEF run, TypeOK
  <2>3. UNCHANGED <<m_queue, apc, accepted>>
    BY <1>12 DEF run
  <2> QED
    BY <2>1, <2>2, <2>3 DEF Fifo!Delete
<1>13. ASSUME NEW w \in Worker, SpuriousWakeup(w)
       PROVE  UNCHANGED Fifo!fqvars
  BY <1>13 DEF SpuriousWakeup
<1>14. CASE UNCHANGED vars
  BY <1>14 DEF vars
<1> QED
  BY <1>1, <1>2, <1>3, <1>4, <1>5, <1>6, <1>7, <1>8, <1>9, <1>10, <1>11,
     <1>12, <1>13, <1>14 DEF Next, add, remove, Fifo!FifoNext

(* ImplementsFifo: the items are handed out in order, each once.           *)
THEOREM QueueImplementsFifo == Spec => ImplementsFifo
BY InitIInv, NextIInv, InitHolding, NextHolding, InitFifo, NextFifo, PTL
   DEF Spec, ImplementsFifo, Fifo!FifoSpec
=============================================================================
