----------------------------- MODULE WorkQueue ------------------------------
(***************************************************************************)
(* wqueue<WorkItem*> as both daemons use it: serverStart's loop adds one   *)
(* item per accepted connection, and the worker threads remove them.       *)
(*                                                                         *)
(* Each step between two operations of the mutex is an action of its own,  *)
(* so that what the mutex protects can go wrong where it is not held.  A   *)
(* thread that pthread_cond_signal wakes, or that wakes by itself, has to  *)
(* take the mutex again before pthread_cond_wait returns.                  *)
(***************************************************************************)
EXTENDS Integers, SequencesExt

CONSTANTS
    Worker,      \* the worker threads of the daemon
    NoItem,      \* no item
    Garbage,     \* what front() of an empty list returns
    Connections  \* bound: the connections that the acceptor accepts

ASSUME WorkQueueAssumption ==
    /\ IsFiniteSet(Worker)
    /\ Connections \in Nat
    /\ NoItem \notin Nat /\ Garbage \notin Nat /\ NoItem # Garbage

(* The acceptor, as an owner of the mutex, and the mutex without an owner. *)
Acceptor == "serverStart"
Nobody   == "nobody"
Thread   == Worker \cup {Acceptor}

ASSUME ThreadAssumption == Acceptor \notin Worker /\ Nobody \notin Thread

VARIABLES
    apc,       \* where serverStart is in its loop and in add
    wpc,       \* where each worker is in remove and run
    m_mutex,   \* the thread that holds the mutex, or Nobody
    m_condv,   \* the workers that wait on the condition variable
    m_queue,   \* the list
    item,      \* the local variable item of each worker
    accepted   \* the connections accepted so far; they number the items

vars == <<apc, wpc, m_mutex, m_condv, m_queue, item, accepted>>

Item == 1 .. Connections

(* What each variable holds; the Garbage of an empty list never gets into  *)
(* a worker's item.                                                        *)
TypeOK ==
    /\ apc \in {"accept", "lock", "push", "signal", "unlock"}
    /\ wpc \in [Worker -> {"lock", "test", "wait", "front", "pop", "unlock",
                           "run"}]
    /\ m_mutex \in Thread \cup {Nobody}
    /\ m_condv \subseteq Worker
    /\ m_queue \in Seq(Item)
    /\ item \in [Worker -> Item \cup {NoItem}]
    /\ accepted \in 0 .. Connections

Init ==
    /\ apc = "accept"
    /\ wpc = [w \in Worker |-> "lock"]
    /\ m_mutex = Nobody
    /\ m_condv = {}
    /\ m_queue = << >>
    /\ item = [w \in Worker |-> NoItem]
    /\ accepted = 0

Goto(w, from, to) == wpc[w] = from /\ wpc' = [wpc EXCEPT ![w] = to]

-----------------------------------------------------------------------------
(***************************************************************************)
(* serverStart: accept, new WorkItem, queue.add(item).                     *)
(***************************************************************************)
accept ==
    /\ apc = "accept" /\ accepted < Connections
    /\ accepted' = accepted + 1
    /\ apc' = "lock"
    /\ UNCHANGED <<wpc, m_mutex, m_condv, m_queue, item>>

add_lock ==
    /\ apc = "lock" /\ m_mutex = Nobody
    /\ m_mutex' = Acceptor
    /\ apc' = "push"
    /\ UNCHANGED <<wpc, m_condv, m_queue, item, accepted>>

(* Mutant: the new item overtakes those that wait (push_front).            *)
add_push_back_Front ==
    /\ apc = "push"
    /\ m_queue' = <<accepted>> \o m_queue
    /\ apc' = "signal"
    /\ UNCHANGED <<wpc, m_mutex, m_condv, item, accepted>>

add_push_back ==
    /\ apc = "push"
    /\ m_queue' = Append(m_queue, accepted)
    /\ apc' = "signal"
    /\ UNCHANGED <<wpc, m_mutex, m_condv, item, accepted>>

(* Mutant: nobody is signalled.                                            *)
add_signal_Missing ==
    /\ apc = "signal" /\ apc' = "unlock"
    /\ UNCHANGED <<wpc, m_mutex, m_condv, m_queue, item, accepted>>

(* Mutant: the signal is sent only when the list was empty before.         *)
add_signal_OnlyFirst ==
    /\ apc = "signal" /\ apc' = "unlock"
    /\ IF m_condv = {} \/ Len(m_queue) > 1
       THEN UNCHANGED m_condv
       ELSE \E w \in m_condv : m_condv' = m_condv \ {w}
    /\ UNCHANGED <<wpc, m_mutex, m_queue, item, accepted>>

(* pthread_cond_signal wakes one of the waiting threads, if there is one.  *)
add_signal ==
    /\ apc = "signal" /\ apc' = "unlock"
    /\ IF m_condv = {}
       THEN UNCHANGED m_condv
       ELSE \E w \in m_condv : m_condv' = m_condv \ {w}
    /\ UNCHANGED <<wpc, m_mutex, m_queue, item, accepted>>

add_unlock ==
    /\ apc = "unlock"
    /\ m_mutex' = Nobody
    /\ apc' = "accept"
    /\ UNCHANGED <<wpc, m_condv, m_queue, item, accepted>>

add == add_lock \/ add_push_back \/ add_signal \/ add_unlock

-----------------------------------------------------------------------------
(***************************************************************************)
(* The workers: queue.remove(), the job, delete item.                      *)
(***************************************************************************)
(* Mutant: a worker does not lock before it looks at the list.             *)
remove_lock_Missing(w) ==
    /\ Goto(w, "lock", "test")
    /\ UNCHANGED <<apc, m_mutex, m_condv, m_queue, item, accepted>>

remove_lock(w) ==
    /\ Goto(w, "lock", "test")
    /\ m_mutex = Nobody /\ m_mutex' = w
    /\ UNCHANGED <<apc, m_condv, m_queue, item, accepted>>

remove_test(w) ==
    /\ IF m_queue = << >>
       THEN /\ Goto(w, "test", "wait")
            /\ m_condv' = m_condv \cup {w} /\ m_mutex' = Nobody
       ELSE /\ Goto(w, "test", "front")
            /\ UNCHANGED <<m_condv, m_mutex>>
    /\ UNCHANGED <<apc, m_queue, item, accepted>>

(* Mutant: the list is not tested again after the wait (if for while).     *)
remove_wake_NoTest(w) ==
    /\ w \notin m_condv /\ Goto(w, "wait", "front")
    /\ m_mutex = Nobody /\ m_mutex' = w
    /\ UNCHANGED <<apc, m_condv, m_queue, item, accepted>>

(* pthread_cond_wait returns: the loop tests the size again.               *)
remove_wake(w) ==
    /\ w \notin m_condv /\ Goto(w, "wait", "test")
    /\ m_mutex = Nobody /\ m_mutex' = w
    /\ UNCHANGED <<apc, m_condv, m_queue, item, accepted>>

remove_front(w) ==
    /\ Goto(w, "front", "pop")
    /\ item' = [item EXCEPT ![w] = IF m_queue = << >> THEN Garbage
                                                      ELSE Head(m_queue)]
    /\ UNCHANGED <<apc, m_mutex, m_condv, m_queue, accepted>>

remove_pop_front(w) ==
    /\ Goto(w, "pop", "unlock")
    /\ m_queue' = IF m_queue = << >> THEN << >> ELSE Tail(m_queue)
    /\ UNCHANGED <<apc, m_mutex, m_condv, item, accepted>>

remove_unlock(w) ==
    /\ Goto(w, "unlock", "run")
    /\ m_mutex' = Nobody
    /\ UNCHANGED <<apc, m_condv, m_queue, item, accepted>>

(* The job returns, run deletes the item and calls remove again.           *)
run(w) ==
    /\ Goto(w, "run", "lock")
    /\ item' = [item EXCEPT ![w] = NoItem]
    /\ UNCHANGED <<apc, m_mutex, m_condv, m_queue, accepted>>

remove(w) ==
    \/ remove_lock(w) \/ remove_test(w) \/ remove_wake(w)
    \/ remove_front(w) \/ remove_pop_front(w) \/ remove_unlock(w)

(* POSIX lets pthread_cond_wait return without a signal.                   *)
SpuriousWakeup(w) ==
    /\ w \in m_condv
    /\ m_condv' = m_condv \ {w}
    /\ UNCHANGED <<apc, wpc, m_mutex, m_queue, item, accepted>>

Next ==
    \/ accept \/ add
    \/ \E w \in Worker : remove(w) \/ run(w) \/ SpuriousWakeup(w)

(***************************************************************************)
(* Every thread runs, every job ends, and no thread that waits for the     *)
(* mutex is overtaken for ever.  Nobody is sure to be woken by chance, and *)
(* no further connection is sure to arrive and signal once more.           *)
(***************************************************************************)
Fairness ==
    /\ WF_vars(add) /\ SF_vars(add_lock)
    /\ \A w \in Worker : /\ WF_vars(remove(w)) /\ WF_vars(run(w))
                         /\ SF_vars(remove_lock(w)) /\ SF_vars(remove_wake(w))

Spec == Init /\ [][Next]_vars /\ Fairness

-----------------------------------------------------------------------------
(***************************************************************************)
(* Properties.                                                             *)
(***************************************************************************)
(* Threads between the lock and the unlock of add or remove.               *)
Inside == {w \in Worker : wpc[w] \in {"test", "front", "pop", "unlock"}}
            \cup (IF apc \in {"push", "signal", "unlock"} THEN {Acceptor}
                                                          ELSE {})

(* Workers that are on their way to the list without having to be woken.   *)
Awake == {w \in Worker : wpc[w] \in {"lock", "test", "front", "pop"}
                           \/ (wpc[w] = "wait" /\ w \notin m_condv)}

(* Only the thread that holds the mutex touches the list.                  *)
MutualExclusion == \A t \in Inside : m_mutex = t

(* No wakeup is lost: while a worker sleeps, the list holds no more items  *)
(* than there are workers awake to take them.                              *)
EnoughAwake ==
    m_condv # {} =>
        Len(m_queue) <= Cardinality(Awake) + (IF apc = "signal" THEN 1 ELSE 0)

(* No two workers, nor a worker and the list, have the same item, except   *)
(* between front() and pop_front(): delete item runs once for each.        *)
OneOwner ==
    /\ \A v, w \in Worker : v # w /\ item[v] = item[w] => item[v] = NoItem
    /\ \A w \in Worker, i \in DOMAIN m_queue :
          m_queue[i] = item[w] => wpc[w] = "pop" /\ i = 1

(* Every connection that is accepted reaches a worker.                     *)
EveryItemIsServed ==
    \A n \in Item :
        apc = "lock" /\ accepted = n ~> \E w \in Worker : item[w] = n

(* The queue hands its items out in the order of add, each once.  Taking   *)
(* an item is one step of the specification, that of pop_front.            *)
Fifo == INSTANCE FifoQueue
            WITH added   <- IF apc \in {"lock", "push"} THEN accepted - 1
                                                        ELSE accepted,
                 pending <- m_queue,
                 held    <- [w \in Worker |-> IF wpc[w] = "pop" THEN NoItem
                                                                ELSE item[w]]

ImplementsFifo == Fifo!FifoSpec
=============================================================================
