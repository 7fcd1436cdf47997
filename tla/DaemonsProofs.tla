--------------------------- MODULE DaemonsProofs ----------------------------
(***************************************************************************)
(* The two daemons together, for any number of workers on either side, any *)
(* number of jobs of any kind, and any size of the socket: no content      *)
(* worker that has a part of a good file to send is without its reader.    *)
(***************************************************************************)
EXTENDS Daemons, SequenceTheorems, TLAPS

USE DaemonsAssumption

-----------------------------------------------------------------------------
(***************************************************************************)
(* What is in a queue after push and after remove.                         *)
(***************************************************************************)
LEMMA EmptyQueue ==
    << >> \in Seq(Job) /\ IsInjective(<< >>) /\ Range(<< >>) = {}
BY EmptySeq DEF IsInjective, Range

LEMMA Pushed ==
    ASSUME NEW s \in Seq(Job), NEW x \in Job, x \notin Range(s), IsInjective(s)
    PROVE  /\ Append(s, x) \in Seq(Job) /\ IsInjective(Append(s, x))
           /\ Range(Append(s, x)) = Range(s) \cup {x}
<1> DEFINE t == Append(s, x)
<1> DEFINE n == Len(s)
<1>1. /\ t \in Seq(Job) /\ n \in Nat /\ Len(t) = n + 1
      /\ \A i \in 1 .. n : t[i] = s[i]
      /\ t[n + 1] = x
  BY AppendProperties
<1>2. DOMAIN s = 1 .. n /\ DOMAIN t = 1 .. n + 1
  BY <1>1, LenProperties
<1> HIDE DEF t, n
<1>3. \A i \in 1 .. n + 1 : i \in 1 .. n \/ i = n + 1
  BY <1>1
<1>4. n + 1 \in 1 .. n + 1 /\ \A i \in 1 .. n : i \in 1 .. n + 1
  BY <1>1
<1>5. Range(t) = Range(s) \cup {x}
  BY <1>1, <1>2, <1>3, <1>4 DEF Range
<1>6. IsInjective(t)
  BY <1>1, <1>2, <1>3 DEF IsInjective, Range
<1> QED
  BY <1>1, <1>5, <1>6 DEF t

LEMMA Removed ==
    ASSUME NEW s \in Seq(Job), s # << >>, IsInjective(s)
    PROVE  /\ Head(s) \in Job /\ Head(s) \in Range(s)
           /\ Tail(s) \in Seq(Job) /\ IsInjective(Tail(s))
           /\ Range(Tail(s)) = Range(s) \ {Head(s)}
<1> DEFINE t == Tail(s)
<1> DEFINE n == Len(t)
<1>1. /\ t \in Seq(Job) /\ n \in Nat /\ Len(s) = n + 1 /\ Head(s) = s[1]
      /\ \A i \in 1 .. n : t[i] = s[i + 1]
  BY HeadTailProperties, LenProperties, EmptySeq
<1>2. DOMAIN s = 1 .. n + 1 /\ DOMAIN t = 1 .. n
  BY <1>1, LenProperties
<1>3. s[1] \in Job
  BY <1>1, <1>2, ElementOfSeq
<1> HIDE DEF t, n
<1>4. 1 \in 1 .. n + 1 /\ \A i \in 1 .. n : i + 1 \in 1 .. n + 1 /\ i + 1 # 1
  BY <1>1
<1>5. \A i \in 1 .. n + 1 : i = 1 \/ \E m \in 1 .. n : i = m + 1
  <2>1. TAKE i \in 1 .. n + 1
  <2>2. i # 1 => i - 1 \in 1 .. n /\ i = (i - 1) + 1
    BY <1>1
  <2> QED
    BY <2>2
<1>6. Range(t) = Range(s) \ {s[1]}
  <2>1. Range(t) \subseteq Range(s) \ {s[1]}
    BY <1>1, <1>2, <1>4 DEF Range, IsInjective
  <2>2. ASSUME NEW i \in 1 .. n + 1, s[i] # s[1] PROVE s[i] \in Range(t)
    BY <1>1, <1>2, <1>5, <2>2 DEF Range
  <2>3. Range(s) \ {s[1]} \subseteq Range(t)
    BY <1>2, <2>2 DEF Range
  <2> QED
    BY <2>1, <2>3
<1>7. IsInjective(t)
  <2>1. SUFFICES ASSUME NEW a \in 1 .. n, NEW b \in 1 .. n, t[a] = t[b]
                 PROVE  a = b
    BY <1>2 DEF IsInjective
  <2>2. a + 1 = b + 1
    BY <1>1, <1>2, <1>4, <2>1 DEF IsInjective
  <2> QED
    BY <2>2
<1> QED
  BY <1>1, <1>2, <1>3, <1>4, <1>6, <1>7 DEF t, Range

-----------------------------------------------------------------------------
(***************************************************************************)
(* The inductive invariant.                                                *)
(***************************************************************************)

(* A worker has a job from remove() to the end of it, and only in a        *)
(* process that runs; a process that has died has no queue.                *)
Phases ==
    /\ \A w \in EncodeWorker : /\ (epc[w] = "remove") <=> (ejob[w] = NoJob)
                               /\ epc[w] # "remove" => eUp
    /\ \A k \in ContentWorker : /\ (cpc[k] = "remove") <=> (cjob[k] = NoJob)
                                /\ cpc[k] # "remove" => cUp
    /\ ~eUp => equeue = << >>
    /\ ~cUp => backlog = << >> /\ cqueue = << >>

(* A connection that the content daemon's workers have come to.            *)
Taken(j) == j \notin Range(equeue) \cup Range(backlog) \cup Range(cqueue)

(* A job waits once, and in one of the queues; it has one worker on each   *)
(* side at most, and none any more where the connection is closed.         *)
OnePlace ==
    /\ IsInjective(equeue) /\ IsInjective(backlog) /\ IsInjective(cqueue)
    /\ Range(equeue) \cap Range(backlog) = {}
    /\ Range(equeue) \cap Range(cqueue) = {}
    /\ Range(backlog) \cap Range(cqueue) = {}
    /\ \A w \in EncodeWorker : ejob[w] \notin Range(equeue)
    /\ \A v, w \in EncodeWorker : ejob[v] = ejob[w] /\ ejob[v] # NoJob => v = w
    /\ \A k \in ContentWorker : Taken(cjob[k])
    /\ \A k, l \in ContentWorker : cjob[k] = cjob[l] /\ cjob[k] # NoJob => k = l
    /\ \A j \in closed : Taken(j) /\ \A k \in ContentWorker : cjob[k] # j

(* The answer of step 5 is there from step 5 on, and says what the source  *)
(* is; READY, the end of a job and contents come after it.                 *)
Answers ==
    /\ \A j \in Job : reply[j] # "none" =>
          /\ Taken(j)
          /\ \A k \in ContentWorker : cjob[k] = j => cpc[k] # "check"
          /\ (reply[j] = "ok") <=> (kind[j] = "good")
    /\ \A k \in ContentWorker :
          cpc[k] \in {"ready", "send", "end"} => reply[cjob[k]] # "none"
    /\ \A j \in Job : window[j] > 0 =>
          /\ reply[j] # "none"
          /\ \A k \in ContentWorker : cjob[k] = j => cpc[k] # "ready"
    /\ cUp => \A j \in ready : reply[j] = "ok"
    /\ cUp => \A j \in ended : j \in closed \/ reply[j] = "err"

(* A worker in step 8 that finds READY finds the peer at the beginning of  *)
(* step 10.                                                                *)
ReadyHasReader ==
    eUp => \A k \in ContentWorker :
        cpc[k] = "ready" /\ cjob[k] \in ready =>
            \E w \in EncodeWorker :
                ejob[w] = cjob[k] /\ epc[w] = "receive" /\ eLeft[w] = Size

(* A job is asked for once and ends once, READY precedes what follows it,  *)
(* and nothing is sent before READY or the end of the job.                 *)
Once ==
    /\ \A w \in EncodeWorker :
          /\ ejob[w] \notin ended
          /\ epc[w] = "exist" => ejob[w] \notin ready
          /\ epc[w] \in {"receive", "end"} => ejob[w] \in ready
    /\ (ready \cup ended) \cap Range(equeue) = {}
    /\ eUp /\ cUp =>
          /\ closed \subseteq ready \cup ended
          /\ \A k \in ContentWorker :
                cpc[k] \in {"send", "end"} => cjob[k] \in ready \cup ended

(* A connection is somewhere in the content daemon until it is closed.     *)
Arrived ==
    /\ \A j \in closed : reply[j] # "none"
    /\ cUp => \A w \in EncodeWorker :
          \/ ejob[w] \in Range(backlog) \cup Range(cqueue) \cup closed
          \/ ejob[w] = NoJob
          \/ \E k \in ContentWorker : cjob[k] = ejob[w]

(* What the reader expects is in the socket or still to be sent.           *)
Balance ==
    cUp => \A w \in EncodeWorker :
        epc[w] \in {"receive", "end"} =>
            /\ epc[w] = "end" => eLeft[w] = 0
            /\ ejob[w] \in closed => eLeft[w] = window[ejob[w]]
            /\ \A k \in ContentWorker : cjob[k] = ejob[w] =>
                  /\ cpc[k] = "ready" => eLeft[w] = Size
                  /\ cpc[k] = "send" => eLeft[w] = window[ejob[w]] + cLeft[k]
                  /\ cpc[k] = "end" => eLeft[w] = window[ejob[w]]

IInv == /\ TypeOK /\ Phases /\ OnePlace /\ Answers
        /\ ReadyHasReader /\ SendersHaveReaders
        /\ Once /\ Arrived /\ Balance

-----------------------------------------------------------------------------
(***************************************************************************)
(* The first state, and the encode daemon.                                 *)
(***************************************************************************)
LEMMA InitIInv == Init => IInv
<1> SUFFICES ASSUME Init PROVE IInv
  OBVIOUS
<1>1. equeue \in Seq(Job)
  BY IsASeq DEF Init, Job
<1>2. TypeOK
  BY <1>1, EmptyQueue DEF Init, TypeOK, Job
<1>3. Phases
  BY DEF Init, Phases
<1>4. IsInjective(equeue) /\ NoJob \notin Range(equeue)
  BY DEF Init, IsInjective, Range
<1>5. OnePlace
  BY <1>4, EmptyQueue DEF Init, OnePlace, Taken
<1>6. Answers /\ ReadyHasReader /\ SendersHaveReaders
  BY DEF Init, Answers, ReadyHasReader, SendersHaveReaders
<1>7. Once /\ Arrived /\ Balance
  BY DEF Init, Once, Arrived, Balance
<1> QED
  BY <1>2, <1>3, <1>5, <1>6, <1>7 DEF IInv

LEMMA StepEncodeDies ==
    ASSUME IInv, EncodeDies
    PROVE  IInv'
<1>1. /\ eUp' = FALSE /\ equeue' = << >>
      /\ epc' = [w \in EncodeWorker |-> "remove"]
      /\ ejob' = [w \in EncodeWorker |-> NoJob]
      /\ eLeft' = [w \in EncodeWorker |-> 0]
      /\ UNCHANGED <<kind, cUp, ended, backlog, cqueue, cpc, cjob, cLeft,
                     closed, reply, ready, window>>
  BY DEF EncodeDies, cvars, waiting, net
<1>2. eLeft' \in [EncodeWorker -> 0 .. Size]
  BY <1>1
<1>3. TypeOK'
  BY <1>1, <1>2, EmptyQueue DEF IInv, TypeOK
<1>4. Phases'
  BY <1>1 DEF IInv, Phases
<1>5. OnePlace'
  BY <1>1, EmptyQueue DEF IInv, OnePlace, Taken
<1>6. Answers'
  BY <1>1, EmptyQueue DEF IInv, Answers, Taken
<1>7. ReadyHasReader' /\ SendersHaveReaders'
  BY <1>1 DEF ReadyHasReader, SendersHaveReaders
<1>8. NoJob \notin ended
  BY DEF IInv, TypeOK
<1>9. Once'
  BY <1>1, <1>8, EmptyQueue DEF Once
<1>10. Arrived' /\ Balance'
  BY <1>1 DEF IInv, Arrived, Balance
<1> QED
  BY <1>3, <1>4, <1>5, <1>6, <1>7, <1>9, <1>10 DEF IInv

(* What the worker takes is on its way to the other daemon: it was in the  *)
(* queue, so that nobody over there has come to it.                        *)
LEMMA StepConnect ==
    ASSUME IInv, NEW w \in EncodeWorker, run_Connect(w)
    PROVE  IInv'
<1>1. CASE ~cUp
  BY <1>1, StepEncodeDies DEF run_Connect
<1>2. CASE cUp
  <2> DEFINE j == Head(equeue)
  <2>1. /\ eUp /\ epc[w] = "remove" /\ equeue # << >>
        /\ equeue' = Tail(equeue) /\ backlog' = Append(backlog, j)
        /\ epc' = [epc EXCEPT ![w] = "exist"]
        /\ ejob' = [ejob EXCEPT ![w] = j]
        /\ UNCHANGED <<kind, eUp, cUp, eLeft, ended, cqueue, cpc, cjob,
                       cLeft, closed, reply, ready, window>>
    BY <1>2 DEF run_Connect, eGoto, fate, net
  <2>2. /\ j \in Job /\ j \in Range(equeue)
        /\ equeue' \in Seq(Job) /\ IsInjective(equeue')
        /\ Range(equeue') = Range(equeue) \ {j}
    BY <2>1, Removed DEF IInv, TypeOK, OnePlace
  <2>3. j \notin Range(backlog) /\ j \notin Range(cqueue)
    BY <2>2 DEF IInv, OnePlace
  <2>4. /\ backlog' \in Seq(Job) /\ IsInjective(backlog')
        /\ Range(backlog') = Range(backlog) \cup {j}
    BY <2>1, <2>2, <2>3, Pushed DEF IInv, TypeOK, OnePlace
  <2> HIDE DEF j
  <2>5. TypeOK'
    BY <2>1, <2>2, <2>4 DEF IInv, TypeOK
  <2>6. Phases'
    BY <1>2, <2>1, <2>2 DEF IInv, TypeOK, Phases
  <2>7. \A i : Taken(i) /\ i # j => Taken(i)'
    BY <2>1, <2>2, <2>4 DEF Taken
  <2>8. /\ \A v \in EncodeWorker : ejob[v] # j
        /\ \A k \in ContentWorker : cjob[k] # j
        /\ j \notin closed
    BY <2>2 DEF IInv, OnePlace, Taken
  <2>9. OnePlace'
    <3>1. /\ Range(equeue') \cap Range(backlog') = {}
          /\ Range(equeue') \cap Range(cqueue') = {}
          /\ Range(backlog') \cap Range(cqueue') = {}
      BY <2>1, <2>2, <2>3, <2>4 DEF IInv, OnePlace
    <3>2. /\ \A v \in EncodeWorker : ejob'[v] \notin Range(equeue')
          /\ \A v, u \in EncodeWorker :
                ejob'[v] = ejob'[u] /\ ejob'[v] # NoJob => v = u
      BY <2>1, <2>2, <2>8 DEF IInv, TypeOK, OnePlace
    <3>3. /\ \A k \in ContentWorker : Taken(cjob[k])'
          /\ \A k, l \in ContentWorker :
                cjob'[k] = cjob'[l] /\ cjob'[k] # NoJob => k = l
          /\ \A i \in closed' :
                Taken(i)' /\ \A k \in ContentWorker : cjob'[k] # i
      BY <2>1, <2>7, <2>8 DEF IInv, OnePlace
    <3> QED
      BY <2>1, <2>2, <2>4, <3>1, <3>2, <3>3 DEF IInv, OnePlace
  <2>10. reply[j] = "none"
    BY <2>2 DEF IInv, Answers, Taken
  <2>11. Answers'
    BY <2>1, <2>7, <2>10 DEF IInv, Answers
  <2>12. \A v \in EncodeWorker : epc[v] = "receive" =>
            epc'[v] = epc[v] /\ ejob'[v] = ejob[v] /\ eLeft'[v] = eLeft[v]
    BY <2>1 DEF IInv, TypeOK
  <2>13. ReadyHasReader'
    BY <2>1, <2>12 DEF IInv, ReadyHasReader
  <2>14. SendersHaveReaders'
    BY <2>1, <2>12 DEF IInv, SendersHaveReaders
  <2>15. /\ epc'[w] = "exist" /\ ejob'[w] = j
         /\ \A v \in EncodeWorker :
                v # w => epc'[v] = epc[v] /\ ejob'[v] = ejob[v]
    BY <2>1 DEF IInv, TypeOK
  <2>16. Once'
    BY <2>1, <2>2, <2>15 DEF IInv, Once
  <2>17. Arrived'
    BY <2>1, <2>4, <2>15 DEF IInv, Arrived
  <2>18. Balance'
    BY <2>1, <2>15 DEF IInv, Balance
  <2> QED
    BY <2>5, <2>6, <2>9, <2>11, <2>13, <2>14, <2>16, <2>17, <2>18 DEF IInv
<1> QED
  BY <1>1, <1>2

LEMMA StepGetExist ==
    ASSUME IInv, NEW w \in EncodeWorker, processGetFile_Get_Exist_Data(w)
    PROVE  IInv'
<1> DEFINE j == ejob[w]
<1>1. /\ eUp /\ epc[w] = "exist" /\ j \in Job
      /\ UNCHANGED <<kind, eUp, cUp, equeue, backlog, cqueue, cpc, cjob,
                     cLeft, closed, reply, window>>
  BY DEF IInv, TypeOK, Phases, processGetFile_Get_Exist_Data, eGoto, fate,
         cvars, waiting
<1>2. \/ /\ (reply[j] = "ok") \/ ~cUp
         /\ epc' = [epc EXCEPT ![w] = "receive"]
         /\ ready' = ready \cup {j}
         /\ eLeft' = [eLeft EXCEPT ![w] = Size]
         /\ UNCHANGED <<ejob, ended>>
      \/ /\ (reply[j] = "err") \/ ~cUp
         /\ epc' = [epc EXCEPT ![w] = "remove"]
         /\ ended' = ended \cup {j}
         /\ ejob' = [ejob EXCEPT ![w] = NoJob]
         /\ eLeft' = [eLeft EXCEPT ![w] = 0]
         /\ UNCHANGED ready
  BY DEF processGetFile_Get_Exist_Data, eGoto, eJobEnds
<1> HIDE DEF j
<1>3. 0 \in 0 .. Size /\ Size \in 0 .. Size
  OBVIOUS
<1>4. TypeOK'
  <2>1. epc' \in [EncodeWorker -> {"remove", "exist", "receive", "end"}]
    BY <1>2 DEF IInv, TypeOK
  <2>2. ejob' \in [EncodeWorker -> Job \cup {NoJob}]
    BY <1>2 DEF IInv, TypeOK
  <2>3. eLeft' \in [EncodeWorker -> 0 .. Size]
    BY <1>2, <1>3 DEF IInv, TypeOK
  <2>4. ready' \subseteq Job /\ ended' \subseteq Job
    BY <1>1, <1>2 DEF IInv, TypeOK
  <2> QED
    BY <1>1, <2>1, <2>2, <2>3, <2>4 DEF IInv, TypeOK
<1>5. Phases'
  BY <1>1, <1>2 DEF IInv, TypeOK, Phases, j
<1>6. NoJob \notin Range(equeue)
  BY RangeOfSeq DEF IInv, TypeOK
<1>7. OnePlace'
  <2>1. \A v \in EncodeWorker : ejob'[v] = ejob[v] \/ ejob'[v] = NoJob
    BY <1>2 DEF IInv, TypeOK
  <2>2. /\ \A v \in EncodeWorker : ejob'[v] \notin Range(equeue)
        /\ \A v, u \in EncodeWorker :
              ejob'[v] = ejob'[u] /\ ejob'[v] # NoJob => v = u
    BY <1>6, <2>1 DEF IInv, OnePlace
  <2> QED
    BY <1>1, <2>2 DEF IInv, OnePlace, Taken
<1>8. Answers'
  BY <1>1, <1>2 DEF IInv, TypeOK, Answers, Taken
<1>9. \A v \in EncodeWorker : epc[v] = "receive" =>
          epc'[v] = epc[v] /\ ejob'[v] = ejob[v] /\ eLeft'[v] = eLeft[v]
  BY <1>1, <1>2 DEF IInv, TypeOK
<1>10. \A k \in ContentWorker : cpc[k] = "ready" => cUp
  BY DEF IInv, Phases
<1>11. j \in ready' \ ready =>
          epc'[w] = "receive" /\ ejob'[w] = j /\ eLeft'[w] = Size
  BY <1>1, <1>2 DEF IInv, TypeOK, j
<1>12. ready' \subseteq ready \cup {j}
  BY <1>2
<1>13. ReadyHasReader'
  BY <1>1, <1>9, <1>11, <1>12 DEF IInv, ReadyHasReader
<1>14. SendersHaveReaders'
  BY <1>1, <1>9 DEF IInv, SendersHaveReaders
<1>15. /\ j \notin ready /\ j \notin ended /\ j \notin Range(equeue)
       /\ \A v \in EncodeWorker : v # w => ejob[v] # j
       /\ \A v \in EncodeWorker : v # w =>
              epc'[v] = epc[v] /\ ejob'[v] = ejob[v] /\ eLeft'[v] = eLeft[v]
  <2>1. j \notin ready /\ j \notin ended /\ j \notin Range(equeue)
    BY <1>1 DEF IInv, OnePlace, Once, j
  <2>2. \A v \in EncodeWorker : v # w => ejob[v] # j
    BY <1>1 DEF IInv, OnePlace, j
  <2>3. \A v \in EncodeWorker : v # w =>
            epc'[v] = epc[v] /\ ejob'[v] = ejob[v] /\ eLeft'[v] = eLeft[v]
    BY <1>2 DEF IInv, TypeOK
  <2> QED
    BY <2>1, <2>2, <2>3
<1>16. \/ /\ epc'[w] = "receive" /\ ejob'[w] = j /\ eLeft'[w] = Size
          /\ ready' = ready \cup {j} /\ ended' = ended
       \/ /\ epc'[w] = "remove" /\ ejob'[w] = NoJob
          /\ ready' = ready /\ ended' = ended \cup {j}
  BY <1>2 DEF IInv, TypeOK, j
<1>17. NoJob \notin ended /\ NoJob # j
  BY <1>1 DEF IInv, TypeOK
<1>18. Once'
  <2>1. /\ ready' \cup ended' = ready \cup ended \cup {j}
        /\ ready \subseteq ready'
    BY <1>16
  <2>2. \A v \in EncodeWorker :
            /\ ejob'[v] \notin ended'
            /\ epc'[v] = "exist" => ejob'[v] \notin ready'
            /\ epc'[v] \in {"receive", "end"} => ejob'[v] \in ready'
    <3>1. TAKE v \in EncodeWorker
    <3>2. CASE v = w
      BY <1>15, <1>16, <1>17, <3>2
    <3>3. CASE v # w
      BY <1>15, <1>16, <3>3 DEF IInv, Once
    <3> QED
      BY <3>2, <3>3
  <2> QED
    BY <1>1, <1>15, <2>1, <2>2 DEF IInv, Once
<1>19. Arrived'
  BY <1>1, <1>15, <1>16 DEF IInv, Arrived, j
<1>20. Balance'
  <2>1. cUp => /\ j \notin closed
               /\ \A k \in ContentWorker :
                     cjob[k] = j => cpc[k] \notin {"send", "end"}
    BY <1>1, <1>15 DEF IInv, Once
  <2> QED
    BY <1>1, <1>15, <1>16, <2>1 DEF IInv, Balance
<1> QED
  BY <1>4, <1>5, <1>7, <1>8, <1>13, <1>14, <1>18, <1>19, <1>20 DEF IInv

(* The reader counts down with what is in flight.                          *)
LEMMA StepFileTransfer ==
    ASSUME IInv, NEW w \in EncodeWorker, processGetFile_FILE_TRANSFER(w)
    PROVE  IInv'
<1> DEFINE j == ejob[w]
<1>1. /\ eUp /\ epc[w] = "receive" /\ j \in Job
      /\ UNCHANGED <<kind, eUp, cUp, equeue, ejob, ended, backlog, cqueue,
                     cpc, cjob, cLeft, closed, reply, ready>>
  BY DEF IInv, TypeOK, Phases, processGetFile_FILE_TRANSFER, fate, cvars,
         waiting
<1>2. CASE /\ eLeft[w] > 0 /\ window[j] > 0
           /\ eLeft' = [eLeft EXCEPT ![w] = @ - 1]
           /\ window' = [window EXCEPT ![j] = @ - 1]
           /\ UNCHANGED epc
  <2> HIDE DEF j
  <2>1. eLeft[w] \in 0 .. Size /\ window[j] \in 0 .. SockBuf
    BY <1>1 DEF IInv, TypeOK
  <2>2. eLeft[w] - 1 \in 0 .. Size /\ window[j] - 1 \in 0 .. SockBuf
    BY <1>2, <2>1
  <2>3. TypeOK'
    BY <1>1, <1>2, <2>2 DEF IInv, TypeOK
  <2>4. Phases' /\ OnePlace'
    BY <1>1, <1>2 DEF IInv, Phases, OnePlace, Taken
  <2>5. \A i \in Job : window'[i] > 0 => window[i] > 0
    BY <1>1, <1>2, <2>1 DEF IInv, TypeOK
  <2>6. Answers'
    BY <1>1, <2>5 DEF IInv, Answers, Taken
  <2>7. \A v \in EncodeWorker : v # w => eLeft'[v] = eLeft[v]
    BY <1>2 DEF IInv, TypeOK
  <2>8. ReadyHasReader'
    <3>1. \A k \in ContentWorker : cpc[k] = "ready" => cjob[k] # j
      BY <1>1, <1>2 DEF IInv, Answers
    <3> QED
      BY <1>1, <1>2, <2>7, <3>1 DEF IInv, ReadyHasReader, j
  <2>9. SendersHaveReaders'
    <3>1. SUFFICES ASSUME NEW k \in ContentWorker, cpc[k] = "send",
                          cLeft[k] > 0, kind[cjob[k]] = "good"
                   PROVE  \E v \in EncodeWorker :
                              /\ ejob[v] = cjob[k] /\ epc[v] = "receive"
                              /\ eLeft'[v] = window'[cjob[k]] + cLeft[k]
      BY <1>1, <1>2 DEF SendersHaveReaders
    <3>2. PICK v \in EncodeWorker :
              /\ ejob[v] = cjob[k] /\ epc[v] = "receive"
              /\ eLeft[v] = window[cjob[k]] + cLeft[k]
      BY <1>1, <3>1 DEF IInv, SendersHaveReaders
    <3>3. cjob[k] \in Job
      BY <3>1 DEF IInv, TypeOK, Phases
    <3>4. CASE v = w
      <4>1. eLeft'[w] = eLeft[w] - 1 /\ window'[j] = window[j] - 1
        BY <1>1, <1>2 DEF IInv, TypeOK
      <4>2. cjob[k] = j
        BY <3>2, <3>4 DEF j
      <4>3. cLeft[k] \in 0 .. Size
        BY DEF IInv, TypeOK
      <4> QED
        BY <2>1, <3>2, <3>4, <4>1, <4>2, <4>3
    <3>5. CASE v # w
      <4>1. cjob[k] # j
        BY <3>2, <3>3, <3>5 DEF IInv, OnePlace, j
      <4>2. window'[cjob[k]] = window[cjob[k]] /\ eLeft'[v] = eLeft[v]
        BY <1>2, <2>7, <3>3, <3>5, <4>1 DEF IInv, TypeOK
      <4> QED
        BY <3>2, <4>2
    <3> QED
      BY <3>4, <3>5
  <2>10. Once' /\ Arrived'
    BY <1>1, <1>2 DEF IInv, Once, Arrived
  <2>11. Balance'
    <3>1. SUFFICES ASSUME cUp, NEW v \in EncodeWorker,
                          epc[v] \in {"receive", "end"}
                   PROVE
            /\ epc[v] = "end" => eLeft'[v] = 0
            /\ ejob[v] \in closed => eLeft'[v] = window'[ejob[v]]
            /\ \A k \in ContentWorker : cjob[k] = ejob[v] =>
                  /\ cpc[k] = "ready" => eLeft'[v] = Size
                  /\ cpc[k] = "send" => eLeft'[v] = window'[ejob[v]] + cLeft[k]
                  /\ cpc[k] = "end" => eLeft'[v] = window'[ejob[v]]
      BY <1>1, <1>2 DEF Balance
    <3>2. /\ epc[v] = "end" => eLeft[v] = 0
          /\ ejob[v] \in closed => eLeft[v] = window[ejob[v]]
          /\ \A k \in ContentWorker : cjob[k] = ejob[v] =>
                /\ cpc[k] = "ready" => eLeft[v] = Size
                /\ cpc[k] = "send" => eLeft[v] = window[ejob[v]] + cLeft[k]
                /\ cpc[k] = "end" => eLeft[v] = window[ejob[v]]
      BY <3>1 DEF IInv, Balance
    <3>3. CASE v = w
      <4>1. eLeft'[w] = eLeft[w] - 1 /\ window'[j] = window[j] - 1
        BY <1>1, <1>2 DEF IInv, TypeOK
      <4>2. \A k \in ContentWorker : cjob[k] = j => cpc[k] # "ready"
        BY <1>1, <1>2 DEF IInv, Answers
      <4>3. \A k \in ContentWorker : cLeft[k] \in 0 .. Size
        BY DEF IInv, TypeOK
      <4>4. ejob[v] = j
        BY <3>3 DEF j
      <4> QED
        BY <1>1, <2>1, <3>2, <3>3, <4>1, <4>2, <4>3, <4>4
    <3>4. CASE v # w
      <4>1. ejob[v] \in Job
        BY <3>1 DEF IInv, TypeOK, Phases
      <4>2. ejob[v] # j
        BY <1>1, <3>4, <4>1 DEF IInv, OnePlace, j
      <4>3. window'[ejob[v]] = window[ejob[v]] /\ eLeft'[v] = eLeft[v]
        BY <1>2, <2>7, <3>4, <4>1, <4>2 DEF IInv, TypeOK
      <4> QED
        BY <3>2, <4>3
    <3> QED
      BY <3>3, <3>4
  <2> QED
    BY <2>3, <2>4, <2>6, <2>8, <2>9, <2>10, <2>11 DEF IInv
<1>3. CASE /\ (eLeft[w] = 0) \/ ~cUp
           /\ epc' = [epc EXCEPT ![w] = "end"]
           /\ UNCHANGED <<eLeft, window>>
  <2>1. TypeOK'
    BY <1>1, <1>3 DEF IInv, TypeOK
  <2>2. Phases'
    BY <1>1, <1>3 DEF IInv, TypeOK, Phases
  <2>3. OnePlace' /\ Answers'
    BY <1>1, <1>3 DEF IInv, OnePlace, Answers, Taken
  <2>4. \A k \in ContentWorker : cpc[k] \in {"ready", "send"} => cUp
    BY DEF IInv, Phases
  <2>5. \A v \in EncodeWorker : v # w => epc'[v] = epc[v]
    BY <1>3 DEF IInv, TypeOK
  <2>6. ReadyHasReader'
    BY <1>1, <1>3, <2>4, <2>5 DEF IInv, ReadyHasReader
  <2>7. ASSUME NEW k \in ContentWorker, cLeft[k] > 0, cjob[k] \in Job
        PROVE  window[cjob[k]] + cLeft[k] # 0
    BY <2>7 DEF IInv, TypeOK
  <2>8. \A k \in ContentWorker : cpc[k] = "send" => cjob[k] \in Job
    BY DEF IInv, TypeOK, Phases
  <2>9. SendersHaveReaders'
    BY <1>1, <1>3, <2>4, <2>5, <2>7, <2>8 DEF IInv, SendersHaveReaders
  <2>10. epc'[w] = "end"
    BY <1>3 DEF IInv, TypeOK
  <2>11. Once' /\ Arrived'
    BY <1>1, <1>3, <2>5, <2>10 DEF IInv, Once, Arrived
  <2>12. Balance'
    BY <1>1, <1>3, <2>5, <2>10 DEF IInv, Balance
  <2> QED
    BY <2>1, <2>2, <2>3, <2>6, <2>9, <2>11, <2>12 DEF IInv
<1> QED
  BY <1>2, <1>3 DEF processGetFile_FILE_TRANSFER, eGoto

LEMMA StepTransferEnd ==
    ASSUME IInv, NEW w \in EncodeWorker, processGetFile_TRANSFER_END(w)
    PROVE  IInv'
<1> DEFINE j == ejob[w]
<1>1. /\ eUp /\ epc[w] = "end" /\ j \in Job
      /\ j \in closed \/ ~cUp
      /\ epc' = [epc EXCEPT ![w] = "remove"]
      /\ ended' = ended \cup {j}
      /\ ejob' = [ejob EXCEPT ![w] = NoJob]
      /\ eLeft' = [eLeft EXCEPT ![w] = 0]
      /\ UNCHANGED <<kind, eUp, cUp, equeue, backlog, cqueue, cpc, cjob,
                     cLeft, closed, reply, ready, window>>
  BY DEF IInv, TypeOK, Phases, processGetFile_TRANSFER_END, eGoto, eJobEnds,
         fate, cvars, waiting, net
<1> HIDE DEF j
<1>2. 0 \in 0 .. Size
  OBVIOUS
<1>3. TypeOK'
  BY <1>1, <1>2 DEF IInv, TypeOK
<1>4. Phases'
  BY <1>1 DEF IInv, TypeOK, Phases
<1>5. NoJob \notin Range(equeue)
  BY RangeOfSeq DEF IInv, TypeOK
<1>6. OnePlace'
  BY <1>1, <1>5 DEF IInv, TypeOK, OnePlace, Taken
<1>7. Answers'
  BY <1>1 DEF IInv, Answers, Taken
<1>8. \A v \in EncodeWorker : epc[v] = "receive" =>
          epc'[v] = epc[v] /\ ejob'[v] = ejob[v] /\ eLeft'[v] = eLeft[v]
  BY <1>1 DEF IInv, TypeOK
<1>9. ReadyHasReader'
  BY <1>1, <1>8 DEF IInv, ReadyHasReader
<1>10. SendersHaveReaders'
  BY <1>1, <1>8 DEF IInv, SendersHaveReaders
<1>11. /\ epc'[w] = "remove" /\ ejob'[w] = NoJob
       /\ \A v \in EncodeWorker : v # w =>
              epc'[v] = epc[v] /\ ejob'[v] = ejob[v] /\ eLeft'[v] = eLeft[v]
  BY <1>1 DEF IInv, TypeOK
<1>12. /\ j \notin Range(equeue)
       /\ \A v \in EncodeWorker : v # w => ejob[v] # j
  BY <1>1 DEF IInv, OnePlace, j
<1>13. NoJob \notin ended /\ NoJob # j
  BY <1>1 DEF IInv, TypeOK
<1>14. Once'
  BY <1>1, <1>11, <1>12, <1>13 DEF IInv, Once
<1>15. Arrived'
  BY <1>1, <1>11 DEF IInv, Arrived
<1>16. Balance'
  BY <1>1, <1>11 DEF IInv, Balance
<1> QED
  BY <1>3, <1>4, <1>6, <1>7, <1>9, <1>10, <1>14, <1>15, <1>16 DEF IInv

-----------------------------------------------------------------------------
(***************************************************************************)
(* The content daemon.                                                     *)
(***************************************************************************)
LEMMA StepServerStart ==
    ASSUME IInv, serverStart
    PROVE  IInv'
<1> DEFINE j == Head(backlog)
<1>1. /\ cUp /\ backlog # << >>
      /\ cqueue' = Append(cqueue, j) /\ backlog' = Tail(backlog)
      /\ UNCHANGED <<kind, eUp, cUp, equeue, epc, ejob, eLeft, ended, cpc,
                     cjob, cLeft, closed, reply, ready, window>>
  BY DEF serverStart, fate, evars, net
<1>2. /\ j \in Job /\ j \in Range(backlog)
      /\ backlog' \in Seq(Job) /\ IsInjective(backlog')
      /\ Range(backlog') = Range(backlog) \ {j}
  BY <1>1, Removed DEF IInv, TypeOK, OnePlace
<1>3. j \notin Range(equeue) /\ j \notin Range(cqueue)
  BY <1>2 DEF IInv, OnePlace
<1>4. /\ cqueue' \in Seq(Job) /\ IsInjective(cqueue')
      /\ Range(cqueue') = Range(cqueue) \cup {j}
  BY <1>1, <1>2, <1>3, Pushed DEF IInv, TypeOK, OnePlace
<1> HIDE DEF j
<1>5. TypeOK'
  BY <1>1, <1>2, <1>4 DEF IInv, TypeOK
<1>6. Phases'
  BY <1>1 DEF IInv, Phases
<1>7. \A i : Taken(i)' <=> Taken(i)
  BY <1>1, <1>2, <1>4 DEF Taken
<1>8. OnePlace'
  BY <1>1, <1>2, <1>3, <1>4, <1>7 DEF IInv, OnePlace
<1>9. Answers' /\ ReadyHasReader' /\ SendersHaveReaders'
  BY <1>1, <1>7 DEF IInv, Answers, ReadyHasReader, SendersHaveReaders
<1>10. Once' /\ Balance'
  BY <1>1 DEF IInv, Once, Balance
<1>11. Arrived'
  BY <1>1, <1>2, <1>4 DEF IInv, Arrived
<1> QED
  BY <1>5, <1>6, <1>8, <1>9, <1>10, <1>11 DEF IInv

LEMMA StepRemove ==
    ASSUME IInv, NEW k \in ContentWorker, run_Remove(k)
    PROVE  IInv'
<1> DEFINE j == Head(cqueue)
<1>1. /\ cUp /\ cqueue # << >> /\ cpc[k] = "remove"
      /\ cqueue' = Tail(cqueue)
      /\ cpc' = [cpc EXCEPT ![k] = "check"]
      /\ cjob' = [cjob EXCEPT ![k] = j]
      /\ UNCHANGED <<kind, eUp, cUp, equeue, epc, ejob, eLeft, ended, backlog,
                     cLeft, closed, reply, ready, window>>
  BY DEF run_Remove, cGoto, fate, evars, net
<1>2. /\ j \in Job /\ j \in Range(cqueue)
      /\ cqueue' \in Seq(Job) /\ IsInjective(cqueue')
      /\ Range(cqueue') = Range(cqueue) \ {j}
  BY <1>1, Removed DEF IInv, TypeOK, OnePlace
<1> HIDE DEF j
<1>3. TypeOK'
  BY <1>1, <1>2 DEF IInv, TypeOK
<1>4. Phases'
  BY <1>1, <1>2 DEF IInv, TypeOK, Phases
<1>5. \A i : Taken(i) => Taken(i)' /\ i # j
  BY <1>1, <1>2 DEF Taken
<1>6. \A i : i = j => Taken(i)' /\ ~Taken(i)
  <2>1. j \notin Range(equeue) /\ j \notin Range(backlog)
    BY <1>2 DEF IInv, OnePlace
  <2> QED
    BY <1>1, <1>2, <2>1 DEF Taken
<1>7. /\ \A l \in ContentWorker : cjob[l] # j
      /\ j \notin closed
  BY <1>5 DEF IInv, OnePlace
<1>8. OnePlace'
  <2>1. /\ cjob'[k] = j
        /\ \A l \in ContentWorker : l # k => cjob'[l] = cjob[l]
    BY <1>1 DEF IInv, TypeOK
  <2>2. \A l \in ContentWorker : Taken(cjob[l])'
    BY <1>5, <1>6, <2>1 DEF IInv, OnePlace
  <2>3. \A l, m \in ContentWorker :
            cjob'[l] = cjob'[m] /\ cjob'[l] # NoJob => l = m
    BY <1>7, <2>1 DEF IInv, OnePlace
  <2>4. \A i \in closed' :
            Taken(i)' /\ \A l \in ContentWorker : cjob'[l] # i
    BY <1>1, <1>5, <1>7, <2>1 DEF IInv, OnePlace
  <2> QED
    BY <1>1, <1>2, <2>2, <2>3, <2>4 DEF IInv, OnePlace
<1>9. reply[j] = "none"
  BY <1>2, <1>6 DEF IInv, Answers
<1>10. \A l \in ContentWorker : cpc'[l] # "check" =>
          cpc'[l] = cpc[l] /\ cjob'[l] = cjob[l] /\ l # k
  BY <1>1 DEF IInv, TypeOK
<1>11. Answers'
  <2>1. \A i \in Job : reply[i] # "none" =>
            \A l \in ContentWorker : cjob'[l] = i => cpc'[l] # "check"
    BY <1>1, <1>9 DEF IInv, TypeOK, Answers
  <2> QED
    BY <1>1, <1>5, <1>10, <2>1 DEF IInv, Answers
<1>12. ReadyHasReader' /\ SendersHaveReaders'
  BY <1>1, <1>10 DEF IInv, ReadyHasReader, SendersHaveReaders
<1>13. /\ cpc'[k] = "check" /\ cjob'[k] = j
       /\ \A l \in ContentWorker :
              l # k => cpc'[l] = cpc[l] /\ cjob'[l] = cjob[l]
  BY <1>1 DEF IInv, TypeOK
<1>14. cjob[k] = NoJob
  BY <1>1 DEF IInv, Phases
<1>15. Once'
  BY <1>1, <1>13 DEF IInv, Once
<1>16. Arrived'
  BY <1>1, <1>2, <1>13, <1>14 DEF IInv, Arrived
<1>17. Balance'
  BY <1>1, <1>13 DEF IInv, Balance
<1> QED
  BY <1>3, <1>4, <1>8, <1>11, <1>12, <1>15, <1>16, <1>17 DEF IInv

(* Nobody has sent READY for what has no answer yet.                       *)
LEMMA StepFileExistReturn ==
    ASSUME IInv, NEW k \in ContentWorker, processPutFile_FileExistReturn(k)
    PROVE  IInv'
<1> DEFINE j == cjob[k]
<1>1. /\ cUp /\ cpc[k] = "check" /\ j \in Job
      /\ cpc' = [cpc EXCEPT ![k] = "ready"]
      /\ reply' = [reply EXCEPT ![j] =
                      IF kind[j] = "good" THEN "ok" ELSE "err"]
      /\ UNCHANGED <<kind, eUp, cUp, equeue, epc, ejob, eLeft, ended, backlog,
                     cqueue, cjob, cLeft, closed, ready, window>>
  BY DEF IInv, TypeOK, Phases, processPutFile_FileExistReturn, cGoto, fate,
         waiting, evars
<1>2. reply[j] = "none"
  BY <1>1 DEF IInv, Answers
<1>3. j \notin ready /\ window[j] = 0 /\ Taken(j)
  BY <1>1, <1>2 DEF IInv, TypeOK, Answers, OnePlace
<1>4. \A l \in ContentWorker : cjob[l] = j => l = k
  BY <1>1 DEF IInv, OnePlace
<1>5. /\ reply'[j] # "none" /\ ((reply'[j] = "ok") <=> (kind[j] = "good"))
      /\ \A i \in Job : i # j => reply'[i] = reply[i]
  BY <1>1 DEF IInv, TypeOK
<1> HIDE DEF j
<1>6. TypeOK'
  BY <1>1 DEF IInv, TypeOK
<1>7. Phases'
  BY <1>1 DEF IInv, TypeOK, Phases
<1>8. OnePlace'
  BY <1>1 DEF IInv, OnePlace, Taken
<1>9. \A l \in ContentWorker : l # k => cpc'[l] = cpc[l] /\ cjob[l] # j
  BY <1>1, <1>4 DEF IInv, TypeOK
<1>10. cpc'[k] = "ready" /\ cjob[k] = j
  BY <1>1 DEF IInv, TypeOK, j
<1>11. Answers'
  <2>1. \A i : Taken(i)' <=> Taken(i)
    BY <1>1 DEF Taken
  <2>2. \A i \in Job : reply'[i] # "none" =>
          /\ Taken(i)
          /\ \A l \in ContentWorker : cjob[l] = i => cpc'[l] # "check"
          /\ (reply'[i] = "ok") <=> (kind[i] = "good")
    BY <1>1, <1>3, <1>5, <1>9, <1>10 DEF IInv, Answers
  <2>3. \A l \in ContentWorker :
          cpc'[l] \in {"ready", "send", "end"} => reply'[cjob[l]] # "none"
    BY <1>1, <1>5, <1>9, <1>10 DEF IInv, TypeOK, Phases, Answers
  <2>4. \A i \in Job : window[i] > 0 =>
          /\ reply'[i] # "none"
          /\ \A l \in ContentWorker : cjob[l] = i => cpc'[l] # "ready"
    BY <1>1, <1>3, <1>5, <1>9, <1>10 DEF IInv, Answers
  <2>5. \A i \in ready : reply'[i] = "ok"
    BY <1>1, <1>3, <1>5 DEF IInv, TypeOK, Answers
  <2>6. \A i \in ended : (i \in closed) \/ (reply'[i] = "err")
    BY <1>1, <1>2, <1>5 DEF IInv, TypeOK, Answers, OnePlace, j
  <2> QED
    BY <1>1, <2>1, <2>2, <2>3, <2>4, <2>5, <2>6 DEF Answers
<1>12. ReadyHasReader' /\ SendersHaveReaders'
  BY <1>1, <1>3, <1>9, <1>10 DEF IInv, ReadyHasReader, SendersHaveReaders
<1>13. Once'
  BY <1>1, <1>9, <1>10 DEF IInv, Once
<1>14. Arrived'
  BY <1>1, <1>5 DEF IInv, TypeOK, Arrived
<1>15. Balance'
  <2>1. \A w \in EncodeWorker :
            epc[w] \in {"receive", "end"} => ejob[w] # j
    BY <1>3 DEF IInv, Once
  <2> QED
    BY <1>1, <1>9, <1>10, <2>1 DEF IInv, Balance
<1> QED
  BY <1>6, <1>7, <1>8, <1>11, <1>12, <1>13, <1>14, <1>15 DEF IInv

LEMMA StepContentDies ==
    ASSUME IInv, ContentDies
    PROVE  IInv'
<1>1. /\ cUp' = FALSE /\ backlog' = << >> /\ cqueue' = << >>
      /\ cpc' = [k \in ContentWorker |-> "remove"]
      /\ cjob' = [k \in ContentWorker |-> NoJob]
      /\ cLeft' = [k \in ContentWorker |-> 0]
      /\ UNCHANGED <<kind, eUp, equeue, epc, ejob, eLeft, ended, closed,
                     reply, ready, window>>
  BY DEF ContentDies, evars, net
<1>2. cLeft' \in [ContentWorker -> 0 .. Size]
  BY <1>1
<1>3. TypeOK'
  BY <1>1, <1>2, EmptyQueue DEF IInv, TypeOK
<1>4. Phases'
  BY <1>1 DEF IInv, Phases
<1>5. NoJob \notin Range(equeue)
  BY RangeOfSeq DEF IInv, TypeOK
<1>6. \A i : Taken(i) => Taken(i)'
  BY <1>1, EmptyQueue DEF Taken
<1>7. Taken(NoJob)'
  BY <1>1, <1>5, EmptyQueue DEF Taken
<1>8. \A j \in closed : j # NoJob
  BY DEF IInv, TypeOK
<1>9. OnePlace'
  BY <1>1, <1>6, <1>7, <1>8, EmptyQueue DEF IInv, OnePlace
<1>10. Answers'
  BY <1>1, <1>6 DEF IInv, Answers
<1>11. ReadyHasReader' /\ SendersHaveReaders'
  BY <1>1 DEF ReadyHasReader, SendersHaveReaders
<1>12. Once' /\ Arrived' /\ Balance'
  BY <1>1 DEF IInv, Once, Arrived, Balance
<1> QED
  BY <1>3, <1>4, <1>9, <1>10, <1>11, <1>12 DEF IInv

(* A worker that begins to send a good file, of which it has sent nothing, *)
(* has read READY: the job is not over, for the connection is open.        *)
LEMMA StepTransferReady ==
    ASSUME IInv, NEW k \in ContentWorker, processPutFile_TransferReady(k)
    PROVE  IInv'
<1> DEFINE j == cjob[k]
<1>1. CASE ContentDies
  BY <1>1, StepContentDies
<1>2. CASE ~ContentDies
  <2>1. /\ cUp /\ cpc[k] = "ready" /\ j \in Job
        /\ j \in ready \/ j \in ended \/ ~eUp
        /\ cpc' = [cpc EXCEPT ![k] = "send"]
        /\ cLeft' = [cLeft EXCEPT ![k] =
                        IF kind[j] = "refused_small" THEN SockBuf ELSE Size]
        /\ UNCHANGED <<kind, eUp, cUp, equeue, epc, ejob, eLeft, ended,
                       backlog, cqueue, cjob, closed, reply, ready, window>>
    BY <1>2 DEF IInv, TypeOK, Phases, processPutFile_TransferReady, cGoto,
                fate, waiting, evars, net
  <2>2. /\ reply[j] # "none" /\ ((reply[j] = "ok") <=> (kind[j] = "good"))
        /\ window[j] = 0 /\ j \notin closed
    <3>1. reply[j] # "none" /\ ((reply[j] = "ok") <=> (kind[j] = "good"))
      BY <2>1 DEF IInv, Answers
    <3>2. window[j] \in 0 .. SockBuf /\ ~ (window[j] > 0)
      BY <2>1 DEF IInv, TypeOK, Answers
    <3>3. j \notin closed
      BY DEF IInv, OnePlace
    <3> QED
      BY <3>1, <3>2, <3>3
  <2>3. eUp /\ kind[j] = "good" => j \in ready
    BY <2>1, <2>2 DEF IInv, Answers
  <2>4. eUp /\ kind[j] = "good" =>
            \E w \in EncodeWorker :
                ejob[w] = j /\ epc[w] = "receive" /\ eLeft[w] = Size
    BY <2>1, <2>3 DEF IInv, ReadyHasReader
  <2>5. kind[j] = "good" => cLeft'[k] = Size /\ window[j] + cLeft'[k] = Size
    BY <2>1, <2>2 DEF IInv, TypeOK
  <2>6. SockBuf \in 0 .. Size /\ Size \in 0 .. Size
    OBVIOUS
  <2>7. TypeOK'
    BY <2>1, <2>6 DEF IInv, TypeOK
  <2>8. \A l \in ContentWorker :
            l # k => cpc'[l] = cpc[l] /\ cLeft'[l] = cLeft[l]
    BY <2>1 DEF IInv, TypeOK
  <2>9. cpc'[k] = "send" /\ cjob[k] = j
    BY <2>1 DEF IInv, TypeOK
  <2> HIDE DEF j
  <2>10. Phases'
    BY <2>1, <2>8, <2>9 DEF IInv, Phases
  <2>11. OnePlace'
    BY <2>1 DEF IInv, OnePlace, Taken
  <2>12. Answers'
    BY <2>1, <2>2, <2>8, <2>9 DEF IInv, Answers, Taken
  <2>13. ReadyHasReader'
    BY <2>1, <2>8, <2>9 DEF IInv, ReadyHasReader
  <2>14. SendersHaveReaders'
    BY <2>1, <2>4, <2>5, <2>8, <2>9 DEF IInv, SendersHaveReaders
  <2>15. Once'
    BY <2>1, <2>8, <2>9 DEF IInv, Once
  <2>16. Arrived'
    BY <2>1 DEF IInv, Arrived
  <2>17. ASSUME NEW w \in EncodeWorker, epc[w] \in {"receive", "end"},
                ejob[w] = j
         PROVE  eLeft[w] = window[j] + cLeft'[k]
    <3>1. j \in ready
      BY <2>17 DEF IInv, Once
    <3>2. kind[j] = "good"
      BY <2>1, <2>2, <3>1 DEF IInv, Answers
    <3>3. eLeft[w] = Size
      BY <2>1, <2>9, <2>17 DEF IInv, Balance
    <3> QED
      BY <2>5, <3>2, <3>3
  <2>18. Balance'
    BY <2>1, <2>8, <2>9, <2>17 DEF IInv, Balance
  <2> QED
    BY <2>7, <2>10, <2>11, <2>12, <2>13, <2>14, <2>15, <2>16, <2>18 DEF IInv
<1> QED
  BY <1>1, <1>2

LEMMA StepSend ==
    ASSUME IInv, NEW k \in ContentWorker, processPutFile_File_Transfer(k)
    PROVE  IInv'
<1> DEFINE j == cjob[k]
<1>1. /\ cUp /\ cpc[k] = "send" /\ j \in Job
      /\ UNCHANGED <<kind, eUp, cUp, equeue, epc, ejob, eLeft, ended, backlog,
                     cqueue, cjob, closed, reply, ready>>
  BY DEF IInv, TypeOK, Phases, processPutFile_File_Transfer, fate, waiting,
         evars
<1>2. \A l \in ContentWorker : cjob[l] = j => l = k
  BY <1>1 DEF IInv, OnePlace
<1>3. CASE /\ cLeft[k] > 0 /\ eUp /\ window[j] < SockBuf
           /\ cLeft' = [cLeft EXCEPT ![k] = @ - 1]
           /\ window' = [window EXCEPT ![j] = @ + 1]
           /\ UNCHANGED cpc
  <2>1. cLeft[k] \in 0 .. Size /\ window[j] \in 0 .. SockBuf
    BY <1>1 DEF IInv, TypeOK
  <2>2. /\ cLeft[k] - 1 \in 0 .. Size /\ window[j] + 1 \in 0 .. SockBuf
        /\ (window[j] + 1) + (cLeft[k] - 1) = window[j] + cLeft[k]
    BY <1>3, <2>1
  <2>3. TypeOK'
    BY <1>1, <1>3, <2>2 DEF IInv, TypeOK
  <2>4. Phases' /\ OnePlace'
    BY <1>1, <1>3 DEF IInv, Phases, OnePlace, Taken
  <2>5. reply[j] # "none"
    BY <1>1 DEF IInv, Answers
  <2>6. /\ window'[j] = window[j] + 1 /\ cLeft'[k] = cLeft[k] - 1
        /\ \A i \in Job : i # j => window'[i] = window[i]
        /\ \A l \in ContentWorker : l # k => cLeft'[l] = cLeft[l]
    BY <1>1, <1>3 DEF IInv, TypeOK
  <2>7. Answers'
    BY <1>1, <1>2, <1>3, <2>5, <2>6 DEF IInv, Answers, Taken
  <2>8. ReadyHasReader'
    BY <1>1, <1>3 DEF IInv, ReadyHasReader
  <2>9. ASSUME NEW l \in ContentWorker, cpc[l] = "send", cLeft'[l] > 0
        PROVE  /\ cLeft[l] > 0
               /\ window'[cjob[l]] + cLeft'[l] = window[cjob[l]] + cLeft[l]
    <3>1. CASE l = k
      BY <1>3, <2>2, <2>6, <3>1
    <3>2. CASE l # k
      <4>1. cjob[l] \in Job /\ cjob[l] # j
        BY <1>2, <2>9, <3>2 DEF IInv, TypeOK, Phases
      <4> QED
        BY <2>6, <2>9, <3>2, <4>1
    <3> QED
      BY <3>1, <3>2
  <2>10. SendersHaveReaders'
    BY <1>1, <1>3, <2>9 DEF IInv, SendersHaveReaders
  <2>11. Once' /\ Arrived'
    BY <1>1, <1>3 DEF IInv, Once, Arrived
  <2>12. j \notin closed
    BY DEF IInv, OnePlace
  <2>13. \A w \in EncodeWorker :
             epc[w] \in {"receive", "end"} => ejob[w] \in Job
    BY DEF IInv, TypeOK, Phases
  <2>14. Balance'
    <3>1. SUFFICES ASSUME cUp, NEW w \in EncodeWorker,
                          epc[w] \in {"receive", "end"}
                   PROVE
            /\ epc[w] = "end" => eLeft[w] = 0
            /\ ejob[w] \in closed => eLeft[w] = window'[ejob[w]]
            /\ \A l \in ContentWorker : cjob[l] = ejob[w] =>
                  /\ cpc[l] = "ready" => eLeft[w] = Size
                  /\ cpc[l] = "send" => eLeft[w] = window'[ejob[w]] + cLeft'[l]
                  /\ cpc[l] = "end" => eLeft[w] = window'[ejob[w]]
      BY <1>1, <1>3 DEF Balance
    <3>2. /\ epc[w] = "end" => eLeft[w] = 0
          /\ ejob[w] \in closed => eLeft[w] = window[ejob[w]]
          /\ \A l \in ContentWorker : cjob[l] = ejob[w] =>
                /\ cpc[l] = "ready" => eLeft[w] = Size
                /\ cpc[l] = "send" => eLeft[w] = window[ejob[w]] + cLeft[l]
                /\ cpc[l] = "end" => eLeft[w] = window[ejob[w]]
      BY <3>1 DEF IInv, Balance
    <3>3. CASE ejob[w] = j
      <4>1. eLeft[w] = window[j] + cLeft[k]
        BY <1>1, <3>2, <3>3
      <4>2. eLeft[w] = window'[j] + cLeft'[k]
        BY <2>1, <2>6, <4>1
      <4> HIDE DEF j
      <4> QED
        BY <1>1, <1>2, <2>12, <3>2, <3>3, <4>2
    <3>4. CASE ejob[w] # j
      <4>1. window'[ejob[w]] = window[ejob[w]]
        BY <2>6, <2>13, <3>1, <3>4
      <4>2. \A l \in ContentWorker :
                cjob[l] = ejob[w] => cLeft'[l] = cLeft[l]
        BY <2>6, <3>4
      <4> HIDE DEF j
      <4> QED
        BY <3>2, <4>1, <4>2
    <3> QED
      BY <3>3, <3>4
  <2> QED
    BY <2>3, <2>4, <2>7, <2>8, <2>10, <2>11, <2>14 DEF IInv
<1>4. CASE /\ (cLeft[k] = 0) \/ ~eUp
           /\ cpc' = [cpc EXCEPT ![k] = "end"]
           /\ UNCHANGED <<cLeft, window>>
  <2>1. TypeOK'
    BY <1>1, <1>4 DEF IInv, TypeOK
  <2>2. /\ cpc'[k] = "end"
        /\ \A l \in ContentWorker : l # k => cpc'[l] = cpc[l]
    BY <1>4 DEF IInv, TypeOK
  <2>3. Phases' /\ OnePlace'
    BY <1>1, <1>4, <2>2 DEF IInv, Phases, OnePlace, Taken
  <2>4. Answers'
    BY <1>1, <1>4, <2>2 DEF IInv, Answers, Taken
  <2>5. ReadyHasReader' /\ SendersHaveReaders'
    BY <1>1, <1>4, <2>2 DEF IInv, ReadyHasReader, SendersHaveReaders
  <2>6. Once'
    BY <1>1, <1>4, <2>2 DEF IInv, Once
  <2>7. Arrived'
    BY <1>1, <1>4 DEF IInv, Arrived
  <2>8. \A w \in EncodeWorker : epc[w] # "remove" => eUp
    BY DEF IInv, Phases
  <2>9. \A w \in EncodeWorker :
            epc[w] \in {"receive", "end"} /\ ejob[w] = j =>
                eLeft[w] = window[j]
    <3>1. SUFFICES ASSUME NEW w \in EncodeWorker,
                          epc[w] \in {"receive", "end"}, ejob[w] = j
                   PROVE  eLeft[w] = window[j]
      OBVIOUS
    <3>2. eLeft[w] = window[j] + cLeft[k]
      BY <1>1, <3>1 DEF IInv, Balance
    <3>3. cLeft[k] = 0
      BY <1>4, <2>8, <3>1
    <3>4. window[j] \in 0 .. SockBuf
      BY <1>1 DEF IInv, TypeOK
    <3> QED
      BY <3>2, <3>3, <3>4
  <2>10. Balance'
    BY <1>1, <1>4, <2>2, <2>9 DEF IInv, Balance
  <2> QED
    BY <2>1, <2>3, <2>4, <2>5, <2>6, <2>7, <2>10 DEF IInv
<1> QED
  BY <1>3, <1>4 DEF processPutFile_File_Transfer, cGoto

LEMMA StepDeleteItem ==
    ASSUME IInv, NEW k \in ContentWorker, run_DeleteItem(k)
    PROVE  IInv'
<1> DEFINE j == cjob[k]
<1>1. /\ cUp /\ cpc[k] = "end" /\ j \in Job
      /\ cpc' = [cpc EXCEPT ![k] = "remove"]
      /\ closed' = closed \cup {j}
      /\ cjob' = [cjob EXCEPT ![k] = NoJob]
      /\ cLeft' = [cLeft EXCEPT ![k] = 0]
      /\ UNCHANGED <<kind, eUp, cUp, equeue, epc, ejob, eLeft, ended, backlog,
                     cqueue, reply, ready, window>>
  BY DEF IInv, TypeOK, Phases, run_DeleteItem, cGoto, fate, waiting, evars, net
<1>2. Taken(j) /\ \A l \in ContentWorker : cjob[l] = j => l = k
  BY <1>1 DEF IInv, OnePlace
<1> HIDE DEF j
<1>3. /\ cpc'[k] = "remove" /\ cjob'[k] = NoJob
      /\ \A l \in ContentWorker : l # k =>
            /\ cpc'[l] = cpc[l] /\ cjob'[l] = cjob[l] /\ cLeft'[l] = cLeft[l]
            /\ cjob[l] # j
  BY <1>1, <1>2 DEF IInv, TypeOK
<1>4. 0 \in 0 .. Size
  OBVIOUS
<1>5. TypeOK'
  BY <1>1, <1>4 DEF IInv, TypeOK
<1>6. Phases'
  BY <1>1, <1>3 DEF IInv, Phases
<1>7. Taken(NoJob)
  BY RangeOfSeq DEF IInv, TypeOK, Taken
<1>8. \A i : Taken(i)' <=> Taken(i)
  BY <1>1 DEF Taken
<1>9. \A i \in closed' : i \in Job
  BY <1>1 DEF IInv, TypeOK
<1>10. OnePlace'
  BY <1>1, <1>2, <1>3, <1>7, <1>8, <1>9 DEF IInv, OnePlace
<1>11. Answers'
  BY <1>1, <1>3, <1>8 DEF IInv, Answers
<1>12. ReadyHasReader' /\ SendersHaveReaders'
  BY <1>1, <1>3 DEF IInv, ReadyHasReader, SendersHaveReaders
<1>13. Once'
  BY <1>1, <1>3 DEF IInv, Once, j
<1>14. reply[j] # "none"
  BY <1>1 DEF IInv, Answers, j
<1>15. Arrived'
  <2>1. \A l \in ContentWorker : cjob[l] # NoJob /\ cjob[l] # j =>
            cjob'[l] = cjob[l]
    BY <1>3 DEF j
  <2> QED
    BY <1>1, <1>14, <2>1 DEF IInv, Arrived
<1>16. \A w \in EncodeWorker :
           cUp /\ epc[w] \in {"receive", "end"} /\ ejob[w] = j =>
               eLeft[w] = window[j]
  BY <1>1 DEF IInv, Balance, j
<1>17. Balance'
  BY <1>1, <1>3, <1>16 DEF IInv, Balance
<1> QED
  BY <1>5, <1>6, <1>10, <1>11, <1>12, <1>13, <1>15, <1>17 DEF IInv

-----------------------------------------------------------------------------
(***************************************************************************)
(* The theorems.                                                           *)
(***************************************************************************)
LEMMA IInvStep == IInv /\ [Next]_vars => IInv'
<1> SUFFICES ASSUME IInv, [Next]_vars PROVE IInv'
  OBVIOUS
<1>1. CASE UNCHANGED vars
  BY <1>1 DEF IInv, TypeOK, Phases, OnePlace, Taken, Answers, ReadyHasReader,
              SendersHaveReaders, Once, Arrived, Balance,
              vars, fate, evars, cvars, waiting, net
<1>2. ASSUME NEW w \in EncodeWorker, Encode(w) PROVE IInv'
  BY <1>2, StepConnect, StepGetExist, StepFileTransfer, StepTransferEnd
     DEF Encode
<1>3. ASSUME NEW k \in ContentWorker, Content(k) PROVE IInv'
  BY <1>3, StepRemove, StepFileExistReturn, StepTransferReady, StepSend,
     StepDeleteItem DEF Content
<1> QED
  BY <1>1, <1>2, <1>3, StepEncodeDies, StepServerStart DEF Next

LEMMA Invariance == Spec => []IInv
BY InitIInv, IInvStep, PTL DEF Spec

(* The types, in every state, for any two pools and any jobs.              *)
THEOREM TypeCorrect == Spec => []TypeOK
<1>1. IInv => TypeOK
  BY DEF IInv
<1> QED
  BY <1>1, Invariance, PTL

(* As long as the encode daemon runs, a content worker in step 9 that has  *)
(* a part of a good file left to write has a worker in step 10 on the      *)
(* other side, which reads exactly that and what is in the socket.  So no  *)
(* good job holds two workers in a wait for each other, however many of    *)
(* them there are and however they were interleaved with refused ones.     *)
THEOREM SendersAreRead == Spec => []SendersHaveReaders
<1>1. IInv => SendersHaveReaders
  BY DEF IInv
<1> QED
  BY <1>1, Invariance, PTL

(* While the content daemon runs, an encode worker that waits for an       *)
(* answer, for contents or for the end signal has a connection in a queue  *)
(* or a worker over there that is still going to give exactly that.        *)
THEOREM NobodyWaitsInVain == Spec => []WaitsAreAnswered
<1>1. IInv => WaitsAreAnswered
  <2> SUFFICES ASSUME IInv, cUp, NEW w \in EncodeWorker
               PROVE
        LET j     == ejob[w]
            Peers == {k \in ContentWorker : cjob[k] = j}
        IN  /\ epc[w] = "exist" /\ reply[j] = "none" =>
                  \/ j \in Range(backlog) \cup Range(cqueue)
                  \/ \E k \in Peers : cpc[k] = "check"
            /\ epc[w] = "receive" /\ eLeft[w] > window[j] =>
                  \E k \in Peers :
                      \/ cpc[k] = "ready"
                      \/ cpc[k] = "send" /\ eLeft[w] = window[j] + cLeft[k]
            /\ epc[w] = "end" /\ j \notin closed =>
                  \E k \in Peers :
                      cpc[k] = "end" \/ (cpc[k] = "send" /\ cLeft[k] = 0)
    BY DEF WaitsAreAnswered
  <2> DEFINE j == ejob[w]
  <2>1. CASE epc[w] = "remove"
    BY <2>1
  <2>2. CASE epc[w] # "remove"
    <3>1. j \in Job
      BY <2>2 DEF IInv, TypeOK, Phases
    <3>2. \/ j \in Range(backlog) \cup Range(cqueue) \cup closed
          \/ \E k \in ContentWorker : cjob[k] = j
      BY <3>1 DEF IInv, Arrived
    <3>3. \A k \in ContentWorker : cjob[k] = j =>
              cpc[k] \in {"check", "ready", "send", "end"}
      BY <3>1 DEF IInv, TypeOK, Phases
    <3>4. /\ j \in closed => reply[j] # "none"
          /\ \A k \in ContentWorker :
                cjob[k] = j /\ cpc[k] \in {"ready", "send", "end"} =>
                    reply[j] # "none"
          /\ reply[j] # "none" =>
                /\ j \notin Range(backlog) \cup Range(cqueue)
                /\ \A k \in ContentWorker : cjob[k] = j => cpc[k] # "check"
      BY <3>1 DEF IInv, Arrived, Answers, Taken
    <3>5. CASE epc[w] = "exist"
      BY <3>2, <3>3, <3>4, <3>5
    <3>6. CASE epc[w] \in {"receive", "end"}
      <4>1. reply[j] # "none"
        BY <3>6 DEF IInv, Once, Answers
      <4>2. j \in closed \/ \E k \in ContentWorker :
                cjob[k] = j /\ cpc[k] \in {"ready", "send", "end"}
        BY <3>2, <3>3, <3>4, <4>1
      <4>3. /\ epc[w] = "end" => eLeft[w] = 0
            /\ j \in closed => eLeft[w] = window[j]
            /\ \A k \in ContentWorker : cjob[k] = j =>
                  /\ cpc[k] = "ready" => eLeft[w] = Size
                  /\ cpc[k] = "send" => eLeft[w] = window[j] + cLeft[k]
                  /\ cpc[k] = "end" => eLeft[w] = window[j]
        BY <3>6 DEF IInv, Balance
      <4>4. window[j] \in 0 .. SockBuf /\ eLeft[w] \in 0 .. Size
        BY <3>1 DEF IInv, TypeOK
      <4>5. \A k \in ContentWorker : cLeft[k] \in 0 .. Size
        BY DEF IInv, TypeOK
      <4> HIDE DEF j
      <4>6. epc[w] = "receive" /\ eLeft[w] > window[j] =>
                \E k \in ContentWorker :
                    /\ cjob[k] = j
                    /\ \/ cpc[k] = "ready"
                       \/ cpc[k] = "send" /\ eLeft[w] = window[j] + cLeft[k]
        BY <4>2, <4>3, <4>4
      <4>7. epc[w] = "end" /\ j \notin closed =>
                \E k \in ContentWorker :
                    /\ cjob[k] = j
                    /\ cpc[k] = "end" \/ (cpc[k] = "send" /\ cLeft[k] = 0)
        BY <4>2, <4>3, <4>4, <4>5
      <4> QED
        BY <3>6, <4>6, <4>7 DEF j
    <3> QED
      BY <2>2, <3>5, <3>6 DEF IInv, TypeOK
  <2> QED
    BY <2>1, <2>2
<1> QED
  BY <1>1, Invariance, PTL
=============================================================================
