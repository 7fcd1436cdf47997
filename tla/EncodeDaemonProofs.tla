------------------------- MODULE EncodeDaemonProofs -------------------------
(***************************************************************************)
(* The descriptors of the encode daemon, for any number of workers,        *)
(* clients and descriptors, and any mixture of requests.                   *)
(***************************************************************************)
EXTENDS EncodeDaemon, SequenceTheorems, FiniteSetTheorems, TLAPS

USE EncodeDaemonAssumption

-----------------------------------------------------------------------------
(***************************************************************************)
(* The descriptor table.                                                   *)
(***************************************************************************)
LEMMA LeastExists ==
    ASSUME NEW T \in SUBSET Nat, T # {}
    PROVE  \E n \in T : \A m \in T : n <= m
<1> DEFINE R == OpToRel(<, Nat)
<1>1. IsWellFoundedOn(R, Nat)
  BY NatLessThanWellFounded, Zenon
<1>2. \A m, n \in Nat : m < n => <<m, n>> \in R
  BY DEF OpToRel
<1> HIDE DEF R
<1>3. PICK n \in T : \A m \in T : ~ (<<m, n>> \in R)
  BY <1>1, WFMin
<1>4. ASSUME NEW m \in T PROVE n <= m
  <2>1. m \in Nat /\ n \in Nat
    OBVIOUS
  <2>2. ~ (m < n)
    BY <1>2, <1>3, <2>1, Zenon
  <2> QED
    BY <2>1, <2>2
<1> QED
  BY <1>4

(* A new descriptor was free, and the others stay what they were.          *)
LEMMA OpenEffect ==
    ASSUME TypeOK, ~Full, NEW x \in OpenOn, Open(x)
    PROVE  /\ NewFd \in Fd /\ fd[NewFd] = Free
           /\ fd' \in [Fd -> OpenOn] /\ fd'[NewFd] = x
           /\ \A n \in Fd : n # NewFd => fd'[n] = fd[n]
<1>1. FreeFds \in SUBSET Nat /\ FreeFds # {}
  BY DEF FreeFds, Full, Fd
<1>2. NewFd \in FreeFds
  BY <1>1, LeastExists DEF NewFd
<1> QED
  BY <1>2 DEF Open, TypeOK, FreeFds

LEMMA CloseEffect ==
    ASSUME TypeOK, NEW n \in Fd, Close(n)
    PROVE  /\ fd' \in [Fd -> OpenOn] /\ fd'[n] = Free
           /\ \A m \in Fd : m # n => fd'[m] = fd[m]
BY DEF Close, TypeOK, Free, OpenOn

LEMMA ObjectTypes ==
    /\ Free \in OpenOn /\ Listener \in OpenOn /\ NoItem \notin WorkItem
    /\ NoFd \notin Fd
    /\ \A c \in Client : /\ Api(c) \in OpenOn /\ Content(c) \in OpenOn
                         /\ Output(c) \in OpenOn
BY DEF Free, Listener, Api, Content, Output, OpenOn, WorkItem, NoItem, Fd, NoFd

-----------------------------------------------------------------------------
(***************************************************************************)
(* The inductive invariant.  That a worker closes nobody else's descriptor *)
(* rests on every client being in one place: waiting for accept, in the    *)
(* queue, with one worker, or done.                                        *)
(***************************************************************************)

(* What a worker has at each point of run.                                 *)
Phases ==
    \A w \in Worker :
        /\ item[w] = NoItem <=> wpc[w] = "remove"
        /\ wpc[w] \in {"remove", "header", "info", "socket"} => conn[w] = NoFd
        /\ wpc[w] \in {"connect", "open", "store"} => conn[w] # NoFd
        /\ file[w] # NoFd <=> wpc[w] \in {"measure", "store"}

InBacklog(c) == \E i \in 1 .. Len(backlog) : backlog[i] = c
InQueue(c)   == \E i \in 1 .. Len(pending) : pending[i].client = c
AtWorker(c)  == \E w \in Worker : item[w] # NoItem /\ client(w) = c

OnePlace ==
    /\ \A i, j \in 1 .. Len(backlog) : backlog[i] = backlog[j] => i = j
    /\ \A i, j \in 1 .. Len(pending) :
          pending[i].client = pending[j].client => i = j
    /\ \A v, w \in Worker :
          item[v] # NoItem /\ item[w] # NoItem /\ client(v) = client(w) => v = w
    /\ \A c \in Client :
          /\ api[c] = "away" =>
                ~InBacklog(c) /\ ~InQueue(c) /\ ~AtWorker(c) /\ c \notin done
          /\ InBacklog(c) => ~InQueue(c) /\ ~AtWorker(c) /\ c \notin done
          /\ InQueue(c) => ~AtWorker(c) /\ c \notin done
          /\ AtWorker(c) => c \notin done

(* What the descriptors that a thread has are open on.                     *)
Own ==
    /\ fd[0] = Listener
    /\ \A i \in 1 .. Len(pending) : fd[pending[i].sd] = Api(pending[i].client)
    /\ \A w \in Worker :
          /\ item[w] # NoItem => fd[item[w].sd] = Api(client(w))
          /\ conn[w] # NoFd => fd[conn[w]] = Content(client(w))
          /\ file[w] # NoFd => fd[file[w]] = Output(client(w))

IInv ==
    /\ TypeOK
    /\ alive => Phases /\ OnePlace /\ Own /\ OnlyJobsLeak
    /\ ~alive => \A n \in Fd : fd[n] = Free

LEMMA InitIInv == Init => IInv
<1> SUFFICES ASSUME Init PROVE IInv
  OBVIOUS
<1>1. TypeOK
  BY ObjectTypes DEF Init, TypeOK, Fd
<1>2. Phases /\ OnePlace /\ Own
  BY DEF Init, Phases, OnePlace, Own, InBacklog, InQueue, AtWorker, Fd
<1>3. OnlyJobsLeak
  BY DEF Init, OnlyJobsLeak, Free, Listener
<1> QED
  BY <1>1, <1>2, <1>3 DEF IInv, Init

LEMMA InvariantImplies == IInv => DescriptorsAreOwn /\ OnlyJobsLeak
<1> SUFFICES ASSUME IInv PROVE DescriptorsAreOwn /\ OnlyJobsLeak
  OBVIOUS
<1>1. DOMAIN pending = 1 .. Len(pending)
  BY LenProperties DEF IInv, TypeOK
<1>2. DescriptorsAreOwn
  BY <1>1 DEF IInv, Own, DescriptorsAreOwn
<1>3. OnlyJobsLeak
  BY DEF IInv, OnlyJobsLeak, Free
<1> QED
  BY <1>2, <1>3

-----------------------------------------------------------------------------
(***************************************************************************)
(* Steps that open and close nothing.                                      *)
(***************************************************************************)
Good == Phases /\ OnePlace /\ Own /\ OnlyJobsLeak

LEMMA OnePlaceStays ==
    ASSUME OnePlace, UNCHANGED <<backlog, pending, item, done>>,
           \A c \in Client : api'[c] = "away" => api[c] = "away"
    PROVE  OnePlace'
BY DEF OnePlace, InBacklog, InQueue, AtWorker, client

LEMMA TableStays ==
    ASSUME Own, OnlyJobsLeak, UNCHANGED <<fd, pending, item, conn, file, done>>
    PROVE  Own' /\ OnlyJobsLeak'
BY DEF Own, OnlyJobsLeak, client

LEMMA StepClientConnects ==
    ASSUME IInv, NEW c \in Client, ClientConnects(c)
    PROVE  IInv'
<1>1. alive /\ TypeOK /\ Good
  BY DEF IInv, ClientConnects, Good
<1>2. /\ api[c] = "away" /\ api' = [api EXCEPT ![c] = "silent"]
      /\ backlog' = Append(backlog, c)
      /\ UNCHANGED <<alive, fd, pending, wpc, item, req, conn, file, done>>
  BY DEF ClientConnects, Moves, wvars
<1>3. /\ Len(backlog) \in Nat /\ backlog' \in Seq(Client)
      /\ Len(backlog') = Len(backlog) + 1
      /\ \A i \in 1 .. Len(backlog) : backlog'[i] = backlog[i]
      /\ backlog'[Len(backlog) + 1] = c
  BY <1>1, <1>2, LenProperties DEF TypeOK
<1>4. TypeOK'
  BY <1>1, <1>2, <1>3 DEF TypeOK
<1>5. /\ ~InBacklog(c) /\ ~InQueue(c) /\ ~AtWorker(c) /\ c \notin done
  BY <1>1, <1>2 DEF Good, OnePlace
<1>6. OnePlace'
  <2>1. \A d \in Client : InBacklog(d)' <=> InBacklog(d) \/ d = c
    BY <1>3 DEF InBacklog
  <2>2. \A d \in Client : /\ InQueue(d)' <=> InQueue(d)
                          /\ AtWorker(d)' <=> AtWorker(d)
    BY <1>2 DEF InQueue, AtWorker, client
  <2>3. \A i, j \in 1 .. Len(backlog') : backlog'[i] = backlog'[j] => i = j
    BY <1>1, <1>3, <1>5 DEF Good, OnePlace, InBacklog
  <2>4. \A d \in Client : api'[d] = "away" => api[d] = "away" /\ d # c
    BY <1>1, <1>2 DEF TypeOK
  <2>5. /\ \A i, j \in 1 .. Len(pending') :
              pending'[i].client = pending'[j].client => i = j
        /\ \A u, w \in Worker : item'[u] # NoItem /\ item'[w] # NoItem
                                 /\ client(u)' = client(w)' => u = w
    BY <1>1, <1>2 DEF Good, OnePlace, client
  <2>6. ASSUME NEW d \in Client
        PROVE  /\ api'[d] = "away" => /\ ~InBacklog(d)' /\ ~InQueue(d)'
                                      /\ ~AtWorker(d)' /\ d \notin done'
               /\ InBacklog(d)' => /\ ~InQueue(d)' /\ ~AtWorker(d)'
                                   /\ d \notin done'
               /\ InQueue(d)' => ~AtWorker(d)' /\ d \notin done'
               /\ AtWorker(d)' => d \notin done'
    BY <1>1, <1>2, <1>5, <2>1, <2>2, <2>4 DEF Good, OnePlace
  <2> QED
    BY <2>3, <2>5, <2>6 DEF OnePlace
<1>7. Own' /\ OnlyJobsLeak'
  BY <1>1, <1>2, TableStays DEF Good
<1>8. Phases'
  BY <1>1, <1>2 DEF Good, Phases
<1> QED
  BY <1>1, <1>2, <1>4, <1>6, <1>7, <1>8 DEF IInv

(* The other steps of a client, and the reads of a worker.                 *)
LEMMA StepQuiet ==
    ASSUME IInv, alive, TypeOK', Phases',
           UNCHANGED <<alive, backlog, fd, pending, item, conn, file, done>>,
           \A c \in Client : api'[c] = "away" => api[c] = "away"
    PROVE  IInv'
<1>1. Good
  BY DEF IInv, Good
<1>2. OnePlace'
  BY <1>1, OnePlaceStays DEF Good
<1>3. Own' /\ OnlyJobsLeak'
  BY <1>1, TableStays DEF Good
<1> QED
  BY <1>2, <1>3 DEF IInv

LEMMA StepClient ==
    ASSUME IInv, NEW c \in Client, ClientSends(c) \/ ClientLeaves(c)
    PROVE  IInv'
<1>1. /\ alive /\ TypeOK /\ Phases /\ api[c] # "away"
      /\ api' = [api EXCEPT ![c] = "sent"] \/ api' = [api EXCEPT ![c] = "closed"]
         \/ api' = [api EXCEPT ![c] = "reset"]
      /\ UNCHANGED <<alive, backlog, fd, pending, wvars, done>>
  BY DEF IInv, ClientSends, ClientLeaves, Moves
<1>2. \A d \in Client : api'[d] = "away" => api[d] = "away"
  BY <1>1 DEF TypeOK
<1>3. TypeOK'
  BY <1>1 DEF TypeOK, wvars
<1>4. Phases'
  BY <1>1 DEF Phases, wvars
<1> QED
  BY <1>1, <1>2, <1>3, <1>4, StepQuiet DEF wvars

LEMMA StepReceiveHeader ==
    ASSUME IInv, NEW w \in Worker, run_ReceiveHeader(w)
    PROVE  IInv'
<1>1. /\ alive /\ TypeOK /\ Phases /\ wpc[w] = "header"
      /\ wpc' = [wpc EXCEPT ![w] = "info"]
      /\ UNCHANGED <<alive, backlog, fd, pending, item, req, conn, file, done>>
      /\ api' = [api EXCEPT ![client(w)] = IF @ = "reset" THEN "closed" ELSE @]
  BY DEF IInv, run_ReceiveHeader, Goto
<1>2. client(w) \in Client
  BY <1>1 DEF Phases, TypeOK, client, WorkItem
<1>3. /\ api' \in [Client -> {"away", "silent", "sent", "closed", "reset"}]
      /\ \A d \in Client : api'[d] = "away" => api[d] = "away"
  BY <1>1, <1>2 DEF TypeOK
<1>4. TypeOK'
  BY <1>1, <1>3 DEF TypeOK
<1>5. Phases'
  BY <1>1 DEF Phases, TypeOK
<1> QED
  BY <1>1, <1>3, <1>4, <1>5, StepQuiet

LEMMA StepReceiveInfo ==
    ASSUME IInv, NEW w \in Worker, run_ReceiveInfo(w)
    PROVE  IInv'
<1>1. PICK to \in {"socket", "delete"} :
         /\ alive /\ wpc[w] = "info" /\ wpc' = [wpc EXCEPT ![w] = to]
         /\ UNCHANGED <<outer, fd, pending, item, conn, file, done>>
  BY DEF run_ReceiveInfo, Goto
<1>2. UNCHANGED <<alive, api, backlog, fd, pending, item, conn, file, done>>
  BY <1>1 DEF outer
<1>3. TypeOK /\ Phases
  BY <1>1 DEF IInv
<1>4. req' \in [Worker -> Kinds \cup {"cleared"}]
  <2>1. CASE UNCHANGED req
    BY <2>1, <1>3 DEF TypeOK
  <2>2. CASE Requested(w)
    BY <2>2, <1>3 DEF TypeOK, Requested
  <2> QED
    BY <2>1, <2>2 DEF run_ReceiveInfo
<1>5. wpc' \in [Worker -> {"remove", "header", "info", "socket", "connect",
                           "look", "measure", "ask", "open", "store",
                           "delete"}]
  BY <1>1, <1>3 DEF TypeOK
<1>6. TypeOK'
  BY <1>2, <1>3, <1>4, <1>5 DEF TypeOK
<1>7. Phases'
  BY <1>1, <1>2, <1>3 DEF Phases, TypeOK
<1> QED
  BY <1>1, <1>2, <1>6, <1>7, StepQuiet

-----------------------------------------------------------------------------
(***************************************************************************)
(* What the steps that open and close descriptors rest on.                 *)
(***************************************************************************)
LEMMA Objects ==
    /\ Free.what = "free" /\ Listener.what = "listener"
    /\ \A c : /\ Api(c).what = "api" /\ Api(c).of = c
              /\ Content(c).what = "content" /\ Content(c).of = c
              /\ Output(c).what = "output" /\ Output(c).of = c
BY DEF Free, Listener, Api, Content, Output

LEMMA PendingType ==
    ASSUME TypeOK
    PROVE  /\ Len(pending) \in Nat /\ DOMAIN pending = 1 .. Len(pending)
           /\ \A i \in 1 .. Len(pending) : /\ pending[i].client \in Client
                                           /\ pending[i].sd \in Fd
<1>1. pending \in Seq(WorkItem)
  BY DEF TypeOK
<1>2. \A i \in 1 .. Len(pending) : pending[i] \in WorkItem
  BY <1>1, ElementOfSeq
<1> QED
  BY <1>1, <1>2, LenProperties DEF WorkItem

(* Opening takes nothing away from a thread.                               *)
LEMMA OpenKeeps ==
    ASSUME IInv, alive, ~Full, NEW x \in OpenOn, Open(x)
    PROVE  /\ fd'[0] = Listener
           /\ \A i \in 1 .. Len(pending) :
                 /\ pending[i].sd # NewFd
                 /\ fd'[pending[i].sd] = Api(pending[i].client)
           /\ \A w \in Worker :
                 /\ item[w] # NoItem => /\ item[w].sd # NewFd
                                        /\ fd'[item[w].sd] = Api(client(w))
                 /\ conn[w] # NoFd => /\ conn[w] # NewFd
                                      /\ fd'[conn[w]] = Content(client(w))
                 /\ file[w] # NoFd => /\ file[w] # NewFd
                                      /\ fd'[file[w]] = Output(client(w))
<1>1. TypeOK /\ Own
  BY DEF IInv
<1>2. /\ NewFd \in Fd /\ fd[NewFd] = Free
      /\ \A n \in Fd : fd[n] # Free => fd'[n] = fd[n] /\ n # NewFd
  BY <1>1, OpenEffect
<1>3. 0 \in Fd
  BY DEF Fd
<1>4. \A i \in 1 .. Len(pending) : pending[i].sd \in Fd
  BY <1>1, PendingType
<1>5. \A w \in Worker : /\ item[w] # NoItem => item[w].sd \in Fd
                        /\ conn[w] # NoFd => conn[w] \in Fd
                        /\ file[w] # NoFd => file[w] \in Fd
  BY <1>1 DEF TypeOK, WorkItem
<1>6. \A c : Api(c) # Free /\ Content(c) # Free /\ Output(c) # Free
  BY Objects
<1>7. Listener # Free
  BY Objects
<1> QED
  BY <1>1, <1>2, <1>3, <1>4, <1>5, <1>6, <1>7 DEF Own

(* Nobody has a descriptor but one thread.                                 *)
LEMMA OnlyOneHas ==
    ASSUME IInv, alive, NEW w \in Worker, item[w] # NoItem
    PROVE  /\ client(w) \in Client
           /\ \A i \in 1 .. Len(pending) : pending[i].client # client(w)
           /\ \A v \in Worker : v # w /\ item[v] # NoItem => client(v) # client(w)
           /\ \A v \in Worker : conn[v] # NoFd \/ file[v] # NoFd => item[v] # NoItem
           /\ client(w) \notin done
<1>1. TypeOK /\ Phases /\ OnePlace
  BY DEF IInv
<1>2. client(w) \in Client
  BY <1>1 DEF TypeOK, WorkItem, client
<1>3. AtWorker(client(w))
  BY DEF AtWorker
<1>4. ~InQueue(client(w)) /\ client(w) \notin done
  BY <1>1, <1>2, <1>3 DEF OnePlace
<1>5. \A v \in Worker : conn[v] # NoFd \/ file[v] # NoFd => item[v] # NoItem
  BY <1>1 DEF Phases
<1>6. \A i \in 1 .. Len(pending) : pending[i].client # client(w)
  BY <1>4 DEF InQueue
<1>7. \A v \in Worker : v # w /\ item[v] # NoItem => client(v) # client(w)
  BY <1>1 DEF OnePlace
<1> QED
  BY <1>2, <1>4, <1>5, <1>6, <1>7

-----------------------------------------------------------------------------
(***************************************************************************)
(* The steps that move a client.                                           *)
(***************************************************************************)
LEMMA StepServerStart ==
    ASSUME IInv, serverStart
    PROVE  IInv'
<1> DEFINE c == Head(backlog)
           x == [client |-> c, sd |-> NewFd]
<1>1. /\ alive /\ TypeOK /\ Phases /\ OnePlace /\ Own /\ OnlyJobsLeak
      /\ backlog # << >> /\ ~Full /\ Open(Api(c))
      /\ pending' = Append(pending, x) /\ backlog' = Tail(backlog)
      /\ UNCHANGED <<alive, api, wpc, item, req, conn, file, done>>
  BY DEF IInv, serverStart, wvars
<1>2. /\ c \in Client /\ c = backlog[1]
      /\ Len(backlog) \in Nat /\ Len(backlog) >= 1
      /\ backlog' \in Seq(Client) /\ Len(backlog') = Len(backlog) - 1
      /\ \A i \in 1 .. Len(backlog') : backlog'[i] = backlog[i + 1]
  BY <1>1, HeadTailProperties, EmptySeq, ElementOfSeq, LenProperties DEF TypeOK
<1>3. Api(c) \in OpenOn
  BY <1>2, ObjectTypes
<1>4. /\ NewFd \in Fd /\ fd[NewFd] = Free
      /\ fd' \in [Fd -> OpenOn] /\ fd'[NewFd] = Api(c)
      /\ \A n \in Fd : n # NewFd => fd'[n] = fd[n]
  BY <1>1, <1>3, OpenEffect
<1>5. x \in WorkItem
  BY <1>2, <1>4 DEF WorkItem
<1> HIDE DEF c
<1>6. /\ Len(pending) \in Nat /\ pending' \in Seq(WorkItem)
      /\ Len(pending') = Len(pending) + 1 /\ DOMAIN pending' = 1 .. Len(pending')
      /\ \A i \in 1 .. Len(pending) : pending'[i] = pending[i]
      /\ pending'[Len(pending) + 1] = x
  BY <1>1, <1>5, LenProperties DEF TypeOK
<1>7. TypeOK'
  BY <1>1, <1>2, <1>4, <1>6 DEF TypeOK
<1>8. InBacklog(c)
  BY <1>2 DEF InBacklog
<1>9. ~InQueue(c) /\ ~AtWorker(c) /\ c \notin done /\ api[c] # "away"
  BY <1>1, <1>2, <1>8 DEF OnePlace
<1>10. OnePlace'
  <2>1. \A d \in Client : InBacklog(d)' => InBacklog(d) /\ d # c
    <3>1. ASSUME NEW d \in Client, NEW i \in 1 .. Len(backlog'), backlog'[i] = d
          PROVE  InBacklog(d) /\ d # c
      <4>1. i + 1 \in 1 .. Len(backlog) /\ backlog[i + 1] = d /\ i + 1 # 1
        BY <1>2, <3>1
      <4>2. 1 \in 1 .. Len(backlog)
        BY <1>2
      <4> QED
        BY <4>1, <4>2, <1>1, <1>2 DEF OnePlace, InBacklog
    <3> QED
      BY <3>1 DEF InBacklog
  <2>2. \A d \in Client : InQueue(d)' <=> InQueue(d) \/ d = c
    BY <1>6 DEF InQueue
  <2>3. \A d \in Client : AtWorker(d)' <=> AtWorker(d)
    BY <1>1 DEF AtWorker, client
  <2>4. \A i, j \in 1 .. Len(backlog') : backlog'[i] = backlog'[j] => i = j
    <3>1. \A i \in 1 .. Len(backlog') : i + 1 \in 1 .. Len(backlog)
      BY <1>2
    <3> QED
      BY <1>1, <1>2, <3>1 DEF OnePlace
  <2>5. \A i, j \in 1 .. Len(pending') :
           pending'[i].client = pending'[j].client => i = j
    BY <1>1, <1>6, <1>9 DEF OnePlace, InQueue
  <2>6. \A u, w \in Worker : item'[u] # NoItem /\ item'[w] # NoItem
                             /\ client(u)' = client(w)' => u = w
    BY <1>1 DEF OnePlace, client
  <2>7. ASSUME NEW d \in Client
        PROVE  /\ api'[d] = "away" => /\ ~InBacklog(d)' /\ ~InQueue(d)'
                                      /\ ~AtWorker(d)' /\ d \notin done'
               /\ InBacklog(d)' => /\ ~InQueue(d)' /\ ~AtWorker(d)'
                                   /\ d \notin done'
               /\ InQueue(d)' => ~AtWorker(d)' /\ d \notin done'
               /\ AtWorker(d)' => d \notin done'
    BY <1>1, <1>9, <2>1, <2>2, <2>3 DEF OnePlace
  <2> QED
    BY <2>4, <2>5, <2>6, <2>7 DEF OnePlace
<1>11. Own'
  <2>1. \A i \in 1 .. Len(pending') : fd'[pending'[i].sd] = Api(pending'[i].client)
    BY <1>1, <1>3, <1>4, <1>6, OpenKeeps
  <2> QED
    BY <1>1, <1>3, <2>1, OpenKeeps DEF Own, client
<1>12. OnlyJobsLeak'
  <2>1. \A n \in Fd : fd'[n].what = "api" =>
              \/ \E i \in 1 .. Len(pending') : pending'[i].sd = n
              \/ \E w \in Worker : item'[w].sd = n
    <3>1. /\ Len(pending) + 1 \in 1 .. Len(pending')
          /\ pending'[Len(pending) + 1].sd = NewFd
      BY <1>6
    <3>2. ASSUME NEW n \in Fd, n # NewFd, fd'[n].what = "api"
          PROVE  \/ \E i \in 1 .. Len(pending') : pending'[i].sd = n
                 \/ \E w \in Worker : item'[w].sd = n
      <4>1. \/ \E i \in 1 .. Len(pending) : pending[i].sd = n
            \/ \E w \in Worker : item[w].sd = n
        BY <1>1, <1>4, <3>2, PendingType DEF OnlyJobsLeak
      <4>2. \A i \in 1 .. Len(pending) : i \in 1 .. Len(pending')
        BY <1>6
      <4> QED
        BY <1>1, <1>6, <4>1, <4>2
    <3> QED
      BY <3>1, <3>2
  <2>2. \A n \in Fd : fd'[n].what = "output" => \E w \in Worker : file'[w] = n
    BY <1>1, <1>4, Objects DEF OnlyJobsLeak
  <2>3. \A n \in Fd : fd'[n].what = "content" =>
              /\ \A m \in Fd : fd'[m] = fd'[n] => m = n
              /\ fd'[n].of \in done' \/ \E w \in Worker : conn'[w] = n
    BY <1>1, <1>4, Objects DEF OnlyJobsLeak
  <2> QED
    BY <2>1, <2>2, <2>3, <1>6 DEF OnlyJobsLeak
<1>13. Phases'
  BY <1>1 DEF Phases
<1> QED
  BY <1>1, <1>7, <1>10, <1>11, <1>12, <1>13 DEF IInv

LEMMA StepRemove ==
    ASSUME IInv, NEW w \in Worker, run_Remove(w)
    PROVE  IInv'
<1> DEFINE x == Head(pending)
           c == x.client
<1>1. /\ alive /\ TypeOK /\ Phases /\ OnePlace /\ Own /\ OnlyJobsLeak
      /\ wpc[w] = "remove" /\ wpc' = [wpc EXCEPT ![w] = "header"]
      /\ pending # << >> /\ pending' = Tail(pending)
      /\ item' = [item EXCEPT ![w] = x]
      /\ UNCHANGED <<alive, api, backlog, fd, req, conn, file, done>>
  BY DEF IInv, run_Remove, Goto, outer
<1>2. /\ x = pending[1] /\ x \in WorkItem /\ c \in Client
      /\ Len(pending) \in Nat /\ Len(pending) >= 1
      /\ pending' \in Seq(WorkItem) /\ Len(pending') = Len(pending) - 1
      /\ DOMAIN pending' = 1 .. Len(pending')
      /\ \A i \in 1 .. Len(pending') : pending'[i] = pending[i + 1]
  <2>1. /\ pending \in Seq(WorkItem) /\ pending # << >>
    BY <1>1 DEF TypeOK
  <2>2. Len(pending) \in Nat /\ Len(pending) >= 1 /\ x = pending[1]
    BY <2>1, EmptySeq, LenProperties
  <2>3. /\ pending' \in Seq(WorkItem) /\ Len(pending') = Len(pending) - 1
        /\ \A i \in 1 .. Len(pending') : pending'[i] = pending[i + 1]
    BY <1>1, <2>1, HeadTailProperties
  <2>4. x \in WorkItem
    BY <2>1, <2>2, ElementOfSeq
  <2>5. DOMAIN pending' = 1 .. Len(pending')
    BY <2>3, LenProperties
  <2> QED
    BY <2>2, <2>3, <2>4, <2>5 DEF WorkItem
<1> HIDE DEF x
<1>3. /\ 1 \in 1 .. Len(pending)
      /\ \A i \in 1 .. Len(pending') : i + 1 \in 1 .. Len(pending)
  BY <1>2
<1>4. item[w] = NoItem /\ conn[w] = NoFd /\ file[w] = NoFd /\ x # NoItem
  BY <1>1, <1>2, ObjectTypes DEF Phases
<1>5. InQueue(c) /\ ~AtWorker(c) /\ c \notin done /\ api[c] # "away"
      /\ ~InBacklog(c)
  <2>1. InQueue(c)
    BY <1>2, <1>3 DEF InQueue
  <2> QED
    BY <1>1, <1>2, <2>1 DEF OnePlace
<1>6. item'[w] = x /\ \A v \in Worker : v # w => item'[v] = item[v]
  BY <1>1 DEF TypeOK
<1>7. TypeOK'
  BY <1>1, <1>2 DEF TypeOK
<1>8. Phases'
  BY <1>1, <1>4, <1>6 DEF Phases, TypeOK
<1>9. OnePlace'
  <2>1. \A d \in Client : InBacklog(d)' <=> InBacklog(d)
    BY <1>1 DEF InBacklog
  <2>2. \A d \in Client : InQueue(d)' => InQueue(d) /\ d # c
    <3>1. ASSUME NEW d \in Client, NEW i \in 1 .. Len(pending'),
                 pending'[i].client = d
          PROVE  InQueue(d) /\ d # c
      <4>1. i + 1 \in 1 .. Len(pending) /\ pending[i + 1].client = d /\ i + 1 # 1
        BY <1>2, <1>3, <3>1
      <4> QED
        BY <4>1, <1>1, <1>2, <1>3 DEF OnePlace, InQueue
    <3> QED
      BY <3>1 DEF InQueue
  <2>3. \A d \in Client : AtWorker(d)' => AtWorker(d) \/ d = c
    BY <1>6 DEF AtWorker, client
  <2>4. \A i, j \in 1 .. Len(pending') :
           pending'[i].client = pending'[j].client => i = j
    BY <1>1, <1>2, <1>3 DEF OnePlace
  <2>5. \A u, v \in Worker : item'[u] # NoItem /\ item'[v] # NoItem
                             /\ client(u)' = client(v)' => u = v
    BY <1>1, <1>5, <1>6 DEF OnePlace, AtWorker, client
  <2>6. ASSUME NEW d \in Client
        PROVE  /\ api'[d] = "away" => /\ ~InBacklog(d)' /\ ~InQueue(d)'
                                      /\ ~AtWorker(d)' /\ d \notin done'
               /\ InBacklog(d)' => /\ ~InQueue(d)' /\ ~AtWorker(d)'
                                   /\ d \notin done'
               /\ InQueue(d)' => ~AtWorker(d)' /\ d \notin done'
               /\ AtWorker(d)' => d \notin done'
    BY <1>1, <1>5, <2>1, <2>2, <2>3 DEF OnePlace
  <2> QED
    BY <1>1, <2>4, <2>5, <2>6 DEF OnePlace
<1>10. Own'
  <2>1. \A i \in 1 .. Len(pending') : fd'[pending'[i].sd] = Api(pending'[i].client)
    BY <1>1, <1>2, <1>3 DEF Own
  <2>2. \A v \in Worker : item'[v] # NoItem => fd'[item'[v].sd] = Api(client(v)')
    BY <1>1, <1>2, <1>3, <1>6 DEF Own, client
  <2>3. \A v \in Worker :
           /\ conn[v] # NoFd => v # w /\ client(v)' = client(v)
           /\ file[v] # NoFd => v # w /\ client(v)' = client(v)
    BY <1>4, <1>6 DEF client
  <2> QED
    BY <1>1, <2>1, <2>2, <2>3 DEF Own
<1>11. OnlyJobsLeak'
  <2>1. ASSUME NEW n \in Fd, fd[n].what = "api"
        PROVE  \/ \E i \in 1 .. Len(pending') : pending'[i].sd = n
               \/ \E v \in Worker : item'[v].sd = n
    <3>1. CASE \E v \in Worker : item[v].sd = n
      <4>1. NoItem.sd \notin Fd
        BY ObjectTypes DEF NoItem
      <4> QED
        BY <1>4, <1>6, <3>1, <4>1
    <3>2. ASSUME NEW i \in 1 .. Len(pending), pending[i].sd = n
          PROVE  \/ \E j \in 1 .. Len(pending') : pending'[j].sd = n
                 \/ \E v \in Worker : item'[v].sd = n
      <4>1. CASE i = 1
        BY <1>2, <1>6, <3>2, <4>1
      <4>2. CASE i # 1
        <5>1. i - 1 \in 1 .. Len(pending') /\ (i - 1) + 1 = i
          BY <1>2, <3>2, <4>2
        <5>2. pending'[i - 1] = pending[i]
          BY <1>2, <5>1
        <5> QED
          BY <3>2, <5>1, <5>2
      <4> QED
        BY <4>1, <4>2
    <3> QED
      BY <1>1, <2>1, <3>1, <3>2, PendingType DEF OnlyJobsLeak
  <2> QED
    BY <1>1, <1>2, <2>1 DEF OnlyJobsLeak
<1> QED
  BY <1>1, <1>7, <1>8, <1>9, <1>10, <1>11 DEF IInv

(* What a worker closes is nobody else's, and nobody uses it any more.     *)
LEMMA CloseKeeps ==
    ASSUME IInv, alive, NEW w \in Worker, item[w] # NoItem,
           NEW n \in Fd, Close(n),
           fd[n] \in {Api(client(w)), Content(client(w)), Output(client(w))}
    PROVE  /\ fd'[0] = Listener
           /\ \A i \in 1 .. Len(pending) :
                 fd'[pending[i].sd] = Api(pending[i].client)
           /\ \A v \in Worker : v # w =>
                 /\ item[v] # NoItem => fd'[item[v].sd] = Api(client(v))
                 /\ conn[v] # NoFd => fd'[conn[v]] = Content(client(v))
                 /\ file[v] # NoFd => fd'[file[v]] = Output(client(v))
<1>1. TypeOK /\ Phases /\ Own
  BY DEF IInv
<1>2. /\ fd[n].what \in {"api", "content", "output"} /\ fd[n].of = client(w)
  BY Objects
<1>3. \A m \in Fd : m # n => fd'[m] = fd[m]
  BY <1>1, CloseEffect
<1>4. 0 # n /\ 0 \in Fd
  BY <1>1, <1>2, Objects DEF Own, Fd
<1>5. \A i \in 1 .. Len(pending) : /\ pending[i].sd \in Fd
                                   /\ fd[pending[i].sd].of # client(w)
  BY <1>1, PendingType, OnlyOneHas, Objects DEF Own
<1>6. ASSUME NEW v \in Worker, v # w
      PROVE  /\ item[v] # NoItem => item[v].sd \in Fd /\ item[v].sd # n
             /\ conn[v] # NoFd => conn[v] \in Fd /\ conn[v] # n
             /\ file[v] # NoFd => file[v] \in Fd /\ file[v] # n
  <2>1. item[v] # NoItem \/ conn[v] # NoFd \/ file[v] # NoFd
           => client(v) # client(w)
    BY <1>6, OnlyOneHas
  <2>2. /\ item[v] # NoItem => item[v].sd \in Fd
        /\ conn[v] # NoFd => conn[v] \in Fd
        /\ file[v] # NoFd => file[v] \in Fd
    BY <1>1 DEF TypeOK, WorkItem
  <2>3. /\ item[v] # NoItem => fd[item[v].sd].of = client(v)
        /\ conn[v] # NoFd => fd[conn[v]].of = client(v)
        /\ file[v] # NoFd => fd[file[v]].of = client(v)
    BY <1>1, Objects DEF Own
  <2> QED
    BY <1>2, <2>1, <2>2, <2>3
<1> QED
  BY <1>1, <1>2, <1>3, <1>4, <1>5, <1>6 DEF Own

LEMMA StepDeleteItem ==
    ASSUME IInv, NEW w \in Worker, run_DeleteItem(w)
    PROVE  IInv'
<1> DEFINE c == client(w)
           n == item[w].sd
<1>1. /\ alive /\ TypeOK /\ Phases /\ OnePlace /\ Own /\ OnlyJobsLeak
      /\ wpc[w] = "delete" /\ wpc' = [wpc EXCEPT ![w] = "remove"]
      /\ Close(n)
      /\ item' = [item EXCEPT ![w] = NoItem]
      /\ req' = [req EXCEPT ![w] = "cleared"]
      /\ conn' = [conn EXCEPT ![w] = NoFd]
      /\ done' = done \cup {c}
      /\ UNCHANGED <<alive, api, backlog, pending, file>>
  BY DEF IInv, run_DeleteItem, Goto, outer
<1>2. /\ item[w] # NoItem /\ file[w] = NoFd /\ n \in Fd /\ c \in Client
      /\ fd[n] = Api(c)
  <2>1. item[w] # NoItem /\ file[w] = NoFd
    BY <1>1 DEF Phases
  <2> QED
    BY <1>1, <2>1 DEF TypeOK, WorkItem, Own, client
<1>3. /\ fd' \in [Fd -> OpenOn] /\ fd'[n] = Free
      /\ \A m \in Fd : m # n => fd'[m] = fd[m]
  BY <1>1, <1>2, CloseEffect
<1>4. /\ item'[w] = NoItem /\ conn'[w] = NoFd
      /\ \A v \in Worker : v # w => item'[v] = item[v] /\ conn'[v] = conn[v]
  BY <1>1 DEF TypeOK
<1>5. AtWorker(c) /\ ~InBacklog(c) /\ ~InQueue(c) /\ api[c] # "away"
  <2>1. AtWorker(c)
    BY <1>2 DEF AtWorker
  <2> QED
    BY <1>1, <1>2, <2>1 DEF OnePlace
<1> HIDE DEF c, n
<1>6. TypeOK'
  BY <1>1, <1>2, <1>3 DEF TypeOK
<1>7. Phases'
  BY <1>1, <1>2, <1>4 DEF Phases, TypeOK
<1>8. OnePlace'
  <2>1. \A d \in Client : /\ InBacklog(d)' <=> InBacklog(d)
                          /\ InQueue(d)' <=> InQueue(d)
    BY <1>1 DEF InBacklog, InQueue
  <2>2. \A d \in Client : AtWorker(d)' => AtWorker(d) /\ d # c
    <3>1. ASSUME NEW d \in Client, NEW v \in Worker,
                 item'[v] # NoItem, client(v)' = d
          PROVE  AtWorker(d) /\ d # c
      <4>1. v # w /\ item[v] # NoItem /\ client(v) = d
        BY <1>4, <3>1 DEF client
      <4> QED
        BY <1>1, <1>2, <4>1 DEF OnePlace, AtWorker, c
    <3> QED
      BY <3>1 DEF AtWorker
  <2>3. \A u, v \in Worker : item'[u] # NoItem /\ item'[v] # NoItem
                             /\ client(u)' = client(v)' => u = v
    BY <1>1, <1>4 DEF OnePlace, client
  <2>4. ASSUME NEW d \in Client
        PROVE  /\ api'[d] = "away" => /\ ~InBacklog(d)' /\ ~InQueue(d)'
                                      /\ ~AtWorker(d)' /\ d \notin done'
               /\ InBacklog(d)' => /\ ~InQueue(d)' /\ ~AtWorker(d)'
                                   /\ d \notin done'
               /\ InQueue(d)' => ~AtWorker(d)' /\ d \notin done'
               /\ AtWorker(d)' => d \notin done'
    BY <1>1, <1>5, <2>1, <2>2 DEF OnePlace
  <2> QED
    BY <1>1, <2>3, <2>4 DEF OnePlace
<1>9. Own'
  <2>1. /\ fd'[0] = Listener
        /\ \A i \in 1 .. Len(pending) :
              fd'[pending[i].sd] = Api(pending[i].client)
        /\ \A v \in Worker : v # w =>
              /\ item[v] # NoItem => fd'[item[v].sd] = Api(client(v))
              /\ conn[v] # NoFd => fd'[conn[v]] = Content(client(v))
              /\ file[v] # NoFd => fd'[file[v]] = Output(client(v))
    BY <1>1, <1>2, CloseKeeps DEF c
  <2> QED
    BY <1>1, <1>2, <1>4, <2>1 DEF Own, client
<1>10. OnlyJobsLeak'
  <2>1. ASSUME NEW m \in Fd, m # n, fd[m].what = "api"
        PROVE  \/ \E i \in 1 .. Len(pending) : pending[i].sd = m
               \/ \E v \in Worker : item'[v].sd = m
    BY <1>1, <1>4, <2>1, PendingType DEF OnlyJobsLeak, n
  <2>2. ASSUME NEW m \in Fd, m # n, fd[m].what = "content"
        PROVE  /\ \A k \in Fd : fd'[k] = fd[m] => k = m
               /\ fd[m].of \in done' \/ \E v \in Worker : conn'[v] = m
    <3>1. \A k \in Fd : fd'[k] = fd[m] => k = m
      BY <1>1, <1>3, <2>2, Objects DEF OnlyJobsLeak
    <3>2. conn[w] = m => fd[m].of = c
      BY <1>1, <2>2, Objects, ObjectTypes DEF Own, c
    <3> QED
      BY <1>1, <1>4, <2>2, <3>1, <3>2 DEF OnlyJobsLeak
  <2>3. DOMAIN pending' = 1 .. Len(pending)
    BY <1>1, PendingType
  <2>4. \A m \in Fd : fd'[m].what # "free" => m # n /\ fd'[m] = fd[m]
    BY <1>3, Objects
  <2>5. \A m \in Fd : fd'[m].what = "api" =>
              \/ \E i \in DOMAIN pending' : pending'[i].sd = m
              \/ \E v \in Worker : item'[v].sd = m
    BY <1>1, <2>1, <2>3, <2>4
  <2>6. \A m \in Fd : fd'[m].what = "output" => \E v \in Worker : file'[v] = m
    BY <1>1, <2>4 DEF OnlyJobsLeak
  <2>7. \A m \in Fd : fd'[m].what = "content" =>
              /\ \A k \in Fd : fd'[k] = fd'[m] => k = m
              /\ fd'[m].of \in done' \/ \E v \in Worker : conn'[v] = m
    BY <2>2, <2>4
  <2> QED
    BY <2>5, <2>6, <2>7 DEF OnlyJobsLeak
<1> QED
  BY <1>1, <1>6, <1>7, <1>8, <1>9, <1>10 DEF IInv

-----------------------------------------------------------------------------
(***************************************************************************)
(* The steps of a job.                                                     *)
(***************************************************************************)
LEMMA StepSocket ==
    ASSUME IInv, NEW w \in Worker, connect_Socket(w)
    PROVE  IInv'
<1> DEFINE c == client(w)
           n == NewFd
<1>1. /\ alive /\ TypeOK /\ Phases /\ OnePlace /\ Own /\ OnlyJobsLeak
      /\ wpc[w] = "socket"
      /\ UNCHANGED <<alive, api, backlog, pending, item, req, file, done>>
  BY DEF IInv, connect_Socket, Goto, outer
<1>2. item[w] # NoItem /\ conn[w] = NoFd
  BY <1>1 DEF Phases
<1>3. CASE Full
  <2>1. wpc' = [wpc EXCEPT ![w] = "look"] /\ UNCHANGED <<fd, conn>>
    BY <1>3 DEF connect_Socket, Goto
  <2>2. TypeOK'
    BY <1>1, <2>1 DEF TypeOK
  <2>3. Phases'
    BY <1>1, <2>1 DEF Phases, TypeOK
  <2> QED
    BY <1>1, <2>1, <2>2, <2>3, StepQuiet
<1>4. CASE ~Full
  <2>1. /\ wpc' = [wpc EXCEPT ![w] = "connect"]
        /\ Open(Content(c)) /\ conn' = [conn EXCEPT ![w] = n]
    BY <1>4 DEF connect_Socket, Goto
  <2>2. c \in Client /\ Content(c) \in OpenOn /\ c \notin done
    BY <1>1, <1>2, OnlyOneHas, ObjectTypes
  <2>3. /\ n \in Fd /\ fd[n] = Free
        /\ fd' \in [Fd -> OpenOn] /\ fd'[n] = Content(c)
        /\ \A m \in Fd : m # n => fd'[m] = fd[m]
    BY <1>1, <1>4, <2>1, <2>2, OpenEffect
  <2>4. n # NoFd /\ conn'[w] = n /\ \A v \in Worker : v # w => conn'[v] = conn[v]
    BY <1>1, <2>1, <2>3, ObjectTypes DEF TypeOK
  <2>5. /\ fd'[0] = Listener
        /\ \A i \in 1 .. Len(pending) :
              fd'[pending[i].sd] = Api(pending[i].client)
        /\ \A v \in Worker :
              /\ item[v] # NoItem => fd'[item[v].sd] = Api(client(v))
              /\ conn[v] # NoFd => fd'[conn[v]] = Content(client(v))
              /\ file[v] # NoFd => fd'[file[v]] = Output(client(v))
    BY <1>1, <1>4, <2>1, <2>2, OpenKeeps
  <2> HIDE DEF c, n
  <2>6. TypeOK'
    BY <1>1, <2>1, <2>3 DEF TypeOK
  <2>7. Phases'
    BY <1>1, <1>2, <2>1, <2>4 DEF Phases, TypeOK
  <2>8. OnePlace'
    BY <1>1, OnePlaceStays
  <2>9. Own'
    BY <1>1, <2>3, <2>4, <2>5 DEF Own, client, c
  <2>10. OnlyJobsLeak'
    <3>1. ASSUME NEW m \in Fd PROVE fd[m] # Content(c)
      <4>1. SUFFICES ASSUME fd[m] = Content(c) PROVE FALSE
        OBVIOUS
      <4>2. fd[m].what = "content" /\ fd[m].of = c
        BY <4>1, Objects
      <4>3. PICK v \in Worker : conn[v] = m
        BY <1>1, <2>2, <4>2 DEF OnlyJobsLeak
      <4>4. conn[v] # NoFd /\ v # w
        BY <1>2, <4>3, ObjectTypes
      <4>5. client(v) # c
        BY <1>1, <1>2, <4>4, OnlyOneHas DEF c
      <4> QED
        BY <1>1, <4>2, <4>3, <4>4, <4>5, Objects DEF Own
    <3>2. \A m \in Fd : fd'[m].what = "api" =>
              \/ \E i \in DOMAIN pending' : pending'[i].sd = m
              \/ \E v \in Worker : item'[v].sd = m
      BY <1>1, <2>3, Objects DEF OnlyJobsLeak
    <3>3. \A m \in Fd : fd'[m].what = "output" => \E v \in Worker : file'[v] = m
      BY <1>1, <2>3, Objects DEF OnlyJobsLeak
    <3>4. \A m, k \in Fd : fd'[m].what = "content" /\ fd'[k] = fd'[m] => k = m
      BY <1>1, <2>3, <3>1, Objects DEF OnlyJobsLeak
    <3>5. ASSUME NEW m \in Fd, fd'[m].what = "content"
          PROVE  fd'[m].of \in done' \/ \E v \in Worker : conn'[v] = m
      <4>1. CASE m = n
        BY <2>4, <4>1
      <4>2. CASE m # n
        <5>1. fd[m].of \in done \/ \E v \in Worker : conn[v] = m
          BY <1>1, <2>3, <3>5, <4>2 DEF OnlyJobsLeak
        <5>2. \A v \in Worker : conn[v] = m => v # w
          BY <1>2, ObjectTypes
        <5> QED
          BY <1>1, <2>3, <2>4, <4>2, <5>1, <5>2
      <4> QED
        BY <4>1, <4>2
    <3> QED
      BY <3>2, <3>3, <3>4, <3>5 DEF OnlyJobsLeak
  <2> QED
    BY <1>1, <2>6, <2>7, <2>8, <2>9, <2>10 DEF IInv
<1> QED
  BY <1>3, <1>4

LEMMA StepConnect ==
    ASSUME IInv, NEW w \in Worker, connect_Connect(w)
    PROVE  IInv'
<1> DEFINE c == client(w)
           n == conn[w]
<1>1. /\ alive /\ TypeOK /\ Phases /\ OnePlace /\ Own /\ OnlyJobsLeak
      /\ wpc[w] = "connect" /\ wpc' = [wpc EXCEPT ![w] = "look"]
      /\ UNCHANGED <<alive, api, backlog, pending, item, req, file, done>>
  BY DEF IInv, connect_Connect, Goto, outer
<1>2. item[w] # NoItem /\ file[w] = NoFd /\ n \in Fd /\ fd[n] = Content(c)
  <2>1. item[w] # NoItem /\ file[w] = NoFd /\ n # NoFd
    BY <1>1 DEF Phases
  <2> QED
    BY <1>1, <2>1 DEF TypeOK, Own
<1>3. CASE UNCHANGED <<fd, conn>>
  <2>1. TypeOK'
    BY <1>1, <1>3 DEF TypeOK
  <2>2. Phases'
    BY <1>1, <1>3 DEF Phases, TypeOK
  <2> QED
    BY <1>1, <1>3, <2>1, <2>2, StepQuiet
<1>4. CASE Close(n) /\ conn' = [conn EXCEPT ![w] = NoFd]
  <2>1. /\ fd' \in [Fd -> OpenOn] /\ fd'[n] = Free
        /\ \A m \in Fd : m # n => fd'[m] = fd[m]
    BY <1>1, <1>2, <1>4, CloseEffect
  <2>2. conn'[w] = NoFd /\ \A v \in Worker : v # w => conn'[v] = conn[v]
    BY <1>1, <1>4 DEF TypeOK
  <2>3. /\ fd'[0] = Listener
        /\ \A i \in 1 .. Len(pending) :
              fd'[pending[i].sd] = Api(pending[i].client)
        /\ \A v \in Worker : v # w =>
              /\ item[v] # NoItem => fd'[item[v].sd] = Api(client(v))
              /\ conn[v] # NoFd => fd'[conn[v]] = Content(client(v))
              /\ file[v] # NoFd => fd'[file[v]] = Output(client(v))
    BY <1>1, <1>2, <1>4, CloseKeeps
  <2>4. fd'[item[w].sd] = Api(c)
    <3>1. item[w].sd \in Fd /\ fd[item[w].sd] = Api(c)
      BY <1>1, <1>2 DEF TypeOK, WorkItem, Own
    <3> QED
      BY <1>2, <2>1, <3>1, Objects
  <2> HIDE DEF c, n
  <2>5. TypeOK'
    BY <1>1, <1>4, <2>1 DEF TypeOK
  <2>6. Phases'
    BY <1>1, <1>2, <2>2 DEF Phases, TypeOK
  <2>7. OnePlace'
    BY <1>1, OnePlaceStays
  <2>8. Own'
    BY <1>1, <1>2, <2>2, <2>3, <2>4 DEF Own, client, c
  <2>9. OnlyJobsLeak'
    <3>1. \A m \in Fd : fd'[m].what # "free" => m # n /\ fd'[m] = fd[m]
      BY <2>1, Objects
    <3>2. \A m \in Fd : fd'[m].what = "api" =>
              \/ \E i \in DOMAIN pending' : pending'[i].sd = m
              \/ \E v \in Worker : item'[v].sd = m
      BY <1>1, <3>1 DEF OnlyJobsLeak
    <3>3. \A m \in Fd : fd'[m].what = "output" => \E v \in Worker : file'[v] = m
      BY <1>1, <3>1 DEF OnlyJobsLeak
    <3>4. \A m, k \in Fd : fd'[m].what = "content" /\ fd'[k] = fd'[m] => k = m
      BY <1>1, <3>1 DEF OnlyJobsLeak
    <3>5. \A v \in Worker, m \in Fd : conn[v] = m /\ m # n => conn'[v] = m
      BY <2>2 DEF n
    <3>6. \A m \in Fd : fd'[m].what = "content" =>
              fd'[m].of \in done' \/ \E v \in Worker : conn'[v] = m
      BY <1>1, <3>1, <3>5 DEF OnlyJobsLeak
    <3> QED
      BY <3>2, <3>3, <3>4, <3>6 DEF OnlyJobsLeak
  <2> QED
    BY <1>1, <2>5, <2>6, <2>7, <2>8, <2>9 DEF IInv
<1> QED
  BY <1>3, <1>4 DEF connect_Connect

LEMMA StepCrash ==
    ASSUME IInv, Crash
    PROVE  IInv'
<1>1. /\ api' = api /\ done' = done /\ alive' = FALSE
      /\ fd' = [n \in Fd |-> Free]
      /\ backlog' = << >> /\ pending' = << >>
      /\ wpc' = [w \in Worker |-> "remove"]
      /\ item' = [w \in Worker |-> NoItem]
      /\ req' = [w \in Worker |-> "cleared"]
      /\ conn' = [w \in Worker |-> NoFd]
      /\ file' = [w \in Worker |-> NoFd]
  BY DEF Crash
<1>2. TypeOK'
  <2>1. << >> \in Seq(Client) /\ << >> \in Seq(WorkItem)
    BY EmptySeq
  <2>2. TypeOK
    BY DEF IInv
  <2>3. fd' \in [Fd -> OpenOn]
    BY <1>1, ObjectTypes
  <2>4. /\ wpc' \in [Worker -> {"remove", "header", "info", "socket", "connect",
                                "look", "measure", "ask", "open", "store",
                                "delete"}]
        /\ item' \in [Worker -> WorkItem \cup {NoItem}]
        /\ req' \in [Worker -> Kinds \cup {"cleared"}]
        /\ conn' \in [Worker -> Fd \cup {NoFd}]
        /\ file' \in [Worker -> Fd \cup {NoFd}]
    BY <1>1
  <2> QED
    BY <1>1, <2>1, <2>2, <2>3, <2>4 DEF TypeOK
<1> QED
  BY <1>1, <1>2 DEF IInv

LEMMA StepAsk ==
    ASSUME IInv, NEW w \in Worker, FileTransferFunction_Ask(w)
    PROVE  IInv'
<1>1. CASE Crash
  BY <1>1, StepCrash
<1>2. ASSUME NEW to \in {"open", "delete"}, Goto(w, "ask", to), conn[w] # NoFd,
             UNCHANGED <<outer, fd, pending, item, req, conn, file, done>>
      PROVE  IInv'
  <2>1. /\ alive /\ TypeOK /\ Phases
        /\ wpc[w] = "ask" /\ wpc' = [wpc EXCEPT ![w] = to]
        /\ UNCHANGED <<alive, api, backlog, fd, pending, item, req, conn, file, done>>
    BY <1>2 DEF IInv, Goto, outer
  <2>2. TypeOK'
    BY <2>1 DEF TypeOK
  <2>3. Phases'
    BY <1>2, <2>1 DEF Phases, TypeOK
  <2> QED
    BY <2>1, <2>2, <2>3, StepQuiet
<1> QED
  BY <1>1, <1>2 DEF FileTransferFunction_Ask

(* A worker opens the output, in the constructor of FileController or in   *)
(* step 10.                                                                *)
LEMMA OutputOpened ==
    ASSUME IInv, NEW w \in Worker, NEW from, NEW to,
           \/ from = "look" /\ to = "measure"
           \/ from = "open" /\ to = "store",
           Goto(w, from, to), ~Full, Open(Output(client(w))),
           file' = [file EXCEPT ![w] = NewFd],
           UNCHANGED <<outer, pending, item, req, conn, done>>
    PROVE  IInv'
<1> DEFINE c == client(w)
           n == NewFd
<1>1. /\ alive /\ TypeOK /\ Phases /\ OnePlace /\ Own /\ OnlyJobsLeak
      /\ wpc[w] = from /\ wpc' = [wpc EXCEPT ![w] = to]
      /\ ~Full /\ Open(Output(c)) /\ file' = [file EXCEPT ![w] = n]
      /\ UNCHANGED <<alive, api, backlog, pending, item, req, conn, done>>
  BY DEF IInv, Goto, outer
<1>2. item[w] # NoItem /\ file[w] = NoFd
  BY <1>1 DEF Phases
<1>3. c \in Client /\ Output(c) \in OpenOn
  BY <1>1, <1>2, OnlyOneHas, ObjectTypes
<1>4. /\ n \in Fd /\ fd[n] = Free
      /\ fd' \in [Fd -> OpenOn] /\ fd'[n] = Output(c)
      /\ \A m \in Fd : m # n => fd'[m] = fd[m]
  BY <1>1, <1>3, OpenEffect
<1>5. n # NoFd /\ file'[w] = n /\ \A v \in Worker : v # w => file'[v] = file[v]
  BY <1>1, <1>4, ObjectTypes DEF TypeOK
<1>6. /\ fd'[0] = Listener
      /\ \A i \in 1 .. Len(pending) :
            fd'[pending[i].sd] = Api(pending[i].client)
      /\ \A v \in Worker :
            /\ item[v] # NoItem => fd'[item[v].sd] = Api(client(v))
            /\ conn[v] # NoFd => fd'[conn[v]] = Content(client(v))
            /\ file[v] # NoFd => fd'[file[v]] = Output(client(v))
  BY <1>1, <1>3, OpenKeeps
<1> HIDE DEF c, n
<1>7. TypeOK'
  BY <1>1, <1>4 DEF TypeOK
<1>8. Phases'
  BY <1>1, <1>2, <1>5 DEF Phases, TypeOK
<1>9. OnePlace'
  BY <1>1, OnePlaceStays
<1>10. Own'
  BY <1>1, <1>4, <1>5, <1>6 DEF Own, client, c
<1>11. OnlyJobsLeak'
  <2>1. \A m \in Fd : fd'[m].what = "api" =>
            \/ \E i \in DOMAIN pending' : pending'[i].sd = m
            \/ \E v \in Worker : item'[v].sd = m
    BY <1>1, <1>4, Objects DEF OnlyJobsLeak
  <2>2. ASSUME NEW m \in Fd, fd'[m].what = "output"
        PROVE  \E v \in Worker : file'[v] = m
    <3>1. CASE m = n
      BY <1>5, <3>1
    <3>2. CASE m # n
      <4>1. \E v \in Worker : file[v] = m
        BY <1>1, <1>4, <2>2, <3>2 DEF OnlyJobsLeak
      <4>2. file[w] # m
        BY <1>2, ObjectTypes
      <4> QED
        BY <1>5, <4>1, <4>2
    <3> QED
      BY <3>1, <3>2
  <2>3. \A m \in Fd : fd'[m].what = "content" =>
            /\ \A k \in Fd : fd'[k] = fd'[m] => k = m
            /\ fd'[m].of \in done' \/ \E v \in Worker : conn'[v] = m
    BY <1>1, <1>4, Objects DEF OnlyJobsLeak
  <2> QED
    BY <2>1, <2>2, <2>3 DEF OnlyJobsLeak
<1> QED
  BY <1>1, <1>7, <1>8, <1>9, <1>10, <1>11 DEF IInv

(* It closes the output.                                                   *)
LEMMA OutputClosed ==
    ASSUME IInv, NEW w \in Worker, NEW from, NEW to,
           \/ from = "measure" /\ to = "ask"
           \/ from = "store" /\ to = "delete",
           Goto(w, from, to), Close(file[w]), file' = [file EXCEPT ![w] = NoFd],
           UNCHANGED <<outer, pending, item, req, conn, done>>
    PROVE  IInv'
<1> DEFINE c == client(w)
           n == file[w]
<1>1. /\ alive /\ TypeOK /\ Phases /\ OnePlace /\ Own /\ OnlyJobsLeak
      /\ wpc[w] = from /\ wpc' = [wpc EXCEPT ![w] = to]
      /\ Close(n) /\ file' = [file EXCEPT ![w] = NoFd]
      /\ UNCHANGED <<alive, api, backlog, pending, item, req, conn, done>>
  BY DEF IInv, Goto, outer
<1>2. /\ item[w] # NoItem /\ n \in Fd /\ fd[n] = Output(c)
  <2>1. item[w] # NoItem /\ n # NoFd
    BY <1>1 DEF Phases
  <2> QED
    BY <1>1, <2>1 DEF TypeOK, Own
<1>3. /\ fd' \in [Fd -> OpenOn] /\ fd'[n] = Free
      /\ \A m \in Fd : m # n => fd'[m] = fd[m]
  BY <1>1, <1>2, CloseEffect
<1>4. file'[w] = NoFd /\ \A v \in Worker : v # w => file'[v] = file[v]
  BY <1>1 DEF TypeOK
<1>5. /\ fd'[0] = Listener
      /\ \A i \in 1 .. Len(pending) :
            fd'[pending[i].sd] = Api(pending[i].client)
      /\ \A v \in Worker : v # w =>
            /\ item[v] # NoItem => fd'[item[v].sd] = Api(client(v))
            /\ conn[v] # NoFd => fd'[conn[v]] = Content(client(v))
            /\ file[v] # NoFd => fd'[file[v]] = Output(client(v))
  BY <1>1, <1>2, CloseKeeps
<1>6. /\ fd'[item[w].sd] = Api(c)
      /\ conn[w] # NoFd => fd'[conn[w]] = Content(c)
  <2>1. /\ item[w].sd \in Fd /\ fd[item[w].sd] = Api(c)
        /\ conn[w] # NoFd => conn[w] \in Fd /\ fd[conn[w]] = Content(c)
    BY <1>1, <1>2 DEF TypeOK, WorkItem, Own
  <2> QED
    BY <1>2, <1>3, <2>1, Objects
<1> HIDE DEF c, n
<1>7. TypeOK'
  BY <1>1, <1>3 DEF TypeOK
<1>8. Phases'
  BY <1>1, <1>2, <1>4 DEF Phases, TypeOK
<1>9. OnePlace'
  BY <1>1, OnePlaceStays
<1>10. Own'
  BY <1>1, <1>2, <1>4, <1>5, <1>6 DEF Own, client, c
<1>11. OnlyJobsLeak'
  <2>1. \A m \in Fd : fd'[m].what # "free" => m # n /\ fd'[m] = fd[m]
    BY <1>3, Objects
  <2>2. \A m \in Fd : fd'[m].what = "api" =>
            \/ \E i \in DOMAIN pending' : pending'[i].sd = m
            \/ \E v \in Worker : item'[v].sd = m
    BY <1>1, <2>1 DEF OnlyJobsLeak
  <2>3. \A v \in Worker, m \in Fd : file[v] = m /\ m # n => file'[v] = m
    BY <1>4 DEF n
  <2>4. \A m \in Fd : fd'[m].what = "output" => \E v \in Worker : file'[v] = m
    BY <1>1, <2>1, <2>3 DEF OnlyJobsLeak
  <2>5. \A m \in Fd : fd'[m].what = "content" =>
            /\ \A k \in Fd : fd'[k] = fd'[m] => k = m
            /\ fd'[m].of \in done' \/ \E v \in Worker : conn'[v] = m
    BY <1>1, <2>1 DEF OnlyJobsLeak
  <2> QED
    BY <2>2, <2>4, <2>5 DEF OnlyJobsLeak
<1> QED
  BY <1>1, <1>7, <1>8, <1>9, <1>10, <1>11 DEF IInv

LEMMA StepFileController ==
    ASSUME IInv, NEW w \in Worker,
           FileController_Open(w) \/ FileController_Close(w)
    PROVE  IInv'
<1>1. CASE FileController_Close(w)
  BY <1>1, OutputClosed DEF FileController_Close
<1>2. ASSUME Goto(w, "look", "ask"),
             UNCHANGED <<outer, fd, pending, item, req, conn, file, done>>
      PROVE  IInv'
  <2>1. /\ alive /\ TypeOK /\ Phases
        /\ wpc[w] = "look" /\ wpc' = [wpc EXCEPT ![w] = "ask"]
        /\ UNCHANGED <<alive, api, backlog, fd, pending, item, req, conn, file, done>>
    BY <1>2 DEF IInv, Goto, outer
  <2>2. TypeOK'
    BY <2>1 DEF TypeOK
  <2>3. Phases'
    BY <2>1 DEF Phases, TypeOK
  <2> QED
    BY <2>1, <2>2, <2>3, StepQuiet
<1> QED
  BY <1>1, <1>2, OutputOpened DEF FileController_Open

LEMMA StepOpen ==
    ASSUME IInv, NEW w \in Worker, FileTransferFunction_Open(w)
    PROVE  IInv'
BY StepCrash, OutputOpened DEF FileTransferFunction_Open

LEMMA StepStore ==
    ASSUME IInv, NEW w \in Worker, FileTransferFunction_Store(w)
    PROVE  IInv'
BY OutputClosed DEF FileTransferFunction_Store

LEMMA StepStutters ==
    ASSUME IInv, UNCHANGED vars
    PROVE  IInv'
<1>1. UNCHANGED <<alive, api, backlog, fd, pending, wpc, item, req, conn,
                  file, done>>
  BY DEF vars, outer, wvars
<1>2. TypeOK'
  BY <1>1 DEF IInv, TypeOK
<1>3. CASE alive
  <2>1. Phases'
    BY <1>1, <1>3 DEF IInv, Phases
  <2> QED
    BY <1>1, <1>2, <1>3, <2>1, StepQuiet
<1>4. CASE ~alive
  BY <1>1, <1>2, <1>4 DEF IInv
<1> QED
  BY <1>3, <1>4

LEMMA NextIInv == IInv /\ [Next]_vars => IInv'
<1> SUFFICES ASSUME IInv, [Next]_vars PROVE IInv'
  OBVIOUS
<1>1. ASSUME NEW c \in Client,
             ClientConnects(c) \/ ClientSends(c) \/ ClientLeaves(c)
      PROVE  IInv'
  BY <1>1, StepClientConnects, StepClient
<1>2. CASE serverStart
  BY <1>2, StepServerStart
<1>3. ASSUME NEW w \in Worker, run(w)
      PROVE  IInv'
  BY <1>3, StepRemove, StepReceiveHeader, StepReceiveInfo, StepSocket,
     StepConnect, StepFileController, StepAsk, StepOpen, StepStore,
     StepDeleteItem DEF run
<1>4. CASE UNCHANGED vars
  BY <1>4, StepStutters
<1> QED
  BY <1>1, <1>2, <1>3, <1>4 DEF Next

-----------------------------------------------------------------------------
(***************************************************************************)
(* The theorems.                                                           *)
(***************************************************************************)
LEMMA Inductive == Spec => []IInv
BY InitIInv, NextIInv, PTL DEF Spec

(* The variables of the daemon's process always hold what TypeOK says: in  *)
(* particular every descriptor that a thread keeps is one of the table's.  *)
THEOREM TypeCorrect == Spec => []TypeOK
<1>1. IInv => TypeOK
  BY DEF IInv
<1> QED
  BY <1>1, Inductive, PTL

(* With any number of clients, workers and descriptors, whatever the       *)
(* requests are and wherever they fail, no thread reads, writes or closes  *)
(* a number that was closed and opened again for another one: run,         *)
(* TCPConnector::connect, step 10 and delete item close only their own.    *)
THEOREM DescriptorsOwned == Spec => []DescriptorsAreOwn
BY Inductive, InvariantImplies, PTL

(* All that a job leaves open is its connection to the content daemon: the *)
(* client's connection and the output file are closed on every path.       *)
THEOREM LeakIsOnePerJob == Spec => []OnlyJobsLeak
BY Inductive, InvariantImplies, PTL

-----------------------------------------------------------------------------
(***************************************************************************)
(* That every connection has a place, beside OnePlace, which says that it  *)
(* has no two.                                                             *)
(***************************************************************************)
SomePlace(c) == InBacklog(c) \/ InQueue(c) \/ AtWorker(c) \/ c \in done

Kept == alive => \A c \in Client : api[c] # "away" => SomePlace(c)

LEMMA InitKept == Init => Kept
BY DEF Init, Kept

(* Steps that move nobody.                                                 *)
LEMMA KeptStays ==
    ASSUME Kept, alive, UNCHANGED <<backlog, pending, item, done>>,
           \A c \in Client : api[c] = "away" => api'[c] = "away"
    PROVE  Kept'
BY DEF Kept, SomePlace, InBacklog, InQueue, AtWorker, client

LEMMA KeptConnects ==
    ASSUME IInv, Kept, NEW c \in Client, ClientConnects(c)
    PROVE  Kept'
<1>1. /\ alive /\ TypeOK
      /\ api' = [api EXCEPT ![c] = "silent"]
      /\ backlog' = Append(backlog, c)
      /\ UNCHANGED <<pending, item, done>>
  BY DEF IInv, ClientConnects, Moves, wvars
<1>2. /\ Len(backlog) \in Nat /\ Len(backlog') = Len(backlog) + 1
      /\ \A i \in 1 .. Len(backlog) : backlog'[i] = backlog[i]
      /\ backlog'[Len(backlog) + 1] = c
  BY <1>1, LenProperties DEF TypeOK
<1>3. \A d \in Client : InBacklog(d) \/ d = c => InBacklog(d)'
  BY <1>2 DEF InBacklog
<1>4. \A d \in Client : /\ InQueue(d) => InQueue(d)'
                        /\ AtWorker(d) => AtWorker(d)'
  BY <1>1 DEF InQueue, AtWorker, client
<1>5. \A d \in Client : d # c => api'[d] = api[d]
  BY <1>1 DEF TypeOK
<1> QED
  BY <1>1, <1>3, <1>4, <1>5 DEF Kept, SomePlace

LEMMA KeptServerStart ==
    ASSUME IInv, Kept, serverStart
    PROVE  Kept'
<1> DEFINE x == [client |-> Head(backlog), sd |-> NewFd]
<1>1. /\ alive /\ TypeOK /\ backlog # << >>
      /\ pending' = Append(pending, x) /\ backlog' = Tail(backlog)
      /\ UNCHANGED <<api, item, done>>
  BY DEF IInv, serverStart, wvars
<1>2. /\ Len(backlog) \in Nat /\ Len(backlog) >= 1
      /\ x.client = backlog[1]
      /\ Len(backlog') = Len(backlog) - 1
      /\ \A i \in 1 .. Len(backlog') : backlog'[i] = backlog[i + 1]
  BY <1>1, HeadTailProperties, EmptySeq, LenProperties DEF TypeOK
<1> HIDE DEF x
<1>3. /\ Len(pending) \in Nat /\ Len(pending') = Len(pending) + 1
      /\ \A i \in 1 .. Len(pending) : pending'[i] = pending[i]
      /\ pending'[Len(pending) + 1] = x
  BY <1>1, LenProperties DEF TypeOK
<1>4. ASSUME NEW d \in Client, InBacklog(d)
      PROVE  InBacklog(d)' \/ d = x.client
  <2>1. PICK i \in 1 .. Len(backlog) : backlog[i] = d
    BY <1>4 DEF InBacklog
  <2>2. CASE i = 1
    BY <1>2, <2>1, <2>2
  <2>3. CASE i # 1
    <3>1. i - 1 \in 1 .. Len(backlog') /\ (i - 1) + 1 = i
      BY <1>2, <2>1, <2>3
    <3>2. backlog'[i - 1] = d
      BY <1>2, <2>1, <3>1
    <3> QED
      BY <3>1, <3>2 DEF InBacklog
  <2> QED
    BY <2>2, <2>3
<1>5. \A d \in Client : InQueue(d) \/ d = x.client => InQueue(d)'
  BY <1>3 DEF InQueue
<1>6. \A d \in Client : AtWorker(d) => AtWorker(d)'
  BY <1>1 DEF AtWorker, client
<1> QED
  BY <1>1, <1>4, <1>5, <1>6 DEF Kept, SomePlace

LEMMA KeptRemove ==
    ASSUME IInv, Kept, NEW w \in Worker, run_Remove(w)
    PROVE  Kept'
<1> DEFINE x == Head(pending)
<1>1. /\ alive /\ TypeOK /\ Phases /\ wpc[w] = "remove" /\ pending # << >>
      /\ pending' = Tail(pending) /\ item' = [item EXCEPT ![w] = x]
      /\ UNCHANGED <<api, backlog, done>>
  BY DEF IInv, run_Remove, Goto, outer
<1>2. pending \in Seq(WorkItem) /\ Len(pending) \in Nat /\ Len(pending) >= 1
  BY <1>1, EmptySeq, LenProperties DEF TypeOK
<1>3. /\ x = pending[1] /\ x \in WorkItem
      /\ Len(pending') = Len(pending) - 1
      /\ \A i \in 1 .. Len(pending') : pending'[i] = pending[i + 1]
  BY <1>1, <1>2, HeadTailProperties, ElementOfSeq
<1> HIDE DEF x
<1>4. item[w] = NoItem /\ x # NoItem
  BY <1>1, <1>3, ObjectTypes DEF Phases
<1>5. item'[w] = x /\ \A v \in Worker : v # w => item'[v] = item[v]
  BY <1>1 DEF TypeOK
<1>6. ASSUME NEW d \in Client, InQueue(d)
      PROVE  InQueue(d)' \/ d = x.client
  <2>1. PICK i \in 1 .. Len(pending) : pending[i].client = d
    BY <1>6 DEF InQueue
  <2>2. CASE i = 1
    BY <1>3, <2>1, <2>2
  <2>3. CASE i # 1
    <3>1. i - 1 \in 1 .. Len(pending') /\ (i - 1) + 1 = i
      BY <1>2, <1>3, <2>1, <2>3
    <3>2. pending'[i - 1].client = d
      BY <1>3, <2>1, <3>1
    <3> QED
      BY <3>1, <3>2 DEF InQueue
  <2> QED
    BY <2>2, <2>3
<1>7. \A d \in Client : AtWorker(d) \/ d = x.client => AtWorker(d)'
  BY <1>4, <1>5 DEF AtWorker, client
<1>8. \A d \in Client : InBacklog(d) => InBacklog(d)'
  BY <1>1 DEF InBacklog
<1> QED
  BY <1>1, <1>6, <1>7, <1>8 DEF Kept, SomePlace

LEMMA KeptDeleteItem ==
    ASSUME IInv, Kept, NEW w \in Worker, run_DeleteItem(w)
    PROVE  Kept'
<1>1. /\ alive /\ TypeOK
      /\ item' = [item EXCEPT ![w] = NoItem]
      /\ done' = done \cup {client(w)}
      /\ UNCHANGED <<api, backlog, pending>>
  BY DEF IInv, run_DeleteItem, Goto, outer
<1>2. \A v \in Worker : v # w => item'[v] = item[v]
  BY <1>1 DEF TypeOK
<1>3. \A d \in Client : AtWorker(d) => AtWorker(d)' \/ d \in done'
  BY <1>1, <1>2 DEF AtWorker, client
<1>4. \A d \in Client : /\ InBacklog(d) => InBacklog(d)'
                        /\ InQueue(d) => InQueue(d)'
  BY <1>1 DEF InBacklog, InQueue
<1> QED
  BY <1>1, <1>3, <1>4 DEF Kept, SomePlace

LEMMA KeptClient ==
    ASSUME IInv, Kept, NEW c \in Client, ClientSends(c) \/ ClientLeaves(c)
    PROVE  Kept'
<1>1. /\ alive /\ TypeOK /\ api[c] # "away"
      /\ \E to : api' = [api EXCEPT ![c] = to]
      /\ UNCHANGED <<backlog, pending, item, done>>
  BY DEF IInv, ClientSends, ClientLeaves, Moves, wvars
<1>2. \A d \in Client : api[d] = "away" => api'[d] = "away"
  BY <1>1 DEF TypeOK
<1> QED
  BY <1>1, <1>2, KeptStays

LEMMA KeptReceiveHeader ==
    ASSUME IInv, Kept, NEW w \in Worker, run_ReceiveHeader(w)
    PROVE  Kept'
<1>1. /\ alive /\ TypeOK
      /\ api' = [api EXCEPT ![client(w)] = IF @ = "reset" THEN "closed" ELSE @]
      /\ UNCHANGED <<backlog, pending, item, done>>
  BY DEF IInv, run_ReceiveHeader, Goto
<1>2. \A d \in Client : api[d] = "away" => api'[d] = "away"
  BY <1>1 DEF TypeOK
<1> QED
  BY <1>1, <1>2, KeptStays

LEMMA NextKept == IInv /\ Kept /\ [Next]_vars => Kept'
<1> SUFFICES ASSUME IInv, Kept, [Next]_vars PROVE Kept'
  OBVIOUS
<1>1. CASE ~alive'
  BY <1>1 DEF Kept
<1>2. CASE alive /\ UNCHANGED <<api, backlog, pending, item, done>>
  BY <1>2, KeptStays
<1>3. ASSUME NEW w \in Worker, run(w), alive'
      PROVE  Kept'
  BY <1>2, <1>3, KeptRemove, KeptReceiveHeader, KeptDeleteItem
     DEF run, run_ReceiveInfo, connect_Socket, connect_Connect,
         FileController_Open, FileController_Close, FileTransferFunction_Ask,
         FileTransferFunction_Open, FileTransferFunction_Store, Crash, Goto,
         outer
<1>4. CASE UNCHANGED vars
  BY <1>1, <1>2, <1>4 DEF vars, outer, wvars
<1> QED
  BY <1>1, <1>3, <1>4, KeptConnects, KeptClient, KeptServerStart DEF Next

LEMMA PlacesOf ==
    ASSUME IInv, alive, NEW c \in Client
    PROVE  /\ Places(c) = {} <=> ~SomePlace(c)
           /\ \A p, q \in Places(c) : p = q
<1>1. TypeOK /\ OnePlace
  BY DEF IInv
<1>2. /\ DOMAIN backlog = 1 .. Len(backlog)
      /\ DOMAIN pending = 1 .. Len(pending)
  BY <1>1, LenProperties DEF TypeOK
<1>3. \A w \in Worker : client(w) = c => item[w] # NoItem
  BY DEF client, NoItem
<1> DEFINE B == {<<"backlog", i>> : i \in {j \in DOMAIN backlog : backlog[j] = c}}
           Q == {<<"queue", i>> :
                     i \in {j \in DOMAIN pending : pending[j].client = c}}
           W == {<<"worker", w>> : w \in {v \in Worker : client(v) = c}}
           D == {<<"done", c>> : d \in done \cap {c}}
<1>4. Places(c) = B \cup Q \cup W \cup D
  BY Zenon DEF Places
<1>5. /\ B = {} <=> ~InBacklog(c)
      /\ \A p, q \in B : p = q
  <2>1. \A p \in B : \E i \in 1 .. Len(backlog) : backlog[i] = c /\ p = <<"backlog", i>>
    BY <1>2
  <2>2. \A i \in 1 .. Len(backlog) : backlog[i] = c => <<"backlog", i>> \in B
    BY <1>2
  <2> HIDE DEF B
  <2>3. \A i, j \in 1 .. Len(backlog) : backlog[i] = c /\ backlog[j] = c => i = j
    BY <1>1 DEF OnePlace
  <2>4. (\E i \in 1 .. Len(backlog) : backlog[i] = c) <=> InBacklog(c)
    BY <1>1 DEF InBacklog
  <2>5. B = {} <=> ~InBacklog(c)
    BY <2>1, <2>2, <2>4
  <2>6. \A p, q \in B : p = q
    BY <2>1, <2>3
  <2> QED
    BY <2>5, <2>6
<1>6. /\ Q = {} <=> ~InQueue(c)
      /\ \A p, q \in Q : p = q
  <2>1. \A p \in Q : \E i \in 1 .. Len(pending) : pending[i].client = c /\ p = <<"queue", i>>
    BY <1>2
  <2>2. \A i \in 1 .. Len(pending) : pending[i].client = c => <<"queue", i>> \in Q
    BY <1>2
  <2> HIDE DEF Q
  <2>3. \A i, j \in 1 .. Len(pending) : pending[i].client = c /\ pending[j].client = c => i = j
    BY <1>1 DEF OnePlace
  <2>4. (\E i \in 1 .. Len(pending) : pending[i].client = c) <=> InQueue(c)
    BY <1>1 DEF InQueue
  <2>5. Q = {} <=> ~InQueue(c)
    BY <2>1, <2>2, <2>4
  <2>6. \A p, q \in Q : p = q
    BY <2>1, <2>3
  <2> QED
    BY <2>5, <2>6
<1>7. /\ W = {} <=> ~AtWorker(c)
      /\ \A p, q \in W : p = q
  <2>1. \A p \in W : \E v \in Worker : client(v) = c /\ p = <<"worker", v>>
    BY <1>2
  <2>2. \A v \in Worker : client(v) = c => <<"worker", v>> \in W
    BY <1>2
  <2> HIDE DEF W
  <2>3. \A v, w \in Worker : client(v) = c /\ client(w) = c => v = w
    BY <1>1, <1>3 DEF OnePlace
  <2>4. (\E v \in Worker : client(v) = c) <=> AtWorker(c)
    BY <1>1, <1>3 DEF AtWorker
  <2>5. W = {} <=> ~AtWorker(c)
    BY <2>1, <2>2, <2>4
  <2>6. \A p, q \in W : p = q
    BY <2>1, <2>3
  <2> QED
    BY <2>5, <2>6
<1>8. /\ D = {} <=> c \notin done
      /\ \A p, q \in D : p = q
  OBVIOUS
<1>9. /\ InBacklog(c) => ~InQueue(c) /\ ~AtWorker(c) /\ c \notin done
      /\ InQueue(c) => ~AtWorker(c) /\ c \notin done
      /\ AtWorker(c) => c \notin done
  BY <1>1 DEF OnePlace
<1> HIDE DEF B, Q, W, D
<1> QED
  BY <1>4, <1>5, <1>6, <1>7, <1>8, <1>9 DEF SomePlace

(* With any number of clients, workers and descriptors, also when the      *)
(* table is full and accept fails, every connection is in one place:       *)
(* serverStart, the queue, run and delete item lose and double none.       *)
THEOREM NoConnectionIsLost == Spec => []ConnectionsAreKept
<1>1. IInv /\ Kept => ConnectionsAreKept
  <2> SUFFICES ASSUME IInv, Kept, alive, NEW c \in Client
               PROVE  IF api[c] = "away" THEN Places(c) = {}
                      ELSE \E p \in Places(c) : Places(c) = {p}
    BY DEF ConnectionsAreKept
  <2>1. CASE api[c] = "away"
    <3>1. ~SomePlace(c)
      BY <2>1 DEF IInv, OnePlace, SomePlace
    <3> QED
      BY <2>1, <3>1, PlacesOf
  <2>2. CASE api[c] # "away"
    <3>1. SomePlace(c)
      BY <2>2 DEF Kept
    <3>2. Places(c) # {} /\ \A p, q \in Places(c) : p = q
      BY <3>1, PlacesOf
    <3> QED
      BY <2>2, <3>2
  <2> QED
    BY <2>1, <2>2
<1>2. Spec => []Kept
  <2>1. IInv /\ Kept /\ [Next]_vars => Kept'
    BY NextKept
  <2> QED
    BY <2>1, InitKept, Inductive, PTL DEF Spec
<1> QED
  BY <1>1, <1>2, Inductive, PTL

-----------------------------------------------------------------------------
(***************************************************************************)
(* With room for what the jobs leave open the table is never full where a  *)
(* job needs a descriptor: a client has one descriptor at most, be it its  *)
(* own connection or the one that its job has left open, a worker one for  *)
(* the connection and one for the output of its job.                       *)
(***************************************************************************)
(* A number is free, or the listener's, or some request's.                 *)
Ordinary(n) ==
    \/ fd[n] = Free
    \/ n = 0 /\ fd[n] = Listener
    \/ fd[n].what \in {"api", "content", "output"}

(* A worker has no stream for a good request only if the table was full.   *)
NullMeansBad ==
    Room => \A w \in Worker :
                wpc[w] \in {"look", "measure", "ask"} /\ conn[w] = NoFd =>
                    req[w] # "good"

Roomy == IInv /\ (\A n \in Fd : Ordinary(n)) /\ NullMeansBad

LEMMA AtMostInjected ==
    ASSUME NEW S, NEW T, IsFiniteSet(T), NEW f \in [S -> T], IsInjective(f)
    PROVE  IsFiniteSet(S) /\ Cardinality(S) \in Nat
           /\ Cardinality(S) <= Cardinality(T)
<1>1. f \in Injection(S, T)
  BY DEF Injection
<1> QED
  BY <1>1, FS_Injection, FS_CardinalityType

LEMMA AtMostImage ==
    ASSUME NEW S, IsFiniteSet(S), NEW f, NEW T,
           \A t \in T : \E x \in S : f[x] = t
    PROVE  IsFiniteSet(T) /\ Cardinality(T) \in Nat
           /\ Cardinality(T) <= Cardinality(S)
<1> DEFINE g == [t \in T |-> CHOOSE x \in S : f[x] = t]
<1>1. \A t \in T : g[t] \in S /\ f[g[t]] = t
  OBVIOUS
<1>2. g \in [T -> S] /\ IsInjective(g)
  BY <1>1 DEF IsInjective
<1> HIDE DEF g
<1> QED
  BY <1>2, AtMostInjected

LEMMA SizeOfUnion ==
    ASSUME NEW S, NEW T, IsFiniteSet(S), IsFiniteSet(T)
    PROVE  /\ IsFiniteSet(S \cup T) /\ Cardinality(S \cup T) \in Nat
           /\ Cardinality(S \cup T) <= Cardinality(S) + Cardinality(T)
<1>1. S \cap T \in SUBSET S
  OBVIOUS
<1>2. IsFiniteSet(S \cap T)
  BY <1>1, FS_Subset
<1>3. /\ Cardinality(S) \in Nat /\ Cardinality(T) \in Nat
      /\ Cardinality(S \cap T) \in Nat
  BY <1>2, FS_CardinalityType
<1>4. /\ IsFiniteSet(S \cup T)
      /\ Cardinality(S \cup T) =
            Cardinality(S) + Cardinality(T) - Cardinality(S \cap T)
  BY FS_Union
<1>5. Cardinality(S \cup T) \in Nat
  BY <1>4, FS_CardinalityType
<1> QED
  BY <1>3, <1>4, <1>5

(* The descriptors that are a client's only one: its connection while its  *)
(* request is served, and then what the job has left open.                 *)
OfClients ==
    {n \in Fd : \/ fd[n].what = "api"
                \/ fd[n].what = "content" /\ fd[n].of \in done}

LEMMA ApiHasHolder ==
    ASSUME IInv, alive, NEW n \in Fd, fd[n].what = "api"
    PROVE  \/ \E i \in 1 .. Len(pending) :
                  pending[i].sd = n /\ pending[i].client = fd[n].of
           \/ \E w \in Worker :
                  item[w].sd = n /\ item[w] # NoItem /\ client(w) = fd[n].of
<1>1. DOMAIN pending = 1 .. Len(pending)
  BY LenProperties DEF IInv, TypeOK
<1>2. n # NoFd
  BY DEF Fd, NoFd
<1>3. CASE \E i \in 1 .. Len(pending) : pending[i].sd = n
  <2>1. PICK i \in 1 .. Len(pending) : pending[i].sd = n
    BY <1>3
  <2>2. fd[n] = Api(pending[i].client)
    BY <2>1 DEF IInv, Own
  <2>3. fd[n].of = pending[i].client
    BY <2>2 DEF Api
  <2> QED
    BY <2>1, <2>3
<1>4. CASE \E w \in Worker : item[w].sd = n
  <2>1. PICK w \in Worker : item[w].sd = n
    BY <1>4
  <2>2. item[w] # NoItem
    BY <1>2, <2>1 DEF NoItem
  <2>3. fd[n] = Api(client(w))
    BY <2>1, <2>2 DEF IInv, Own
  <2>4. fd[n].of = client(w)
    BY <2>3 DEF Api
  <2> QED
    BY <2>1, <2>2, <2>4
<1> QED
  BY <1>1, <1>3, <1>4 DEF IInv, OnlyJobsLeak

LEMMA ClientsHaveOne ==
    ASSUME IInv, alive
    PROVE  IsFiniteSet(OfClients) /\ Cardinality(OfClients) \in Nat
           /\ Cardinality(OfClients) <= Clients
<1> DEFINE f == [n \in OfClients |-> fd[n].of]
<1>1. ASSUME NEW n \in Fd, fd[n].what = "api"
      PROVE  fd[n].of \in Client /\ fd[n].of \notin done
  <2>1. CASE \E i \in 1 .. Len(pending) :
                 pending[i].sd = n /\ pending[i].client = fd[n].of
    <3>1. fd[n].of \in Client
      BY <2>1, PendingType DEF IInv
    <3>2. InQueue(fd[n].of)
      BY <2>1 DEF InQueue
    <3> QED
      BY <3>1, <3>2 DEF IInv, OnePlace
  <2>2. CASE \E w \in Worker :
                 item[w].sd = n /\ item[w] # NoItem /\ client(w) = fd[n].of
    <3>1. fd[n].of \in Client
      BY <2>2 DEF IInv, TypeOK, WorkItem, client
    <3>2. AtWorker(fd[n].of)
      BY <2>2 DEF AtWorker
    <3> QED
      BY <3>1, <3>2 DEF IInv, OnePlace
  <2> QED
    BY <1>1, <2>1, <2>2, ApiHasHolder
<1>2. ASSUME NEW n \in Fd, NEW m \in Fd, fd[n].what = "api",
             fd[m].what = "api", fd[n].of = fd[m].of
      PROVE  n = m
  <2> DEFINE c == fd[n].of
  <2>1. c \in Client
    BY <1>1, <1>2
  <2>2. \A i, j \in 1 .. Len(pending) :
            pending[i].client = c /\ pending[j].client = c => i = j
    BY DEF IInv, OnePlace
  <2>3. \A v, w \in Worker :
            item[v] # NoItem /\ client(v) = c
            /\ item[w] # NoItem /\ client(w) = c => v = w
    BY DEF IInv, OnePlace
  <2>4. \A i \in 1 .. Len(pending), w \in Worker :
            ~ (pending[i].client = c /\ item[w] # NoItem /\ client(w) = c)
    BY <2>1 DEF IInv, OnePlace, InQueue, AtWorker
  <2>5. \/ \E i \in 1 .. Len(pending) :
               pending[i].sd = n /\ pending[i].client = c
        \/ \E w \in Worker :
               item[w].sd = n /\ item[w] # NoItem /\ client(w) = c
    BY <1>2, ApiHasHolder
  <2>6. \/ \E i \in 1 .. Len(pending) :
               pending[i].sd = m /\ pending[i].client = c
        \/ \E w \in Worker :
               item[w].sd = m /\ item[w] # NoItem /\ client(w) = c
    BY <1>2, ApiHasHolder
  <2> HIDE DEF c
  <2> QED
    BY <2>2, <2>3, <2>4, <2>5, <2>6
<1>3. ASSUME NEW n \in Fd, NEW m \in Fd, fd[n].what = "content",
             fd[m].what = "content", fd[n].of = fd[m].of
      PROVE  n = m
  <2>1. fd[n] = fd[m]
    BY <1>3 DEF IInv, TypeOK, OpenOn
  <2> QED
    BY <1>3, <2>1 DEF IInv, OnlyJobsLeak
<1>4. done \subseteq Client
  BY DEF IInv, TypeOK
<1>5. f \in [OfClients -> Client]
  BY <1>1, <1>4 DEF OfClients
<1>6. \A n, m \in OfClients : fd[n].of = fd[m].of => n = m
  BY <1>1, <1>2, <1>3 DEF OfClients
<1>7. IsInjective(f)
  BY <1>6 DEF IsInjective
<1>8. IsFiniteSet(Client) /\ Cardinality(Client) = Clients
  BY FS_Interval DEF Client
<1> HIDE DEF f
<1> QED
  BY <1>5, <1>7, <1>8, AtMostInjected

LEMMA NeverFull ==
    ASSUME Roomy, alive, Room, NEW w \in Worker, file[w] = NoFd
    PROVE  ~Full
<1> DEFINE L == {0}
           B == OfClients
           C == {n \in Fd : fd[n].what = "content" /\ fd[n].of \notin done}
           D == {n \in Fd : fd[n].what = "output"}
           others == Worker \ {w}
           nw == Cardinality(Worker)
<1> SUFFICES ASSUME Full PROVE FALSE
  OBVIOUS
<1>1. IsFiniteSet(L) /\ Cardinality(L) = 1
  BY FS_Singleton
<1>2. IsFiniteSet(B) /\ Cardinality(B) \in Nat /\ Cardinality(B) <= Clients
  BY ClientsHaveOne DEF Roomy
<1>3. nw \in Nat /\ IsFiniteSet(others) /\ Cardinality(others) = nw - 1
  BY FS_CardinalityType, FS_RemoveElement
<1>4. IsFiniteSet(C) /\ Cardinality(C) \in Nat /\ Cardinality(C) <= nw
  <2>1. \A n \in C : \E v \in Worker : conn[v] = n
    BY DEF Roomy, IInv, OnlyJobsLeak
  <2> HIDE DEF C
  <2> QED
    BY <2>1, AtMostImage
<1>5. IsFiniteSet(D) /\ Cardinality(D) \in Nat /\ Cardinality(D) <= nw - 1
  <2>1. \A n \in D : n # NoFd /\ \E v \in Worker : file[v] = n
    BY DEF Roomy, IInv, OnlyJobsLeak, Fd, NoFd
  <2>2. \A n \in D : \E v \in others : file[v] = n
    BY <2>1
  <2> HIDE DEF D, others
  <2>3. /\ IsFiniteSet(D) /\ Cardinality(D) \in Nat
        /\ Cardinality(D) <= Cardinality(others)
    BY <1>3, <2>2, AtMostImage
  <2> QED
    BY <1>3, <2>3
<1>6. Fd \subseteq ((L \cup B) \cup C) \cup D
  <2>1. \A n \in Fd : fd[n] # Free
    BY DEF Full, FreeFds
  <2> QED
    BY <2>1 DEF Roomy, Ordinary, OfClients
<1>7. IsFiniteSet(Fd) /\ Cardinality(Fd) = MaxFd
  BY FS_Interval DEF Fd
<1> HIDE DEF L, B, C, D, nw
<1>8. /\ IsFiniteSet(L \cup B) /\ Cardinality(L \cup B) \in Nat
      /\ Cardinality(L \cup B) <= 1 + Clients
  BY <1>1, <1>2, SizeOfUnion
<1>9. /\ IsFiniteSet((L \cup B) \cup C)
      /\ Cardinality((L \cup B) \cup C) \in Nat
      /\ Cardinality((L \cup B) \cup C) <= 1 + Clients + nw
  <2> DEFINE LB == L \cup B
  <2> HIDE DEF LB
  <2>1. /\ IsFiniteSet(LB \cup C) /\ Cardinality(LB \cup C) \in Nat
        /\ Cardinality(LB \cup C) <= Cardinality(LB) + Cardinality(C)
    BY <1>4, <1>8, SizeOfUnion DEF LB
  <2> QED
    BY <1>3, <1>4, <1>8, <2>1 DEF LB
<1>10. /\ IsFiniteSet(((L \cup B) \cup C) \cup D)
       /\ Cardinality(((L \cup B) \cup C) \cup D) \in Nat
       /\ Cardinality(((L \cup B) \cup C) \cup D)
             <= 1 + Clients + nw + (nw - 1)
  <2> DEFINE LBC == (L \cup B) \cup C
  <2> HIDE DEF LBC
  <2>1. /\ IsFiniteSet(LBC \cup D) /\ Cardinality(LBC \cup D) \in Nat
        /\ Cardinality(LBC \cup D) <= Cardinality(LBC) + Cardinality(D)
    BY <1>5, <1>9, SizeOfUnion DEF LBC
  <2> QED
    BY <1>3, <1>5, <1>9, <2>1 DEF LBC
<1>11. Cardinality(Fd) <= Cardinality(((L \cup B) \cup C) \cup D)
  BY <1>6, <1>10, FS_Subset
<1>12. MaxFd >= 1 + Clients + 2 * nw
  BY DEF Room, nw
<1> QED
  BY <1>3, <1>7, <1>10, <1>11, <1>12

-----------------------------------------------------------------------------
(***************************************************************************)
(* The steps with room.                                                    *)
(***************************************************************************)
LEMMA InitRoomy == Init => Roomy
BY InitIInv DEF Init, Roomy, Ordinary, NullMeansBad

LEMMA OrdinaryStays ==
    ASSUME Roomy, IInv',
           \/ UNCHANGED fd
           \/ ~Full /\ \E c \in Client :
                  Open(Api(c)) \/ Open(Content(c)) \/ Open(Output(c))
           \/ \E n \in Fd : Close(n)
           \/ fd' = [n \in Fd |-> Free]
    PROVE  \A n \in Fd : Ordinary(n)'
<1>1. CASE UNCHANGED fd
  BY <1>1 DEF Roomy, Ordinary
<1>2. ASSUME ~Full, NEW c \in Client,
             NEW x \in {Api(c), Content(c), Output(c)}, Open(x)
      PROVE  \A n \in Fd : Ordinary(n)'
  <2>1. x \in OpenOn
    BY <1>2, ObjectTypes
  <2>2. fd'[NewFd] = x /\ \A n \in Fd : n # NewFd => fd'[n] = fd[n]
    BY <1>2, <2>1, OpenEffect DEF Roomy, IInv
  <2>3. x.what \in {"api", "content", "output"}
    BY DEF Api, Content, Output
  <2> QED
    BY <2>2, <2>3 DEF Roomy, Ordinary
<1>3. ASSUME NEW m \in Fd, Close(m)
      PROVE  \A n \in Fd : Ordinary(n)'
  BY <1>3, CloseEffect DEF Roomy, IInv, Ordinary
<1>4. CASE fd' = [n \in Fd |-> Free]
  BY <1>4 DEF Ordinary
<1> QED
  BY <1>1, <1>2, <1>3, <1>4

(* A worker's stream and request change only in its own steps before step  *)
(* 1, and there is room for the stream.                                    *)
LEMMA NullStays ==
    ASSUME Roomy, alive, NEW w \in Worker, run(w)
    PROVE  NullMeansBad'
<1> SUFFICES ASSUME Room, NEW v \in Worker,
                    wpc'[v] \in {"look", "measure", "ask"}, conn'[v] = NoFd
             PROVE  req'[v] # "good"
  BY DEF NullMeansBad, Room
<1>1. TypeOK /\ Phases
  BY DEF Roomy, IInv
<1>2. wpc[v] \in {"look", "measure", "ask"} /\ conn[v] = NoFd => req[v] # "good"
  BY DEF Roomy, NullMeansBad
<1>3. CASE Crash
  BY <1>3 DEF Crash
<1>4. CASE connect_Socket(w)
  <2>1. wpc[w] = "socket" /\ file[w] = NoFd
    BY <1>1, <1>4 DEF connect_Socket, Goto, Phases
  <2>2. ~Full
    BY <2>1, NeverFull
  <2> QED
    BY <1>1, <1>2, <1>4, <2>2 DEF connect_Socket, Goto, TypeOK
<1>5. CASE connect_Connect(w)
  BY <1>1, <1>2, <1>5 DEF connect_Connect, Goto, TypeOK, Phases
<1>6. CASE run_Remove(w) \/ run_ReceiveHeader(w)
  BY <1>1, <1>2, <1>6 DEF run_Remove, run_ReceiveHeader, Goto, TypeOK
<1>7. CASE run_ReceiveInfo(w)
  BY <1>1, <1>2, <1>7 DEF run_ReceiveInfo, Requested, Goto, TypeOK
<1>8. CASE FileTransferFunction_Ask(w) \/ FileTransferFunction_Open(w)
           \/ FileTransferFunction_Store(w)
  <2> QED
    BY <1>1, <1>2, <1>3, <1>8
       DEF FileTransferFunction_Ask, FileTransferFunction_Open,
           FileTransferFunction_Store, Goto, TypeOK
<1>9. CASE run_DeleteItem(w)
  BY <1>1, <1>2, <1>9 DEF run_DeleteItem, Goto, TypeOK
<1>10. CASE FileController_Open(w) \/ FileController_Close(w)
  BY <1>1, <1>2, <1>10
     DEF FileController_Open, FileController_Close, Goto, TypeOK
<1> QED
  BY <1>4, <1>5, <1>6, <1>7, <1>8, <1>9, <1>10 DEF run

LEMMA RunRoomy ==
    ASSUME Roomy, NEW w \in Worker, run(w)
    PROVE  Roomy'
<1>1. alive
  BY DEF run, run_Remove, run_ReceiveHeader, run_ReceiveInfo, connect_Socket,
         connect_Connect, FileController_Open, FileController_Close,
         FileTransferFunction_Ask, FileTransferFunction_Open,
         FileTransferFunction_Store, run_DeleteItem, Goto
<1>2. IInv'
  BY NextIInv DEF Roomy, Next
<1>3. TypeOK /\ Phases
  BY <1>1 DEF Roomy, IInv
<1>4. \A n \in Fd : Ordinary(n)'
  <2>1. CASE UNCHANGED fd
    BY <1>2, <2>1, OrdinaryStays
  <2>2. CASE Crash
    BY <1>2, <2>2, OrdinaryStays DEF Crash
  <2>3. CASE connect_Socket(w) /\ ~Full
    <3>1. item[w] # NoItem
      BY <1>3, <2>3 DEF connect_Socket, Goto, Phases
    <3>2. client(w) \in Client
      BY <1>3, <3>1 DEF TypeOK, WorkItem, client
    <3> QED
      BY <1>2, <2>3, <3>2, OrdinaryStays DEF connect_Socket
  <2>4. CASE connect_Connect(w) /\ Close(conn[w])
    <3>1. conn[w] \in Fd
      BY <1>3, <2>4 DEF connect_Connect, Goto, Phases, TypeOK
    <3> QED
      BY <1>2, <2>4, <3>1, OrdinaryStays
  <2>5. CASE wpc[w] \in {"look", "open"} /\ ~Full /\ Open(Output(client(w)))
    <3>1. item[w] # NoItem
      BY <1>3, <2>5 DEF Phases
    <3>2. client(w) \in Client
      BY <1>3, <3>1 DEF TypeOK, WorkItem, client
    <3> QED
      BY <1>2, <2>5, <3>2, OrdinaryStays
  <2>6. CASE wpc[w] \in {"measure", "store"} /\ Close(file[w])
    <3>1. file[w] \in Fd
      BY <1>3, <2>6 DEF Phases, TypeOK
    <3> QED
      BY <1>2, <2>6, <3>1, OrdinaryStays
  <2>7. CASE run_DeleteItem(w)
    <3>1. item[w] # NoItem
      BY <1>3, <2>7 DEF run_DeleteItem, Goto, Phases
    <3>2. item[w].sd \in Fd
      BY <1>3, <3>1 DEF TypeOK, WorkItem
    <3> QED
      BY <1>2, <2>7, <3>2, OrdinaryStays DEF run_DeleteItem
  <2> QED
    BY <2>1, <2>2, <2>3, <2>4, <2>5, <2>6, <2>7
       DEF run, run_Remove, run_ReceiveHeader, run_ReceiveInfo,
           connect_Socket, connect_Connect, FileController_Open,
           FileController_Close, FileTransferFunction_Ask,
           FileTransferFunction_Open, FileTransferFunction_Store, Goto
<1> QED
  BY <1>1, <1>2, <1>4, NullStays DEF Roomy

LEMMA NextRoomy == Roomy /\ [Next]_vars => Roomy'
<1> SUFFICES ASSUME Roomy, [Next]_vars PROVE Roomy'
  OBVIOUS
<1>1. IInv'
  BY NextIInv DEF Roomy
<1>2. CASE UNCHANGED <<fd, wvars>>
  <2>1. NullMeansBad'
    BY <1>2 DEF Roomy, NullMeansBad, Room, wvars
  <2> QED
    BY <1>1, <1>2, <2>1, OrdinaryStays DEF Roomy
<1>3. CASE serverStart
  <2>1. Head(backlog) \in Client
    BY <1>3, HeadTailProperties, LenProperties, EmptySeq
       DEF serverStart, Roomy, IInv, TypeOK
  <2>2. \A n \in Fd : Ordinary(n)'
    BY <1>1, <1>3, <2>1, OrdinaryStays DEF serverStart
  <2>3. NullMeansBad'
    BY <1>3 DEF serverStart, Roomy, NullMeansBad, Room, wvars
  <2> QED
    BY <1>1, <2>2, <2>3 DEF Roomy
<1>4. ASSUME NEW w \in Worker, run(w) PROVE Roomy'
  BY <1>4, RunRoomy
<1> QED
  BY <1>2, <1>3, <1>4
     DEF Next, ClientConnects, ClientSends, ClientLeaves, vars

(* With as many descriptors as the listener, one per client and two per    *)
(* worker, however the clients' connections and the workers' steps         *)
(* interleave, a request that can be carried out never meets a NULL stream *)
(* in step 6 nor a full table in step 10.                                  *)
THEOREM RoomMakesSafe == Spec => []ProperRequestsAreSafe
<1>1. Roomy => ProperRequestsAreSafe
  <2> SUFFICES ASSUME Roomy, Room, alive, NEW w \in Worker, req[w] = "good"
               PROVE  /\ wpc[w] = "ask" => conn[w] # NoFd
                      /\ wpc[w] = "open" => ~Full
    BY DEF ProperRequestsAreSafe
  <2>1. wpc[w] = "ask" => conn[w] # NoFd
    BY DEF Roomy, NullMeansBad
  <2>2. wpc[w] = "open" => file[w] = NoFd
    BY DEF Roomy, IInv, Phases
  <2>3. wpc[w] = "open" => ~Full
    BY <2>2, NeverFull
  <2> QED
    BY <2>1, <2>3
<1>2. Spec => []Roomy
  BY InitRoomy, NextRoomy, PTL DEF Spec
<1> QED
  BY <1>1, <1>2, PTL
=============================================================================
