------------------------------ MODULE Daemons -------------------------------
(***************************************************************************)
(* The two daemons together: the workers of the encode daemon with the     *)
(* jobs they take from their queue, the acceptor, the queue and the        *)
(* workers of the content daemon, and one connection per job.  Of a        *)
(* transfer there remains who waits for whom: FileTransfer has the rest.   *)
(*                                                                         *)
(* A job leaves its connection open when it ends, so that only the death   *)
(* of the encode daemon closes that side; the content worker closes the    *)
(* other one.                                                              *)
(***************************************************************************)
EXTENDS Integers, Sequences, FiniteSets, Functions

CONSTANTS
    EncodeWorker, ContentWorker,  \* the threads of each daemon
    Jobs,       \* how many requests there are
    NoJob,      \* what a worker at the queue works on
    Size,       \* units that a job asks for
    SockBuf     \* units that a socket takes before write blocks

Job == 1 .. Jobs

(* A source that can be copied; an empty one, of which the request expects *)
(* more than a socket holds, or less; one that does not exist.             *)
JobKinds == {"good", "refused", "refused_small", "missing"}

ASSUME DaemonsAssumption ==
    /\ IsFiniteSet(EncodeWorker) /\ IsFiniteSet(ContentWorker)
    /\ Jobs \in Nat /\ NoJob \notin Job
    /\ SockBuf \in Nat \ {0} /\ Size \in Nat /\ Size > SockBuf

VARIABLES
    kind,       \* of each job
    eUp, cUp,   \* the processes
    equeue,     \* the encode daemon's queue of jobs
    epc, ejob,  \* what each encode worker is doing, and for which job
    eLeft,      \* its sizeLeft in step 10
    backlog,    \* connections that the content daemon has not accepted yet
    cqueue,     \* its queue
    cpc, cjob,  \* what each content worker is doing, and for which job
    cLeft,      \* its sizeLeft in step 9
    reply,      \* EXIST_CHECK on each connection: "none", "ok", "err"
    ready,      \* the jobs that have sent READY
    window,     \* units of contents that nobody has read yet
    closed,     \* connections that the content daemon has closed
    ended       \* jobs that are over

fate    == <<kind, eUp, cUp>>
evars   == <<equeue, epc, ejob, eLeft, ended>>
waiting == <<backlog, cqueue>>
cvars   == <<waiting, cpc, cjob, cLeft, closed>>
net     == <<reply, ready, window>>
vars    == <<fate, evars, cvars, net>>

(* What each variable holds.                                               *)
TypeOK ==
    /\ kind \in [Job -> JobKinds]
    /\ eUp \in BOOLEAN /\ cUp \in BOOLEAN
    /\ equeue \in Seq(Job) /\ backlog \in Seq(Job) /\ cqueue \in Seq(Job)
    /\ epc \in [EncodeWorker -> {"remove", "exist", "receive", "end"}]
    /\ cpc \in [ContentWorker -> {"remove", "check", "ready", "send", "end"}]
    /\ ejob \in [EncodeWorker -> Job \cup {NoJob}]
    /\ cjob \in [ContentWorker -> Job \cup {NoJob}]
    /\ eLeft \in [EncodeWorker -> 0 .. Size]
    /\ cLeft \in [ContentWorker -> 0 .. Size]
    /\ reply \in [Job -> {"none", "ok", "err"}]
    /\ window \in [Job -> 0 .. SockBuf]
    /\ ready \subseteq Job /\ closed \subseteq Job /\ ended \subseteq Job

Init ==
    /\ kind \in [Job -> JobKinds]
    /\ eUp = TRUE /\ cUp = TRUE
    /\ equeue = [j \in Job |-> j] /\ backlog = << >> /\ cqueue = << >>
    /\ epc = [w \in EncodeWorker |-> "remove"]
    /\ cpc = [w \in ContentWorker |-> "remove"]
    /\ ejob = [w \in EncodeWorker |-> NoJob]
    /\ cjob = [w \in ContentWorker |-> NoJob]
    /\ eLeft = [w \in EncodeWorker |-> 0]
    /\ cLeft = [w \in ContentWorker |-> 0]
    /\ reply = [j \in Job |-> "none"]
    /\ window = [j \in Job |-> 0]
    /\ ready = {} /\ closed = {} /\ ended = {}

-----------------------------------------------------------------------------
(***************************************************************************)
(* A worker of the encode daemon.  If the content daemon has died, a read  *)
(* may find nothing, whatever was sent before.                             *)
(***************************************************************************)
eGoto(w, from, to) ==
    /\ eUp /\ epc[w] = from
    /\ epc' = [epc EXCEPT ![w] = to]

eJobEnds(w) ==
    /\ ended' = ended \cup {ejob[w]}
    /\ ejob' = [ejob EXCEPT ![w] = NoJob]
    /\ eLeft' = [eLeft EXCEPT ![w] = 0]

(* The process dies, by an invalid access or otherwise.                    *)
EncodeDies ==
    /\ eUp' = FALSE
    /\ equeue' = << >>
    /\ epc' = [w \in EncodeWorker |-> "remove"]
    /\ ejob' = [w \in EncodeWorker |-> NoJob]
    /\ eLeft' = [w \in EncodeWorker |-> 0]
    /\ UNCHANGED <<kind, cUp, ended, cvars, net>>

(* From remove() to step 2: TCPConnector::connect succeeds if the content  *)
(* daemon listens, and returns NULL if it does not, which step 6 takes for *)
(* a stream.                                                               *)
run_Connect(w) ==
    /\ eUp /\ epc[w] = "remove" /\ equeue # << >>
    /\ IF cUp
       THEN /\ eGoto(w, "remove", "exist")
            /\ ejob' = [ejob EXCEPT ![w] = Head(equeue)]
            /\ equeue' = Tail(equeue)
            /\ backlog' = Append(backlog, Head(equeue))
            /\ UNCHANGED <<fate, eLeft, ended, cqueue, cpc, cjob, cLeft,
                           closed, net>>
       ELSE EncodeDies

(* Mutant: step 6 waits for the answer of the content daemon only.         *)
processGetFile_Get_Exist_Data_Waits(w) ==
    LET j == ejob[w]
    IN  /\ epc[w] = "exist"
        /\ \/ /\ reply[j] = "ok"
              /\ eGoto(w, "exist", "receive")
              /\ ready' = ready \cup {j}
              /\ eLeft' = [eLeft EXCEPT ![w] = Size]
              /\ UNCHANGED <<ejob, ended>>
           \/ /\ reply[j] = "err"
              /\ eGoto(w, "exist", "remove")
              /\ eJobEnds(w)
              /\ UNCHANGED ready
        /\ UNCHANGED <<fate, equeue, cvars, reply, window>>

(* Steps 6 and 7.  What step 6 returns if it reads nothing is not defined. *)
processGetFile_Get_Exist_Data(w) ==
    LET j == ejob[w]
    IN  /\ epc[w] = "exist"
        /\ \/ /\ reply[j] = "ok" \/ ~cUp
              /\ eGoto(w, "exist", "receive")
              /\ ready' = ready \cup {j}
              /\ eLeft' = [eLeft EXCEPT ![w] = Size]
              /\ UNCHANGED <<ejob, ended>>
           \/ /\ reply[j] = "err" \/ ~cUp
              /\ eGoto(w, "exist", "remove")
              /\ eJobEnds(w)
              /\ UNCHANGED ready
        /\ UNCHANGED <<fate, equeue, cvars, reply, window>>

(* Mutant: the loop of step 10 ends when nothing is waiting to be read.    *)
processGetFile_FILE_TRANSFER_StopsEmpty(w) ==
    LET j == ejob[w]
    IN  /\ eUp /\ epc[w] = "receive"
        /\ \/ /\ eLeft[w] > 0 /\ window[j] > 0
              /\ eLeft' = [eLeft EXCEPT ![w] = @ - 1]
              /\ window' = [window EXCEPT ![j] = @ - 1]
              /\ UNCHANGED epc
           \/ /\ window[j] = 0
              /\ eGoto(w, "receive", "end")
              /\ UNCHANGED <<eLeft, window>>
        /\ UNCHANGED <<fate, equeue, ejob, ended, cvars, reply, ready>>

(* A turn of the loop of step 10, or its end.                              *)
processGetFile_FILE_TRANSFER(w) ==
    LET j == ejob[w]
    IN  /\ eUp /\ epc[w] = "receive"
        /\ \/ /\ eLeft[w] > 0 /\ window[j] > 0
              /\ eLeft' = [eLeft EXCEPT ![w] = @ - 1]
              /\ window' = [window EXCEPT ![j] = @ - 1]
              /\ UNCHANGED epc
           \/ /\ eLeft[w] = 0 \/ ~cUp
              /\ eGoto(w, "receive", "end")
              /\ UNCHANGED <<eLeft, window>>
        /\ UNCHANGED <<fate, equeue, ejob, ended, cvars, reply, ready>>

(* Step 12, delete item.                                                   *)
processGetFile_TRANSFER_END(w) ==
    /\ ejob[w] \in closed \/ ~cUp
    /\ eGoto(w, "end", "remove")
    /\ eJobEnds(w)
    /\ UNCHANGED <<fate, equeue, cvars, net>>

Encode(w) ==
    \/ run_Connect(w) \/ processGetFile_Get_Exist_Data(w)
    \/ processGetFile_FILE_TRANSFER(w) \/ processGetFile_TRANSFER_END(w)

-----------------------------------------------------------------------------
(***************************************************************************)
(* The content daemon.                                                     *)
(***************************************************************************)

(* A turn of the accept loop.                                              *)
serverStart ==
    /\ cUp /\ backlog # << >>
    /\ cqueue' = Append(cqueue, Head(backlog))
    /\ backlog' = Tail(backlog)
    /\ UNCHANGED <<fate, cpc, cjob, cLeft, closed, evars, net>>

cGoto(k, from, to) ==
    /\ cUp /\ cpc[k] = from
    /\ cpc' = [cpc EXCEPT ![k] = to]

run_Remove(k) ==
    /\ cqueue # << >>
    /\ cGoto(k, "remove", "check")
    /\ cjob' = [cjob EXCEPT ![k] = Head(cqueue)]
    /\ cqueue' = Tail(cqueue)
    /\ UNCHANGED <<fate, backlog, cLeft, closed, evars, net>>

(* Steps 4 and 5.                                                          *)
processPutFile_FileExistReturn(k) ==
    /\ cGoto(k, "check", "ready")
    /\ reply' = [reply EXCEPT ![cjob[k]] =
                    IF kind[cjob[k]] = "good" THEN "ok" ELSE "err"]
    /\ UNCHANGED <<fate, waiting, cjob, cLeft, closed, evars, ready, window>>

(* The process dies: fseeko64 of the file that fopen64 has not opened.     *)
ContentDies ==
    /\ cUp' = FALSE
    /\ backlog' = << >> /\ cqueue' = << >>
    /\ cpc' = [k \in ContentWorker |-> "remove"]
    /\ cjob' = [k \in ContentWorker |-> NoJob]
    /\ cLeft' = [k \in ContentWorker |-> 0]
    /\ UNCHANGED <<kind, eUp, closed, evars, net>>

(* Step 8 ends with READY, when the peer has gone, or with the timeout,    *)
(* which a peer that is going to send READY does not let happen; whatever  *)
(* it returns, step 9 opens the file.                                      *)
processPutFile_TransferReady(k) ==
    LET j == cjob[k]
    IN  /\ cUp /\ cpc[k] = "ready"
        /\ j \in ready \/ j \in ended \/ ~eUp
        /\ \/ kind[j] = "missing" /\ ContentDies
           \/ /\ kind[j] # "missing"
              /\ cGoto(k, "ready", "send")
              /\ cLeft' = [cLeft EXCEPT ![k] =
                              IF kind[j] = "refused_small" THEN SockBuf
                                                           ELSE Size]
              /\ UNCHANGED <<fate, waiting, cjob, closed, evars, net>>

(* Mutant: write does not block.                                           *)
processPutFile_File_Transfer_NoBlock(k) ==
    LET j == cjob[k]
    IN  /\ cUp /\ cpc[k] = "send"
        /\ \/ /\ cLeft[k] > 0
              /\ cLeft' = [cLeft EXCEPT ![k] = @ - 1]
              /\ window' = [window EXCEPT ![j] = @ + 1]
              /\ UNCHANGED cpc
           \/ /\ cLeft[k] = 0
              /\ cGoto(k, "send", "end")
              /\ UNCHANGED <<cLeft, window>>
        /\ UNCHANGED <<fate, waiting, cjob, closed, evars, reply, ready>>

(* Mutant: a send that fails does not end the loop.                        *)
processPutFile_File_Transfer_NoBreak(k) ==
    LET j == cjob[k]
    IN  /\ cUp /\ cpc[k] = "send"
        /\ \/ /\ cLeft[k] > 0 /\ eUp /\ window[j] < SockBuf
              /\ cLeft' = [cLeft EXCEPT ![k] = @ - 1]
              /\ window' = [window EXCEPT ![j] = @ + 1]
              /\ UNCHANGED cpc
           \/ /\ cLeft[k] = 0
              /\ cGoto(k, "send", "end")
              /\ UNCHANGED <<cLeft, window>>
        /\ UNCHANGED <<fate, waiting, cjob, closed, evars, reply, ready>>

(* Mutant: the loop ends when the socket is full.                          *)
processPutFile_File_Transfer_StopsFull(k) ==
    LET j == cjob[k]
    IN  /\ cUp /\ cpc[k] = "send"
        /\ \/ /\ cLeft[k] > 0 /\ eUp /\ window[j] < SockBuf
              /\ cLeft' = [cLeft EXCEPT ![k] = @ - 1]
              /\ window' = [window EXCEPT ![j] = @ + 1]
              /\ UNCHANGED cpc
           \/ /\ cLeft[k] = 0 \/ ~eUp \/ window[j] = SockBuf
              /\ cGoto(k, "send", "end")
              /\ UNCHANGED <<cLeft, window>>
        /\ UNCHANGED <<fate, waiting, cjob, closed, evars, reply, ready>>

(* The loop of step 9: write blocks while the socket is full, and fails if *)
(* the peer has gone.                                                      *)
processPutFile_File_Transfer(k) ==
    LET j == cjob[k]
    IN  /\ cUp /\ cpc[k] = "send"
        /\ \/ /\ cLeft[k] > 0 /\ eUp /\ window[j] < SockBuf
              /\ cLeft' = [cLeft EXCEPT ![k] = @ - 1]
              /\ window' = [window EXCEPT ![j] = @ + 1]
              /\ UNCHANGED cpc
           \/ /\ cLeft[k] = 0 \/ ~eUp
              /\ cGoto(k, "send", "end")
              /\ UNCHANGED <<cLeft, window>>
        /\ UNCHANGED <<fate, waiting, cjob, closed, evars, reply, ready>>

(* Mutant: the end signal has to wait for the READY that step 8 missed.    *)
run_DeleteItem_Waits(k) ==
    /\ cjob[k] \in ready
    /\ cGoto(k, "end", "remove")
    /\ closed' = closed \cup {cjob[k]}
    /\ cjob' = [cjob EXCEPT ![k] = NoJob]
    /\ cLeft' = [cLeft EXCEPT ![k] = 0]
    /\ UNCHANGED <<fate, waiting, evars, net>>

(* Step 11 and delete item, which closes the connection.                   *)
run_DeleteItem(k) ==
    /\ cGoto(k, "end", "remove")
    /\ closed' = closed \cup {cjob[k]}
    /\ cjob' = [cjob EXCEPT ![k] = NoJob]
    /\ cLeft' = [cLeft EXCEPT ![k] = 0]
    /\ UNCHANGED <<fate, waiting, evars, net>>

Content(k) ==
    \/ run_Remove(k) \/ processPutFile_FileExistReturn(k)
    \/ processPutFile_TransferReady(k) \/ processPutFile_File_Transfer(k)
    \/ run_DeleteItem(k)

Next ==
    \/ eUp /\ EncodeDies
    \/ \E w \in EncodeWorker : Encode(w)
    \/ serverStart
    \/ \E k \in ContentWorker : Content(k)

(***************************************************************************)
(* Threads that are not blocked run, and the timer of step 8 expires.      *)
(***************************************************************************)
Spec == /\ Init /\ [][Next]_vars
        /\ WF_vars(serverStart)
        /\ \A w \in EncodeWorker : WF_vars(Encode(w))
        /\ \A k \in ContentWorker : WF_vars(Content(k))
-----------------------------------------------------------------------------
(***************************************************************************)
(* Properties.                                                             *)
(***************************************************************************)
Refused      == {j \in Job : kind[j] = "refused"}
NothingMissing == \A j \in Job : kind[j] # "missing"
IdleContent  == {k \in ContentWorker : cpc[k] = "remove"}

(* A content worker that still has a part of a good file to send has its   *)
(* reader on the other side, who expects exactly what is in flight and     *)
(* what has not been sent yet: neither of them ever waits for the other    *)
(* in vain, so that a full socket holds up a worker only after a refusal.  *)
SendersHaveReaders ==
    eUp => \A k \in ContentWorker :
        cpc[k] = "send" /\ cLeft[k] > 0 /\ kind[cjob[k]] = "good" =>
            \E w \in EncodeWorker :
                /\ ejob[w] = cjob[k] /\ epc[w] = "receive"
                /\ eLeft[w] = window[cjob[k]] + cLeft[k]

(* What an encode worker waits for is still to come while the content      *)
(* daemon runs: for the answer, its connection is on the way to a worker   *)
(* or that worker is going to give it; for contents, a worker has exactly  *)
(* those left to send; for the end signal, a worker has sent everything.   *)
WaitsAreAnswered ==
    cUp => \A w \in EncodeWorker :
        LET j     == ejob[w]
            Peers == {k \in ContentWorker : cjob[k] = j}
        IN  /\ epc[w] = "exist" /\ reply[j] = "none" =>
                  \/ j \in Range(backlog) \cup Range(cqueue)
                  \/ \E k \in Peers : cpc[k] = "check"
            /\ epc[w] = "receive" /\ eLeft[w] > window[j] =>
                  \E k \in Peers :
                      \/ cpc[k] = "ready"
                      \/ cpc[k] = "send" /\ eLeft[w] = window[j] + cLeft[k]
            /\ epc[w] = "end" /\ j \notin closed =>
                  \E k \in Peers :
                      cpc[k] = "end" \/ (cpc[k] = "send" /\ cLeft[k] = 0)

(* No cycle of waiting between the pools: as long as one content worker is *)
(* left that no refused job can have taken, or if the content daemon dies, *)
(* every encode worker comes back from every job.                          *)
EncodeWorkersReturn ==
    (Cardinality(Refused) < Cardinality(ContentWorker) \/ <>~cUp) =>
        <>[](\A w \in EncodeWorker : epc[w] = "remove")

(* Every refused job whose contents do not fit into a socket costs the     *)
(* content daemon one worker, and nothing else costs it any.               *)
LosesOneWorkerPerRefusal ==
    NothingMissing /\ []eUp =>
        <>[](LET n == Cardinality(ContentWorker) - Cardinality(Refused)
             IN  Cardinality(IdleContent) = IF n >= 0 THEN n ELSE 0)

(* The death of the encode daemon brings all the content workers back,     *)
(* also those that were blocked in write.                                  *)
DeathFreesWorkers ==
    <>~eUp => <>[](IdleContent = ContentWorker)
=============================================================================
