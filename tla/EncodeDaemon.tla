---------------------------- MODULE EncodeDaemon ----------------------------
(***************************************************************************)
(* The process of the encode daemon: the accept loop of serverStart, the   *)
(* loop of EncdConnectionHandler::run in every worker thread with the two  *)
(* reads of a request, TCPConnector::connect and the job, and what they    *)
(* all share, the descriptor table of the process.  A request comes over   *)
(* the connection of one client (the API server); the job for it opens a   *)
(* connection to the content daemon and the output file.                   *)
(*                                                                         *)
(* The queue is the one that FifoQueue promises.  Of the job, which        *)
(* FileTransfer details, there remains what the process notices of it.     *)
(***************************************************************************)
EXTENDS Integers, FiniteSets, Sequences

CONSTANTS
    Worker,    \* the worker threads
    Clients,   \* how many connections API clients make, one request each
    NoClient,  \* nobody
    MaxFd,     \* the descriptors that the process may have open
    Kinds      \* what the requests may be

Client == 1 .. Clients   \* numbered in the order in which they connect

(* A request that is in order; one whose content server cannot be reached; *)
(* one whose output path cannot be opened (also what remains of a FILEINFO *)
(* when the read brings its first part only).                              *)
RequestKinds == {"good", "unreachable", "no_dir"}

ASSUME EncodeDaemonAssumption ==
    /\ IsFiniteSet(Worker) /\ Clients \in Nat
    /\ NoClient \notin Client
    /\ MaxFd \in Nat \ {0}
    /\ Kinds \subseteq RequestKinds

VARIABLES
    alive,    \* the process runs
    api,      \* each client's connection, as the daemon's reads see it
    backlog,  \* connections that wait for accept
    fd,       \* the descriptor table: what each number is open on
    pending,  \* the work items in the queue
    wpc,      \* the function each worker runs next
    item,     \* its work item
    req,      \* what its FILEINFO asks for
    conn,     \* m_sd of its stream to the content daemon, or NoFd: NULL
    file,     \* the descriptor of its output file, or NoFd
    done      \* clients whose item has been deleted

outer == <<alive, api, backlog>>
wvars == <<wpc, item, req, conn, file>>
vars  == <<outer, fd, pending, wvars, done>>

-----------------------------------------------------------------------------
(***************************************************************************)
(* The kernel's descriptor table: a new descriptor gets the lowest number  *)
(* that is free, so that a closed number soon means something else.        *)
(***************************************************************************)
Fd   == 0 .. MaxFd - 1
NoFd == -1

Free       == [what |-> "free", of |-> NoClient]
Listener   == [what |-> "listener", of |-> NoClient]
Api(c)     == [what |-> "api", of |-> c]
Content(c) == [what |-> "content", of |-> c]
Output(c)  == [what |-> "output", of |-> c]

OpenOn == [what : {"free", "listener", "api", "content", "output"},
           of   : Client \cup {NoClient}]

FreeFds == {n \in Fd : fd[n] = Free}
Full    == FreeFds = {}
NewFd   == CHOOSE n \in FreeFds : \A m \in FreeFds : n <= m

Open(x)  == fd' = [fd EXCEPT ![NewFd] = x]
Close(n) == fd' = [fd EXCEPT ![n] = Free]

WorkItem == [client : Client, sd : Fd]
NoItem   == [client |-> NoClient, sd |-> NoFd]

(* What each variable holds.                                               *)
TypeOK ==
    /\ alive \in BOOLEAN
    /\ api \in [Client -> {"away", "silent", "sent", "closed", "reset"}]
    /\ backlog \in Seq(Client)
    /\ fd \in [Fd -> OpenOn]
    /\ pending \in Seq(WorkItem)
    /\ wpc \in [Worker -> {"remove", "header", "info", "socket", "connect",
                           "look", "measure", "ask", "open", "store",
                           "delete"}]
    /\ item \in [Worker -> WorkItem \cup {NoItem}]
    /\ req \in [Worker -> Kinds \cup {"cleared"}]
    /\ conn \in [Worker -> Fd \cup {NoFd}]
    /\ file \in [Worker -> Fd \cup {NoFd}]
    /\ done \subseteq Client

Init ==
    /\ alive = TRUE
    /\ api = [c \in Client |-> "away"]
    /\ backlog = << >>
    /\ fd = [n \in Fd |-> IF n = 0 THEN Listener ELSE Free]
    /\ pending = << >>
    /\ wpc = [w \in Worker |-> "remove"]
    /\ item = [w \in Worker |-> NoItem]
    /\ req = [w \in Worker |-> "cleared"]
    /\ conn = [w \in Worker |-> NoFd]
    /\ file = [w \in Worker |-> NoFd]
    /\ done = {}

-----------------------------------------------------------------------------
(***************************************************************************)
(* API clients: one connects, sends a HEADER and a FILEINFO, and may close *)
(* or abort the connection at any time or just do nothing more.  What it   *)
(* has sent before a close stays readable; an abort discards it.  A client *)
(* is silent until the whole request is there: which of the two reads has  *)
(* to wait makes no difference; after them the daemon does not look at the *)
(* connection again, and nor does this model.                              *)
(***************************************************************************)
Moves(c, from, to) == api[c] \in from /\ api' = [api EXCEPT ![c] = to]

ClientConnects(c) ==
    /\ alive /\ \A d \in 1 .. c - 1 : api[d] # "away"
    /\ Moves(c, {"away"}, "silent")
    /\ backlog' = Append(backlog, c)
    /\ UNCHANGED <<alive, fd, pending, wvars, done>>

ClientSends(c) ==
    /\ alive /\ Moves(c, {"silent"}, "sent")
    /\ UNCHANGED <<alive, backlog, fd, pending, wvars, done>>

ClientLeaves(c) ==
    /\ alive /\ c \notin done
    /\ \A w \in Worker : item[w].client = c => wpc[w] \in {"header", "info"}
    /\ Moves(c, {"silent"}, "closed") \/ Moves(c, {"silent", "sent"}, "reset")
    /\ UNCHANGED <<alive, backlog, fd, pending, wvars, done>>

-----------------------------------------------------------------------------
(***************************************************************************)
(* serverStart: TCPAcceptor::accept, new WorkItem, queue.add.  With a full *)
(* table accept fails, the connection stays where it is, and the loop      *)
(* tries again.                                                            *)
(***************************************************************************)
serverStart ==
    /\ alive /\ backlog # << >> /\ ~Full
    /\ Open(Api(Head(backlog)))
    /\ pending' = Append(pending, [client |-> Head(backlog), sd |-> NewFd])
    /\ backlog' = Tail(backlog)
    /\ UNCHANGED <<alive, api, wvars, done>>

-----------------------------------------------------------------------------
(***************************************************************************)
(* EncdConnectionHandler::run.                                             *)
(***************************************************************************)
Goto(w, from, to) ==
    /\ alive /\ wpc[w] = from
    /\ wpc' = [wpc EXCEPT ![w] = to]

client(w) == item[w].client

run_Remove(w) ==
    /\ pending # << >>
    /\ Goto(w, "remove", "header")
    /\ item' = [item EXCEPT ![w] = Head(pending)]
    /\ pending' = Tail(pending)
    /\ UNCHANGED <<outer, fd, req, conn, file, done>>

(* The first read blocks, without a timeout, while the client is silent.   *)
(* Whatever it returns, the second follows; an abort is reported by one    *)
(* read, and the next one returns 0 as after a close.                      *)
run_ReceiveHeader(w) ==
    /\ Goto(w, "header", "info")
    /\ api[client(w)] # "silent"
    /\ api' = [api EXCEPT ![client(w)] = IF @ = "reset" THEN "closed" ELSE @]
    /\ UNCHANGED <<alive, backlog, fd, pending, item, req, conn, file, done>>

(* The FILEINFO that the job gets: one the client has sent, or, when there *)
(* was nothing to read, the one that memset has cleared.                   *)
Requested(w) ==
    \E k \in IF api[client(w)] = "sent" THEN Kinds ELSE {"cleared"} :
        req' = [req EXCEPT ![w] = k]

(* Mutant: the worker's thread ends when the read fails.                   *)
run_ReceiveInfo_Returns(w) ==
    /\ Goto(w, "info", "socket")
    /\ api[client(w)] \notin {"silent", "reset"}
    /\ Requested(w)
    /\ UNCHANGED <<outer, fd, pending, item, conn, file, done>>

(* Mutant: continue, which skips delete item, when the read fails.         *)
run_ReceiveInfo_Continue(w) ==
    /\ wpc[w] = "info" /\ api[client(w)] # "silent"
    /\ IF api[client(w)] = "reset"
       THEN /\ Goto(w, "info", "remove")
            /\ item' = [item EXCEPT ![w] = NoItem]
            /\ UNCHANGED req
       ELSE /\ Goto(w, "info", "socket")
            /\ Requested(w)
            /\ UNCHANGED item
    /\ UNCHANGED <<outer, fd, pending, conn, file, done>>

(* Mutant: the item is deleted where the read fails, and again at the end. *)
run_ReceiveInfo_DeletesTwice(w) ==
    /\ wpc[w] = "info" /\ api[client(w)] # "silent"
    /\ IF api[client(w)] = "reset"
       THEN Goto(w, "info", "delete") /\ Close(item[w].sd) /\ UNCHANGED req
       ELSE /\ Goto(w, "info", "socket")
            /\ Requested(w)
            /\ UNCHANGED fd
    /\ UNCHANGED <<outer, pending, item, conn, file, done>>

(* Mutant: the item is deleted and forgotten where the read fails, and the *)
(* end of the loop deletes what is not there any more.                     *)
run_ReceiveInfo_Forgets(w) ==
    /\ wpc[w] = "info" /\ api[client(w)] # "silent"
    /\ IF api[client(w)] = "reset"
       THEN /\ Goto(w, "info", "delete")
            /\ Close(item[w].sd) /\ item' = [item EXCEPT ![w] = NoItem]
            /\ UNCHANGED req
       ELSE Goto(w, "info", "socket") /\ Requested(w) /\ UNCHANGED <<fd, item>>
    /\ UNCHANGED <<outer, pending, conn, file, done>>

(* The second read: an error (len < 0) ends the work, 0 does not.          *)
run_ReceiveInfo(w) ==
    /\ wpc[w] = "info" /\ api[client(w)] # "silent"
    /\ IF api[client(w)] = "reset"
       THEN Goto(w, "info", "delete") /\ UNCHANGED req
       ELSE Goto(w, "info", "socket") /\ Requested(w)
    /\ UNCHANGED <<outer, fd, pending, item, conn, file, done>>

(* TCPConnector::connect: a stream, or NULL.                               *)
connect_Socket(w) ==
    /\ IF Full
       THEN Goto(w, "socket", "look") /\ UNCHANGED <<fd, conn>>
       ELSE /\ Goto(w, "socket", "connect")
            /\ Open(Content(client(w)))
            /\ conn' = [conn EXCEPT ![w] = NewFd]
    /\ UNCHANGED <<outer, pending, item, req, file, done>>

connect_Connect(w) ==
    /\ Goto(w, "connect", "look")
    /\ IF req[w] \in {"cleared", "unreachable"}
       THEN Close(conn[w]) /\ conn' = [conn EXCEPT ![w] = NoFd]
       ELSE UNCHANGED <<fd, conn>>
    /\ UNCHANGED <<outer, pending, item, req, file, done>>

(* The job starts with new FileController, stream or none: its constructor *)
(* opens the output, if it is there and the table has room, to learn its   *)
(* size, and closes it.                                                    *)
FileController_Open(w) ==
    \/ /\ Goto(w, "look", "measure")
       /\ ~Full
       /\ Open(Output(client(w)))
       /\ file' = [file EXCEPT ![w] = NewFd]
       /\ UNCHANGED <<outer, pending, item, req, conn, done>>
    \/ /\ Goto(w, "look", "ask")
       /\ UNCHANGED <<outer, fd, pending, item, req, conn, file, done>>

FileController_Close(w) ==
    /\ Goto(w, "measure", "ask")
    /\ Close(file[w]) /\ file' = [file EXCEPT ![w] = NoFd]
    /\ UNCHANGED <<outer, pending, item, req, conn, done>>

(* An invalid access of one worker: the kernel ends the process, closes    *)
(* all it has open, and all that was in its memory is gone.                *)
Crash ==
    /\ alive' = FALSE
    /\ fd' = [n \in Fd |-> Free]
    /\ backlog' = << >> /\ pending' = << >>
    /\ wpc' = [w \in Worker |-> "remove"]
    /\ item' = [w \in Worker |-> NoItem]
    /\ req' = [w \in Worker |-> "cleared"]
    /\ conn' = [w \in Worker |-> NoFd]
    /\ file' = [w \in Worker |-> NoFd]
    /\ UNCHANGED <<api, done>>

(* FileTransferFunction, steps 2 and 6.  Step 2 looks whether there is a   *)
(* stream, step 6 does not.  The result decides whether there is a file to *)
(* be fetched.                                                             *)
FileTransferFunction_Ask(w) ==
    \/ /\ alive /\ wpc[w] = "ask" /\ conn[w] = NoFd
       /\ Crash
    \/ /\ conn[w] # NoFd
       /\ Goto(w, "ask", "open") \/ Goto(w, "ask", "delete")
       /\ UNCHANGED <<outer, fd, pending, item, req, conn, file, done>>

(* Steps 7 and 10 up to the loop: fopen64 returns NULL if the path cannot  *)
(* be opened or the table is full, and fseeko64 takes it as it is.         *)
FileTransferFunction_Open(w) ==
    \/ /\ alive /\ wpc[w] = "open" /\ (Full \/ req[w] = "no_dir")
       /\ Crash
    \/ /\ Goto(w, "open", "store")
       /\ ~Full /\ req[w] # "no_dir"
       /\ Open(Output(client(w)))
       /\ file' = [file EXCEPT ![w] = NewFd]
       /\ UNCHANGED <<outer, pending, item, req, conn, done>>

(* Mutant: step 10 ends without fclose.                                    *)
FileTransferFunction_Store_NoClose(w) ==
    /\ Goto(w, "store", "delete")
    /\ file' = [file EXCEPT ![w] = NoFd]
    /\ UNCHANGED <<outer, fd, pending, item, req, conn, done>>

(* The loop of step 10, fclose and step 12.                                *)
FileTransferFunction_Store(w) ==
    /\ Goto(w, "store", "delete")
    /\ Close(file[w]) /\ file' = [file EXCEPT ![w] = NoFd]
    /\ UNCHANGED <<outer, pending, item, req, conn, done>>

(* delete item closes the client's connection.  The stream to the content  *)
(* daemon was a local variable of the block that has just ended.           *)
run_DeleteItem(w) ==
    /\ Goto(w, "delete", "remove")
    /\ Close(item[w].sd)
    /\ item' = [item EXCEPT ![w] = NoItem]
    /\ req' = [req EXCEPT ![w] = "cleared"]
    /\ conn' = [conn EXCEPT ![w] = NoFd]
    /\ done' = done \cup {client(w)}
    /\ UNCHANGED <<outer, pending, file>>

run(w) ==
    \/ run_Remove(w) \/ run_ReceiveHeader(w) \/ run_ReceiveInfo(w)
    \/ connect_Socket(w) \/ connect_Connect(w)
    \/ FileController_Open(w) \/ FileController_Close(w)
    \/ FileTransferFunction_Ask(w) \/ FileTransferFunction_Open(w)
    \/ FileTransferFunction_Store(w) \/ run_DeleteItem(w)

Next ==
    \/ \E c \in Client : ClientConnects(c) \/ ClientSends(c) \/ ClientLeaves(c)
    \/ serverStart
    \/ \E w \in Worker : run(w)

(***************************************************************************)
(* The threads of the process run and the calls of a job return (that they *)
(* do is the subject of FileTransfer).  Nothing is assumed of the clients. *)
(***************************************************************************)
Spec == /\ Init /\ [][Next]_vars
        /\ WF_vars(serverStart) /\ \A w \in Worker : WF_vars(run(w))
-----------------------------------------------------------------------------
(***************************************************************************)
(* Properties.                                                             *)
(***************************************************************************)

(* Whatever descriptor a thread is going to read, write or close is still  *)
(* open on what the thread opened it on: no number is used after it was    *)
(* closed and has come to mean another worker's connection or file.        *)
DescriptorsAreOwn ==
    alive =>
        /\ fd[0] = Listener
        /\ \A i \in DOMAIN pending :
              fd[pending[i].sd] = Api(pending[i].client)
        /\ \A w \in Worker :
              /\ item[w] # NoItem => fd[item[w].sd] = Api(client(w))
              /\ conn[w] # NoFd => fd[conn[w]] = Content(client(w))
              /\ file[w] # NoFd => fd[file[w]] = Output(client(w))

(* The process loses no descriptor but one per job, that of the connection *)
(* to the content daemon: every other one that is open will be closed by   *)
(* the worker that has it or will have it, on every path through run.      *)
OnlyJobsLeak ==
    \A n \in Fd :
        /\ fd[n].what = "api" =>
              \/ \E i \in DOMAIN pending : pending[i].sd = n
              \/ \E w \in Worker : item[w].sd = n
        /\ fd[n].what = "output" => \E w \in Worker : file[w] = n
        /\ fd[n].what = "content" =>
              /\ \A m \in Fd : fd[m] = fd[n] => m = n
              /\ fd[n].of \in done \/ \E w \in Worker : conn[w] = n

(* Descriptors for the listener, for what each client's request leaves     *)
(* open or waits with, and two more for each worker's job.                 *)
Room == MaxFd >= 1 + Clients + 2 * Cardinality(Worker)

(* As long as there is room for what the jobs leave open, a job that can   *)
(* be carried out does not end the daemon: it has its stream when step 6   *)
(* uses it, and step 10 finds a descriptor for its file, whatever the      *)
(* other workers' jobs have opened, closed and left open meanwhile.        *)
ProperRequestsAreSafe ==
    Room /\ alive =>
        \A w \in Worker : req[w] = "good" =>
            /\ wpc[w] = "ask" => conn[w] # NoFd
            /\ wpc[w] = "open" => ~Full

(* serverStart takes every connection over once, when the table is full    *)
(* and accept fails too: it is in the backlog, or in the queue, or with    *)
(* one worker, or served.                                                  *)
Places(c) ==
    {<<"backlog", i>> : i \in {j \in DOMAIN backlog : backlog[j] = c}} \cup
    {<<"queue", i>> : i \in {j \in DOMAIN pending : pending[j].client = c}} \cup
    {<<"worker", w>> : w \in {v \in Worker : client(v) = c}} \cup
    {<<"done", c>> : d \in done \cap {c}}

ConnectionsAreKept ==
    alive => \A c \in Client :
        IF api[c] = "away" THEN Places(c) = {}
                           ELSE \E p \in Places(c) : Places(c) = {p}

(* A request that was sent whole reaches a job that ends, unless clients   *)
(* that stay silent hold all the workers for ever, the client aborts, or   *)
(* the process dies.                                                       *)
Held(w) ==
    wpc[w] \in {"header", "info"} /\ api[client(w)] = "silent"

RequestsAreServed ==
    []<>(\E w \in Worker : ~Held(w)) =>
        \A c \in Client :
            api[c] = "sent" ~> c \in done \/ api[c] = "reset" \/ ~alive

(* A job that cannot be carried out ends with an error ("return -1 == 통신 *)
(* 에러", EncodeDaemonFunction.cpp:45), and the daemon goes on.            *)
BadRequestsAreContained == alive
=============================================================================
