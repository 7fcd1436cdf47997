---------------------------- MODULE FileTransfer ----------------------------
(***************************************************************************)
(* One file transfer over one TCP connection: a worker of the encode       *)
(* daemon, which asks for a file and stores it (EncdConnectionHandler::    *)
(* FileTransferFunction), and a worker of the content daemon, which serves *)
(* it (ConnectionHandler::run and processPutFile).                         *)
(*                                                                         *)
(*      encode worker                          content worker              *)
(*      2  START + FILEINFO    ------------->  (run) header, 3 file info   *)
(*                                             4  look at the file         *)
(*      6  wait                <-------------  5  EXIST_CHECK              *)
(*      7  TRANSFER_READY      ------------->  8  wait, at most 60 s       *)
(*      10 store               <-------------  9  the contents             *)
(*      12 wait                <-------------  11 TRANSFER_END             *)
(*                                                                         *)
(* The program counters carry the name of the function that runs next.     *)
(* Each direction of the connection is the log of all units that reached   *)
(* (or will reach) the peer's socket, with the reader's position in it.    *)
(* The code never looks at its own past, so a job that is sent again after *)
(* a failed one is a behaviour whose old output file is what was left.     *)
(***************************************************************************)
EXTENDS FileControl

CONSTANTS
    FILE_BUF_SIZE,  (* units in the transfer buffer (32 KiB in the code)    *)
    SockBuf,        (* units in flight the kernel takes before write blocks *)
    DiskRoom,       (* units the output file system can hold                *)
    Sizes,          (* values of dFileSize in the request                   *)
    SrcFiles,       (* states of the file on the content host               *)
    OldFiles,       (* states of the output file before the job             *)
    ClientExits,    (* TRUE: client_test, whose process exits after the job *)
                    (* FALSE: a daemon worker, which goes back to the queue *)
    Faults          (* what the environment may do, see FaultKinds          *)

FaultKinds == {
    "split_header",   \* a read returns a part of a HEADER
    "split_info",     \* a read returns a part of a FILEINFO
    "timeout",        \* READY takes more than the 60 s of step 8
    "reset",          \* the network aborts the connection
    "crash",          \* the encode process is killed
    "no_dir",         \* the output path cannot be opened
    "src_change" }    \* the source file changes between step 4 and step 9

ASSUME TransferAssumption ==
    /\ FILE_BUF_SIZE \in Nat \ {0}
    /\ SockBuf \in Nat /\ SockBuf >= HEADER_SIZE
    /\ DiskRoom \in Nat
    /\ Sizes \subseteq Nat
    /\ SrcFiles \subseteq FileOf(DataUnit)
    /\ OldFiles \subseteq FileOf(Unit)
    /\ ClientExits \in BOOLEAN
    /\ Faults \subseteq FaultKinds

VARIABLES
    epc,        \* the function the encode worker runs next
    ectl,       \* its FileController
    eLeft,      \* sizeLeft of processGetFile_FILE_TRANSFER
    eStatus,    \* nStatus as step 6 has read it, 0 where memset left it
    eRes,       \* what step 10 returned, 0 until it returns
    eRd,        \* units of c2e it has read
    out,        \* the output file
    cpc,        \* the function the content worker runs next
    cStart,     \* dFileDownSize as received
    cctl,       \* its FileController
    cRes,       \* result of processPutFile_TransferReady, 0 before step 8
    cfile,      \* the contents of the source file it holds open
    cLeft,      \* sizeLeft of processPutFile_File_Transfer
    cBuf,       \* the part of fileBuffer that write has not handed over yet
    cRd,        \* units of e2c it has read
    e2c, c2e,   \* the two directions of the connection
    conn,       \* "up", or "reset" once an RST has crossed it
    eSock,      \* the encode side's descriptor
    cSock,      \* the content side's descriptor
    dFileSize,  \* the size in the request
    src,        \* the file on the content host
    old         \* the output file as the job found it

evars == <<epc, ectl, eLeft, eStatus, eRes, eRd, out>>
cvars == <<cpc, cStart, cctl, cRes, cfile, cLeft, cBuf, cRd>>
net   == <<e2c, c2e, conn, eSock, cSock>>
job   == <<dFileSize, old>>
vars  == <<evars, cvars, net, job, src>>

EncodeSteps  == {"START", "EXIST", "READY", "OPEN", "RECV", "END", "DONE",
                 "CRASHED"}
ContentSteps == {"HEADER", "INFO", "CHECK", "REPLY", "READY", "OPEN", "READ",
                 "SEND", "END", "CLOSE", "FREE", "CRASHED"}

(* What each variable holds; no reader is ahead of its stream.             *)
TypeOK ==
    /\ epc \in EncodeSteps
    /\ ectl \in [fsize : Nat]
    /\ eLeft \in Int
    /\ eStatus \in {0, STATUS_OK, STATUS_ERR}
    /\ eRes \in {0, STATUS_OK, STATUS_ERR}
    /\ eRd \in Nat /\ eRd <= Len(c2e)
    /\ out \in FileOf(Unit)
    /\ cpc \in ContentSteps
    /\ cStart \in Nat
    /\ cctl \in [fsize : Nat]
    /\ cRes \in {0, STATUS_OK, STATUS_ERR}
    /\ cfile \in FileOf(DataUnit)
    /\ cLeft \in Int
    /\ cBuf \in Seq(DataUnit)
    /\ cRd \in Nat /\ cRd <= Len(e2c)
    /\ e2c \in Seq(Unit)
    /\ c2e \in Seq(Unit)
    /\ conn \in {"up", "reset"}
    /\ eSock \in {"open", "closed"}
    /\ cSock \in {"open", "closed"}
    /\ dFileSize \in Nat
    /\ src \in FileOf(DataUnit)
    /\ old \in FileOf(Unit)

Init ==
    /\ epc = "START" /\ ectl = [fsize |-> 0] /\ eLeft = 0
    /\ eStatus = 0 /\ eRes = 0 /\ eRd = 0
    /\ cpc = "HEADER" /\ cStart = 0 /\ cctl = [fsize |-> 0] /\ cRes = 0
    /\ cfile = NoFile /\ cLeft = 0 /\ cBuf = << >> /\ cRd = 0
    /\ e2c = << >> /\ c2e = << >>
    /\ conn = "up" /\ eSock = "open" /\ cSock = "open"
    /\ dFileSize \in Sizes
    /\ src \in SrcFiles
    /\ old \in OldFiles
    /\ out = old

-----------------------------------------------------------------------------
(***************************************************************************)
(* TCPStream over the kernel's TCP.  A read returns what there is, at most *)
(* what was asked for; 0 or -1 when nothing is left and the peer has       *)
(* closed or the connection was reset; and blocks otherwise.               *)
(***************************************************************************)
Suffix(s, n) == SubSeq(s, n + 1, Len(s))
Cut(s, n)    == SubSeq(s, 1, n)

eWaiting == Len(c2e) - eRd
cWaiting == Len(e2c) - cRd

eEnded == eWaiting = 0 /\ (conn = "reset" \/ cSock = "closed")
cEnded == cWaiting = 0 /\ (conn = "reset" \/ eSock = "closed")

(* Lengths that a read of want units may return when avail are waiting.    *)
ReadLens(want, avail, split) ==
    IF split THEN 1 .. Lesser(want, avail)
             ELSE {Lesser(want, avail)} \ {0}

(* nCmd and nStatus of a cleared buffer after a HEADER-sized read brought  *)
(* n units, u the first: they make sense only if a HEADER begins there,    *)
(* and nStatus is read only with the second unit.                          *)
IsHeader(u, cmd) == u.kind = cmd /\ u.part = 1
nStatus(u, n)    == IF n >= 2 THEN u.val ELSE 0

(* An RST discards what the sender's kernel had not delivered yet.         *)
Abort(stream, rd) == \E n \in rd .. Len(stream) : stream' = Cut(stream, n)

(* A write by the encode side.  Its messages are smaller than any socket   *)
(* buffer.  Data that reaches a closed socket is answered with an RST.     *)
eSend(units) ==
    \/ /\ conn = "up" /\ cSock = "open"
       /\ e2c' = e2c \o units
       /\ UNCHANGED <<c2e, conn>>
    \/ /\ conn = "up" /\ cSock = "closed"
       /\ conn' = "reset" /\ Abort(c2e, eRd)
       /\ UNCHANGED e2c
    \/ /\ conn = "reset"
       /\ UNCHANGED <<e2c, c2e, conn>>

(* A write by the content side, which blocks while the window is full.     *)
cRoom == SockBuf - eWaiting

cSend(units) ==
    \/ /\ conn = "up" /\ eSock = "open" /\ Len(units) <= cRoom
       /\ c2e' = c2e \o units
       /\ UNCHANGED conn
    \/ /\ conn = "up" /\ eSock = "closed"
       /\ conn' = "reset"
       /\ UNCHANGED c2e
    \/ /\ conn = "reset"
       /\ UNCHANGED <<c2e, conn>>

(* close() by either side: with unread input it sends an RST, else a FIN.  *)
cClose ==
    /\ cSock' = "closed"
    /\ IF conn = "up" /\ cWaiting > 0
       THEN conn' = "reset" /\ Abort(c2e, eRd)
       ELSE UNCHANGED <<conn, c2e>>
    /\ UNCHANGED <<e2c, eSock>>

eClose ==
    /\ eSock' = "closed"
    /\ IF conn = "up" /\ eWaiting > 0
       THEN conn' = "reset" /\ Abort(e2c, cRd)
       ELSE UNCHANGED <<conn, e2c>>
    /\ UNCHANGED <<c2e, cSock>>

-----------------------------------------------------------------------------
(***************************************************************************)
(* The encode worker: FileTransferFunction, in the order of its calls.     *)
(* The results of steps 2, 7, 10 and 12 are assigned and never looked at.  *)
(***************************************************************************)

(* new FileController, appendFileSizeSet(0), step 2.                       *)
processGetFile_START ==
    /\ epc = "START"
    /\ ectl' = appendFileSizeSet(FileController(out), 0)
    /\ eSend(makeData(makeHeader(FILE_TRANSFER_CMD_START, STATUS_OK), 0))
    /\ epc' = "EXIST"
    /\ UNCHANGED <<eLeft, eStatus, eRes, eRd, out, cvars, eSock, cSock, job,
                   src>>

(* Mutant: nStatus is not looked at.                                       *)
processGetFile_Get_Exist_Data_NoStatus ==
    /\ epc = "EXIST"
    /\ \/ \E n \in ReadLens(HEADER_SIZE, eWaiting, "split_header" \in Faults) :
             /\ eRd' = eRd + n
             /\ eStatus' = nStatus(c2e[eRd + 1], n)
             /\ epc' = IF IsHeader(c2e[eRd + 1], FILE_TRANSFER_CMD_EXIST_CHECK)
                       THEN "READY" ELSE "DONE"
       \/ /\ eEnded
          /\ epc' \in {"READY", "DONE"}
          /\ UNCHANGED <<eStatus, eRd>>
    /\ UNCHANGED <<ectl, eLeft, eRes, out, cvars, net, job, src>>

(* Step 6.  An answer of which nStatus was not read counts as "file        *)
(* exists".  When the read fails, return_value is returned uninitialised:  *)
(* it may hold 99 or -1, which end the job, or anything else.              *)
processGetFile_Get_Exist_Data ==
    /\ epc = "EXIST"
    /\ \/ \E n \in ReadLens(HEADER_SIZE, eWaiting, "split_header" \in Faults) :
             LET u == c2e[eRd + 1] IN
             /\ eRd' = eRd + n
             /\ IF IsHeader(u, FILE_TRANSFER_CMD_EXIST_CHECK)
                THEN /\ eStatus' = nStatus(u, n)
                     /\ epc' = IF eStatus' = STATUS_ERR THEN "DONE" ELSE "READY"
                ELSE epc' = "DONE" /\ UNCHANGED eStatus
       \/ /\ eEnded
          /\ epc' \in {"READY", "DONE"}
          /\ UNCHANGED <<eStatus, eRd>>
    /\ UNCHANGED <<ectl, eLeft, eRes, out, cvars, net, job, src>>

(* Mutant: READY is made and never sent.                                   *)
processGetFile_TRANSFER_READY_NotSent ==
    /\ epc = "READY"
    /\ epc' = "OPEN"
    /\ UNCHANGED <<ectl, eLeft, eStatus, eRes, eRd, out, cvars, net, job, src>>

(* Step 7.                                                                 *)
processGetFile_TRANSFER_READY ==
    /\ epc = "READY"
    /\ eSend(makeHeader(FILE_TRANSFER_CMD_TRANSFER_READY, STATUS_OK))
    /\ epc' = "OPEN"
    /\ UNCHANGED <<ectl, eLeft, eStatus, eRes, eRd, out, cvars, eSock, cSock,
                   job, src>>

(* Mutant: the output file is opened "ab".                                 *)
FILE_TRANSFER_Open_Append ==
    /\ epc = "OPEN"
    /\ out' = [out EXCEPT !.here = TRUE]
    /\ eLeft' = dFileSize - getFileSizeExist(ectl)
    /\ epc' = "RECV"
    /\ UNCHANGED <<ectl, eStatus, eRes, eRd, cvars, net, job, src>>

(* Step 10 up to its loop: both branches open "wb+", then seek to fsize.   *)
FILE_TRANSFER_Open ==
    /\ epc = "OPEN"
    /\ out' = fopenTruncate
    /\ eLeft' = dFileSize - getFileSizeExist(ectl)
    /\ epc' = "RECV"
    /\ UNCHANGED <<ectl, eStatus, eRes, eRd, cvars, net, job, src>>

(* A turn of the loop in which n units arrive, of which it stores and      *)
(* counts what the parameters say.                                         *)
ReceiveTurn(n, stored, counted) ==
    /\ out' = [out EXCEPT !.data =
                  fwrite(@, getFileSizeExist(ectl), stored, DiskRoom)]
    /\ eRd' = eRd + n
    /\ eLeft' = eLeft - counted
    /\ UNCHANGED <<epc, eRes>>

ReceiveFails ==
    /\ eEnded
    /\ eRes' = STATUS_ERR
    /\ epc' = "END"
    /\ UNCHANGED <<out, eRd, eLeft>>

Arrived(n) == SubSeq(c2e, eRd + 1, eRd + n)

(* Mutant: a short read writes the whole buffer, zeros included.           *)
FILE_TRANSFER_Receive_WholeBuffer ==
    /\ epc = "RECV" /\ eLeft > 0
    /\ LET asked == Lesser(FILE_BUF_SIZE, eLeft) IN
       \/ \E n \in 1 .. Lesser(asked, eWaiting) :
             ReceiveTurn(n, fread(Arrived(n), 0, asked), n)
       \/ ReceiveFails
    /\ UNCHANGED <<ectl, eStatus, cvars, net, job, src>>

(* Mutant: a short read counts for what was asked.                         *)
FILE_TRANSFER_Receive_CountsAsked ==
    /\ epc = "RECV" /\ eLeft > 0
    /\ LET asked == Lesser(FILE_BUF_SIZE, eLeft) IN
       \/ \E n \in 1 .. Lesser(asked, eWaiting) :
             ReceiveTurn(n, Arrived(n), asked)
       \/ ReceiveFails
    /\ UNCHANGED <<ectl, eStatus, cvars, net, job, src>>

(* Mutant: the loop goes on after a failed read.                           *)
FILE_TRANSFER_Receive_NoBreak ==
    /\ epc = "RECV" /\ eLeft > 0
    /\ \E n \in 1 .. Lesser(Lesser(FILE_BUF_SIZE, eLeft), eWaiting) :
          ReceiveTurn(n, Arrived(n), n)
    /\ UNCHANGED <<ectl, eStatus, cvars, net, job, src>>

(* One turn of the loop of step 10.  A short read is written and counted   *)
(* for what it brought; a failed read ends the loop; a short fwrite is not *)
(* noticed, because fwrite never returns a negative number.                *)
FILE_TRANSFER_Receive ==
    /\ epc = "RECV" /\ eLeft > 0
    /\ \/ \E n \in 1 .. Lesser(Lesser(FILE_BUF_SIZE, eLeft), eWaiting) :
             ReceiveTurn(n, Arrived(n), n)
       \/ ReceiveFails
    /\ UNCHANGED <<ectl, eStatus, cvars, net, job, src>>

FILE_TRANSFER_Close ==
    /\ epc = "RECV" /\ eLeft <= 0
    /\ eRes' = STATUS_OK
    /\ epc' = "END"
    /\ UNCHANGED <<ectl, eLeft, eStatus, eRd, out, cvars, net, job, src>>

(* Step 12, and the return to EncdConnectionHandler::run, which deletes    *)
(* the work item of its own client and leaves this connection open.        *)
processGetFile_TRANSFER_END ==
    /\ epc = "END"
    /\ \/ \E n \in ReadLens(HEADER_SIZE, eWaiting, "split_header" \in Faults) :
             eRd' = eRd + n
       \/ /\ eEnded
          /\ UNCHANGED eRd
    /\ epc' = "DONE"
    /\ UNCHANGED <<ectl, eLeft, eStatus, eRes, out, cvars, net, job, src>>

(* exit(0) in client_test.                                                 *)
exit ==
    /\ ClientExits /\ epc = "DONE" /\ eSock = "open"
    /\ eClose
    /\ UNCHANGED <<evars, cvars, job, src>>

Encode ==
    \/ processGetFile_START
    \/ processGetFile_Get_Exist_Data
    \/ processGetFile_TRANSFER_READY
    \/ FILE_TRANSFER_Open
    \/ FILE_TRANSFER_Receive
    \/ FILE_TRANSFER_Close
    \/ processGetFile_TRANSFER_END
    \/ exit

-----------------------------------------------------------------------------
(***************************************************************************)
(* The content worker: run, processCmd and processPutFile.                 *)
(***************************************************************************)

(* The first read of run and the switch of processCmd.  A HEADER of which  *)
(* a part was read has nDataCnt = nDataSize = 0: the read of 0 bytes that  *)
(* follows returns 0.  (A read that ends within part 3, behind nDataSize,  *)
(* would leave the rest of the HEADER to be taken for FILEINFO: this case  *)
(* is not modelled.)                                                       *)
run_ReceiveHeader ==
    /\ cpc = "HEADER"
    /\ \/ \E n \in ReadLens(HEADER_SIZE, cWaiting, "split_header" \in Faults) :
             /\ cRd' = cRd + n
             /\ cpc' = IF /\ IsHeader(e2c[cRd + 1], FILE_TRANSFER_CMD_START)
                          /\ n = HEADER_SIZE
                       THEN "INFO" ELSE "CLOSE"
       \/ /\ cEnded
          /\ cpc' = "CLOSE"
          /\ UNCHANGED cRd
    /\ UNCHANGED <<cStart, cctl, cRes, cfile, cLeft, cBuf, evars, net, job, src>>

(* The read of processPutFile; it looks at nothing behind the first unit.  *)
processPutFile_Receive ==
    /\ cpc = "INFO"
    /\ \/ \E n \in ReadLens(FILEINFO_SIZE, cWaiting, "split_info" \in Faults) :
             /\ cRd' = cRd + n
             /\ cStart' = e2c[cRd + 1].val
             /\ cpc' = "CHECK"
       \/ /\ cEnded
          /\ cpc' = "CLOSE"
          /\ UNCHANGED <<cRd, cStart>>
    /\ UNCHANGED <<cctl, cRes, cfile, cLeft, cBuf, evars, net, job, src>>

(* new FileController, step 4.                                             *)
processPutFile_FileExistCheck ==
    /\ cpc = "CHECK"
    /\ cctl' = FileController(src)
    /\ cpc' = "REPLY"
    /\ UNCHANGED <<cStart, cRes, cfile, cLeft, cBuf, cRd, evars, net, job, src>>

(* Step 5; its result is overwritten by the next call.                     *)
processPutFile_FileExistReturn ==
    /\ cpc = "REPLY"
    /\ cSend(makeHeader(FILE_TRANSFER_CMD_EXIST_CHECK,
                        IF fileExist(cctl) THEN STATUS_OK ELSE STATUS_ERR))
    /\ cpc' = "READY"
    /\ UNCHANGED <<cStart, cctl, cRes, cfile, cLeft, cBuf, cRd, evars, e2c,
                   eSock, cSock, job, src>>

(* Mutant: step 8 is left out.                                             *)
processPutFile_TransferReady_Skipped ==
    /\ cpc = "READY"
    /\ cRes' = STATUS_OK
    /\ cpc' = "OPEN"
    /\ UNCHANGED <<cStart, cctl, cfile, cLeft, cBuf, cRd, evars, net, job, src>>

(* Mutant: step 8 polls the connection and does not wait.                  *)
processPutFile_TransferReady_NoWait ==
    /\ cpc = "READY"
    /\ IF cWaiting > 0
       THEN cRd' = cRd + HEADER_SIZE /\ cRes' = STATUS_OK
       ELSE UNCHANGED cRd /\ cRes' = STATUS_ERR
    /\ cpc' = "OPEN"
    /\ UNCHANGED <<cStart, cctl, cfile, cLeft, cBuf, evars, net, job, src>>

(* Step 8, whose result is overwritten too.  Without the fault "timeout"   *)
(* the 60 s are long enough for an encode worker that will send READY.     *)
processPutFile_TransferReady ==
    /\ cpc = "READY"
    /\ \/ \E n \in ReadLens(HEADER_SIZE, cWaiting, "split_header" \in Faults) :
             LET u == e2c[cRd + 1] IN
             /\ cRd' = cRd + n
             /\ cRes' = IF IsHeader(u, FILE_TRANSFER_CMD_TRANSFER_READY)
                        THEN nStatus(u, n) ELSE STATUS_ERR
       \/ /\ \/ cEnded
             \/ cWaiting = 0 /\ ("timeout" \in Faults \/ epc = "DONE")
          /\ cRes' = STATUS_ERR
          /\ UNCHANGED cRd
    /\ cpc' = "OPEN"
    /\ UNCHANGED <<cStart, cctl, cfile, cLeft, cBuf, evars, net, job, src>>

(* Step 9 up to its loop.  fopen64 of a missing file returns NULL, and     *)
(* fseeko64 on it takes the process down; the kernel closes its sockets.   *)
File_Transfer_Open ==
    /\ cpc = "OPEN"
    /\ \/ /\ src.here
          /\ cfile' = src
          /\ cLeft' = dFileSize - cStart
          /\ cpc' = "READ"
          /\ UNCHANGED net
       \/ /\ ~src.here
          /\ cpc' = "CRASHED"
          /\ cClose
          /\ UNCHANGED <<cfile, cLeft>>
    /\ UNCHANGED <<cStart, cctl, cRes, cBuf, cRd, evars, job, src>>

(* Mutant: the last turn sends a full buffer too.                          *)
transferSize_Full == FILE_BUF_SIZE

(* The loop of step 9: a transferSize of units is read, whatever the file  *)
(* still holds, and handed to write.                                       *)
transferSize == Lesser(FILE_BUF_SIZE, cLeft)

File_Transfer_Read ==
    /\ cpc = "READ" /\ cLeft > 0
    /\ cBuf' = fread(cfile.data, dFileSize - cLeft, transferSize)
    /\ cpc' = "SEND"
    /\ UNCHANGED <<cStart, cctl, cRes, cfile, cLeft, cRd, evars, net, job, src>>

(* write blocks until the kernel has taken everything.  An error after a   *)
(* part was taken returns the length of that part, which the loop treats   *)
(* like a complete write; an error before that ends the loop.              *)
File_Transfer_Send ==
    /\ cpc = "SEND"
    /\ \/ /\ conn = "up" /\ eSock = "open"
          /\ LET k == Lesser(cRoom, Len(cBuf)) IN
             /\ k > 0
             /\ c2e' = c2e \o Cut(cBuf, k)
             /\ cBuf' = Suffix(cBuf, k)
             /\ IF k = Len(cBuf)
                THEN cLeft' = cLeft - transferSize /\ cpc' = "READ"
                ELSE UNCHANGED <<cLeft, cpc>>
          /\ UNCHANGED conn
       \/ /\ conn = "up" /\ eSock = "closed"
          /\ conn' = "reset"
          /\ cLeft' = cLeft - transferSize /\ cpc' = "READ"
          /\ cBuf' = << >>
          /\ UNCHANGED c2e
       \/ /\ conn = "reset"
          /\ IF Len(cBuf) < transferSize
             THEN cLeft' = cLeft - transferSize /\ cpc' = "READ"
             ELSE cpc' = "END" /\ UNCHANGED cLeft
          /\ cBuf' = << >>
          /\ UNCHANGED <<c2e, conn>>
    /\ UNCHANGED <<cStart, cctl, cRes, cfile, cRd, evars, e2c, eSock, cSock,
                   job, src>>

File_Transfer_Close ==
    /\ cpc = "READ" /\ cLeft <= 0
    /\ cpc' = "END"
    /\ UNCHANGED <<cStart, cctl, cRes, cfile, cLeft, cBuf, cRd, evars, net, job,
                   src>>

(* Step 11.                                                                *)
processPutFile_TransferEnd ==
    /\ cpc = "END"
    /\ cSend(makeHeader(FILE_TRANSFER_CMD_TRANSFER_END, STATUS_OK))
    /\ cpc' = "CLOSE"
    /\ UNCHANGED <<cStart, cctl, cRes, cfile, cLeft, cBuf, cRd, evars, e2c,
                   eSock, cSock, job, src>>

(* delete item in run: ~WorkItem deletes the stream, which closes m_sd.    *)
run_DeleteItem ==
    /\ cpc = "CLOSE"
    /\ cpc' = "FREE"
    /\ cClose
    /\ UNCHANGED <<cStart, cctl, cRes, cfile, cLeft, cBuf, cRd, evars, job, src>>

Content ==
    \/ run_ReceiveHeader
    \/ processPutFile_Receive
    \/ processPutFile_FileExistCheck
    \/ processPutFile_FileExistReturn
    \/ processPutFile_TransferReady
    \/ File_Transfer_Open
    \/ File_Transfer_Read
    \/ File_Transfer_Send
    \/ File_Transfer_Close
    \/ processPutFile_TransferEnd
    \/ run_DeleteItem

-----------------------------------------------------------------------------
(***************************************************************************)
(* The environment.                                                        *)
(***************************************************************************)
NetworkReset ==
    /\ "reset" \in Faults
    /\ conn = "up"
    /\ conn' = "reset"
    /\ Abort(e2c, cRd) /\ Abort(c2e, eRd)
    /\ UNCHANGED <<eSock, cSock, evars, cvars, job, src>>

(* The encode process dies: what stdio still buffers is lost.  Opening the *)
(* output in a missing directory has the same effect: fopen64 returns NULL *)
(* and fseeko64 faults.                                                    *)
EncodeCrash ==
    /\ \/ "crash" \in Faults /\ epc \notin {"DONE", "CRASHED"}
          /\ IF epc = "RECV"
             THEN \E n \in 0 .. Len(out.data) :
                    out' = [out EXCEPT !.data = Cut(@, n)]
             ELSE UNCHANGED out
       \/ "no_dir" \in Faults /\ epc = "OPEN" /\ UNCHANGED out
    /\ epc' = "CRASHED"
    /\ eClose
    /\ UNCHANGED <<ectl, eLeft, eStatus, eRes, eRd, cvars, job, src>>

SourceChange ==
    /\ "src_change" \in Faults
    /\ ~cfile.here
    /\ src' \in SrcFiles \ {src}
    /\ UNCHANGED <<evars, cvars, net, job>>

Next == Encode \/ Content \/ NetworkReset \/ EncodeCrash \/ SourceChange

(***************************************************************************)
(* A thread that can run does run, data in flight arrives, and the timer   *)
(* of step 8 expires.  Nothing is assumed of the faults.                   *)
(***************************************************************************)
Spec == Init /\ [][Next]_vars /\ WF_vars(Encode) /\ WF_vars(Content)
-----------------------------------------------------------------------------
(***************************************************************************)
(* Properties.                                                             *)
(***************************************************************************)

(* What step 9 sends if nothing stops it.                                  *)
Requested == fread(cfile.data, 0, dFileSize)

(* From the moment step 10 has opened it, the output file is a beginning   *)
(* of what the content daemon reads from the source: short reads, a full   *)
(* disk, an abort of either side at any point and a source replaced while  *)
(* the peers were talking leave no hole, no repetition and no foreign      *)
(* bytes, such as a HEADER taken for contents.  (The instances have room   *)
(* for every file; that a full disk cuts the output at its end, and does   *)
(* nothing else, is part of the theorem OutputIsAPrefix.)                  *)
OutputIsPrefix ==
    epc = "RECV" \/ eRes # 0 => IsPrefix(out.data, Requested)

(* Step 10 returns STATUS_OK only if everything requested has been stored. *)
ResultIsHonest == eRes = STATUS_OK => out.data = Requested

(* If step 4 found no file, or an empty one, and step 6 has got to read    *)
(* nStatus, then the old output file stays as it is, whatever fails or     *)
(* changes then or later, in either process or between them.               *)
RefusalRespected == ~fileExist(cctl) /\ eStatus # 0 => out = old

(* A job for which the answer is that there is no file ends ("return 99 == *)
(* 파일 없음", "파일 없음. 종료처리", EncodeDaemonFunction.cpp:44 and 49), and  *)
(* the output of an earlier job stays.                                     *)
RefusalEndsTheJob ==
    eRd > 0 /\ IsHeader(c2e[1], FILE_TRANSFER_CMD_EXIST_CHECK)
            /\ c2e[1].val = STATUS_ERR => out = old

(* While nothing fails and the source is there, contents are sent only to  *)
(* a peer that has said it is ready.  No more than the ordinary order: a   *)
(* failure of step 5 or 8 does not keep step 9 from sending.               *)
SendsOnlyWhenReady == cpc = "SEND" => cRes = STATUS_OK

(* While the source is there and nothing fails, no close() of the protocol *)
(* finds unread data and aborts the connection, which would throw away     *)
(* what the other side has not read yet.                                   *)
NeverAborted == fileExist(FileController(src)) => conn = "up"

(* A job that has stored everything has also read the end signal of step   *)
(* 11, whole, and nothing but contents before it.                          *)
EndSignalReceived ==
    epc = "DONE" /\ eRes = STATUS_OK =>
        eRd > 0 /\ c2e[eRd] = makeHeader(FILE_TRANSFER_CMD_TRANSFER_END,
                                         STATUS_OK)[HEADER_SIZE]

(* No request ends the process of the content daemon, whose main should    *)
(* never get to its end.                                                   *)
ContentDaemonSurvives == cpc # "CRASHED"

(* A file that is there is copied completely, and both workers come back   *)
(* from the job.                                                           *)
TransferCompletes ==
    fileExist(FileController(src)) ~>
        /\ epc = "DONE" /\ cpc = "FREE"
        /\ out = [here |-> TRUE, data |-> fread(src.data, 0, dFileSize)]

(* Whatever fails, the threads of both daemons come back from the job, or  *)
(* their process has ended: nobody waits for a message that never comes.   *)
WorkersReturn ==
    <>[](epc \in {"DONE", "CRASHED"} /\ cpc \in {"FREE", "CRASHED"})

(* The transfer implements the copy of a file.                             *)
copyPhase ==
    CASE eRes = STATUS_OK -> "ok"
      [] eRes = STATUS_ERR \/ (eRes = 0 /\ epc \in {"DONE", "CRASHED"})
           -> "failed"
      [] eRes = 0 /\ epc = "RECV" -> "copying"
      [] OTHER -> "asking"

Copy == INSTANCE FileCopy
            WITH phase <- copyPhase, from <- cfile, to <- out,
                 wanted <- dFileSize

(* Every behaviour of the two workers and the connection is one of the     *)
(* abstract copy: the destination is emptied once, then extended in order, *)
(* and the job ends "ok" only with the whole file.                         *)
ImplementsFileCopy == Copy!CopySpec
=============================================================================
