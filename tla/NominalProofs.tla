---------------------------- MODULE NominalProofs ---------------------------
(***************************************************************************)
(* A transfer that nothing disturbs: what is on the wire at every point of *)
(* it, and that neither side ever leaves anything unread.                  *)
(***************************************************************************)
EXTENDS FileTransferProofs

USE DEF HEADER_SIZE, FILEINFO_SIZE

-----------------------------------------------------------------------------
(***************************************************************************)
(* The inductive invariant.  Each side is known by what it has read and    *)
(* written; what is in flight is the difference.                           *)
(***************************************************************************)
Exists == fileExist(FileController(src))

IsUnit(u, cmd, part) == u = [kind |-> cmd, val |-> STATUS_OK, part |-> part]

(* START with FILEINFO, EXIST_CHECK, READY, the contents, TRANSFER_END.    *)
EncodeCourse ==
    /\ epc # "CRASHED"
    /\ eSock = "closed" => epc = "DONE"
    /\ epc = "START" => e2c = << >>
    /\ epc \in {"EXIST", "READY"} => Len(e2c) = 5
    /\ epc \in {"OPEN", "RECV", "END", "DONE"} => Len(e2c) = 8
    /\ epc \in {"START", "EXIST"} => eRd = 0
    /\ epc \in {"READY", "OPEN"} => eRd = 3
    /\ epc = "RECV" =>
           eRd = 3 + Stored /\ 0 <= eLeft /\ eLeft <= dFileSize
    /\ epc = "END" => eRd = 3 + dFileSize
    /\ epc = "DONE" => eRd = 6 + dFileSize
    /\ Len(e2c) >= 5 => IsHeader(e2c[1], FILE_TRANSFER_CMD_START)
    /\ Len(e2c) = 8 => IsUnit(e2c[6], FILE_TRANSFER_CMD_TRANSFER_READY, 1)

ContentCourse ==
    /\ cpc # "CRASHED"
    /\ cSock = "closed" => cpc = "FREE"
    /\ cpc = "HEADER" => cRd = 0
    /\ cpc = "INFO" => cRd = 3
    /\ cpc \in {"CHECK", "REPLY", "READY"} => cRd = 5
    /\ cpc \in {"OPEN", "READ", "SEND", "END", "CLOSE", "FREE"} =>
           cRd = 8 /\ cRes = STATUS_OK
    /\ cpc = "REPLY" => fileExist(cctl)
    /\ cpc \in {"HEADER", "INFO", "CHECK", "REPLY"} => c2e = << >>
    /\ cpc \in {"READY", "OPEN"} => Len(c2e) = 3
    /\ cpc \in {"READ", "SEND", "END"} =>
           3 <= Len(c2e) /\ Len(c2e) <= 3 + dFileSize
    /\ cpc = "END" => Len(c2e) = 3 + dFileSize
    /\ cpc \in {"CLOSE", "FREE"} =>
           /\ Len(c2e) = 6 + dFileSize
           /\ IsUnit(c2e[6 + dFileSize], FILE_TRANSFER_CMD_TRANSFER_END, 3)
    /\ Len(c2e) > 0 => IsUnit(c2e[1], FILE_TRANSFER_CMD_EXIST_CHECK, 1)

Course  == conn = "up" /\ EncodeCourse /\ ContentCourse
Nominal == Exists => Course

LEMMA StreamBounds ==
    ASSUME IInv, Course
    PROVE  \/ Len(c2e) <= 3 + dFileSize
           \/ cpc \in {"CLOSE", "FREE"} /\ Len(c2e) = 6 + dFileSize
<1>1. dFileSize \in Nat /\ cpc \in ContentSteps /\ ContentCourse
  BY DEF IInv, TypeOK, Course
<1>2. CASE cpc \in {"HEADER", "INFO", "CHECK", "REPLY"}
  <2>1. c2e = << >>
    BY <1>1, <1>2 DEF ContentCourse
  <2> QED
    BY <1>1, <2>1, EmptySeq
<1>3. CASE cpc \in {"READY", "OPEN"}
  <2>1. Len(c2e) = 3
    BY <1>1, <1>3 DEF ContentCourse
  <2> QED
    BY <1>1, <2>1
<1>4. CASE cpc \in {"READ", "SEND", "END"}
  BY <1>1, <1>4 DEF ContentCourse
<1>5. CASE cpc \in {"CLOSE", "FREE"}
  BY <1>1, <1>5 DEF ContentCourse
<1>6. cpc # "CRASHED"
  BY <1>1 DEF ContentCourse
<1> QED
  BY <1>1, <1>2, <1>3, <1>4, <1>5, <1>6 DEF ContentSteps

(* Until the content worker has sent the end signal, the encode worker is  *)
(* there to read it; and neither of them finds the other gone.             *)
LEMMA NobodyGone ==
    ASSUME IInv, Course
    PROVE  /\ cpc \notin {"CLOSE", "FREE"} => epc # "DONE" /\ eSock = "open"
           /\ epc \in {"START", "READY"} => cSock = "open"
           /\ cpc \in {"HEADER", "INFO", "READY"} => ~cEnded
           /\ epc \in {"EXIST", "END"} => ~eEnded
           /\ epc = "RECV" /\ eLeft > 0 => ~eEnded
<1>1. /\ Len(c2e) \in Nat /\ Len(e2c) \in Nat /\ dFileSize \in Nat
      /\ eRd \in Nat /\ eRd <= Len(c2e) /\ cRd \in Nat /\ cRd <= Len(e2c)
      /\ eLeft \in Int /\ conn = "up" /\ cpc \in ContentSteps
      /\ eSock \in {"open", "closed"} /\ cSock \in {"open", "closed"}
  BY LenProperties DEF IInv, TypeOK, Course
<1>2. cpc \notin {"CLOSE", "FREE"} => Len(c2e) <= 3 + dFileSize
  BY StreamBounds
<1>3. cpc \notin {"CLOSE", "FREE"} => epc # "DONE" /\ eSock = "open"
  BY <1>1, <1>2 DEF Course, EncodeCourse
<1>4. epc \in {"START", "READY"} => cSock = "open"
  <2>1. epc \in {"START", "READY"} => Len(e2c) <= 5
    <3> DEFINE len == Len(e2c)
    <3>1. epc = "START" => len = 0
      BY EmptySeq DEF Course, EncodeCourse
    <3>2. epc = "READY" => len = 5
      BY DEF Course, EncodeCourse
    <3> HIDE DEF len
    <3>3. epc \in {"START", "READY"} => len <= 5
      BY <3>1, <3>2
    <3> QED
      BY <3>3 DEF len
  <2>2. cSock = "closed" => cRd = 8
    BY DEF Course, ContentCourse
  <2> QED
    BY <1>1, <2>1, <2>2
<1>5. cpc \in {"HEADER", "INFO", "READY"} => ~cEnded
  BY <1>1, <1>3 DEF cEnded
<1>6. eEnded => Len(c2e) = 6 + dFileSize /\ eRd = Len(c2e)
  BY <1>1 DEF Course, ContentCourse, eEnded, eWaiting
<1>7. epc \in {"EXIST", "END"} => ~eEnded
  BY <1>1, <1>6 DEF Course, EncodeCourse
<1>8. epc = "RECV" /\ eLeft > 0 => ~eEnded
  BY <1>1, <1>6 DEF Course, EncodeCourse, Stored
<1> QED
  BY <1>3, <1>4, <1>5, <1>7, <1>8

-----------------------------------------------------------------------------
(***************************************************************************)
(* The encode side.                                                        *)
(***************************************************************************)
LEMMA ESendArrives ==
    ASSUME IInv, Course, cSock = "open", NEW units \in Seq(Unit), eSend(units)
    PROVE  /\ c2e' = c2e /\ conn' = "up"
           /\ Len(e2c') = Len(e2c) + Len(units)
           /\ \A i \in 1 .. Len(e2c') :
                 e2c'[i] = IF i <= Len(e2c) THEN e2c[i]
                                            ELSE units[i - Len(e2c)]
<1>1. e2c \in Seq(Unit) /\ conn = "up"
  BY DEF IInv, TypeOK, Course
<1>2. e2c' = e2c \o units /\ UNCHANGED <<c2e, conn>>
  BY <1>1 DEF eSend
<1> QED
  BY <1>1, <1>2, ConcatProperties

LEMMA RequestBegins ==
    LET request == makeData(makeHeader(FILE_TRANSFER_CMD_START, STATUS_OK), 0)
    IN  /\ request \in Seq(Unit) /\ Len(request) = 5
        /\ IsHeader(request[1], FILE_TRANSFER_CMD_START)
<1> DEFINE header == makeHeader(FILE_TRANSFER_CMD_START, STATUS_OK)
           info(h) == [kind |-> "FILEINFO", val |-> 0, part |-> h]
           body == <<info(1), info(2)>>
<1>1. header \in Seq(Unit) /\ Len(header) = 3
  BY HeaderType DEF Commands
<1>2. IsHeader(header[1], FILE_TRANSFER_CMD_START)
  BY DEF IsHeader, makeHeader
<1>3. body \in Seq(Unit) /\ Len(body) = 2
  BY UnitTypes DEF InfoUnit
<1> HIDE DEF header, body
<1>4. (header \o body)[1] = header[1]
  BY <1>1, <1>3, ConcatProperties
<1> QED
  BY <1>2, <1>4, RequestType DEF makeData, header, body, info

LEMMA CourseSTART ==
    ASSUME IInv, Course, processGetFile_START
    PROVE  Course'
<1> DEFINE request == makeData(makeHeader(FILE_TRANSFER_CMD_START, STATUS_OK), 0)
<1>1. /\ epc = "START" /\ epc' = "EXIST" /\ eSend(request)
      /\ UNCHANGED <<eRd, cvars, eSock, cSock, job>>
  BY DEF processGetFile_START
<1>2. /\ request \in Seq(Unit) /\ Len(request) = 5
      /\ IsHeader(request[1], FILE_TRANSFER_CMD_START)
  BY RequestBegins
<1> HIDE DEF request
<1>3. cSock = "open" /\ e2c = << >> /\ Len(e2c) = 0
  BY <1>1, NobodyGone, EmptySeq DEF Course, EncodeCourse
<1>4. /\ c2e' = c2e /\ conn' = "up"
      /\ Len(e2c') = Len(e2c) + Len(request)
      /\ \A i \in 1 .. Len(e2c') :
            e2c'[i] = IF i <= Len(e2c) THEN e2c[i]
                                       ELSE request[i - Len(e2c)]
  BY <1>1, <1>2, <1>3, ESendArrives
<1>5. Len(e2c') = 5 /\ e2c'[1] = request[1]
  BY <1>2, <1>3, <1>4
<1>6. EncodeCourse'
  BY <1>1, <1>2, <1>3, <1>5 DEF Course, EncodeCourse
<1>7. ContentCourse'
  BY <1>1, <1>4 DEF Course, ContentCourse, cvars, job
<1> QED
  BY <1>4, <1>6, <1>7 DEF Course

LEMMA CourseREADY ==
    ASSUME IInv, Course, processGetFile_TRANSFER_READY
    PROVE  Course'
<1> DEFINE ready == makeHeader(FILE_TRANSFER_CMD_TRANSFER_READY, STATUS_OK)
<1>1. /\ epc = "READY" /\ epc' = "OPEN" /\ eSend(ready)
      /\ UNCHANGED <<eRd, cvars, eSock, cSock, job>>
  BY DEF processGetFile_TRANSFER_READY
<1>2. /\ ready \in Seq(Unit) /\ Len(ready) = 3
      /\ IsUnit(ready[1], FILE_TRANSFER_CMD_TRANSFER_READY, 1)
  <2>1. ready \in Seq(Unit) /\ Len(ready) = 3
    BY HeaderType DEF Commands
  <2> QED
    BY <2>1 DEF IsUnit, makeHeader
<1> HIDE DEF ready
<1>3. cSock = "open" /\ Len(e2c) = 5
  BY <1>1, NobodyGone DEF Course, EncodeCourse
<1>4. /\ c2e' = c2e /\ conn' = "up"
      /\ Len(e2c') = Len(e2c) + Len(ready)
      /\ \A i \in 1 .. Len(e2c') :
            e2c'[i] = IF i <= Len(e2c) THEN e2c[i] ELSE ready[i - Len(e2c)]
  BY <1>1, <1>2, <1>3, ESendArrives
<1>5. Len(e2c') = 8 /\ e2c'[1] = e2c[1] /\ e2c'[6] = ready[1]
  BY <1>2, <1>3, <1>4
<1>6. EncodeCourse'
  BY <1>1, <1>2, <1>3, <1>5 DEF Course, EncodeCourse
<1>7. ContentCourse'
  BY <1>1, <1>4 DEF Course, ContentCourse, cvars, job
<1> QED
  BY <1>4, <1>6, <1>7 DEF Course

(* The steps of the encode worker that only read.                          *)
LEMMA CourseReads ==
    ASSUME IInv, Course, UNCHANGED <<cvars, net, job>>, EncodeCourse'
    PROVE  Course'
BY DEF Course, ContentCourse, cvars, net, job

LEMMA CourseExist ==
    ASSUME IInv, Course, Faults = {}, processGetFile_Get_Exist_Data
    PROVE  Course'
<1>1. /\ epc = "EXIST" /\ eRd = 0 /\ Len(e2c) = 5
      /\ Len(c2e) \in Nat /\ conn = "up"
      /\ UNCHANGED <<cvars, net, job>>
  BY LenProperties
     DEF processGetFile_Get_Exist_Data, Course, EncodeCourse, IInv, TypeOK
<1>2. ~eEnded
  BY <1>1, NobodyGone
<1>3. PICK n \in {Lesser(HEADER_SIZE, eWaiting)} \ {0} :
         /\ eRd' = eRd + n
         /\ IsHeader(c2e[eRd + 1], FILE_TRANSFER_CMD_EXIST_CHECK) =>
                epc' = IF nStatus(c2e[eRd + 1], n) = STATUS_ERR
                       THEN "DONE" ELSE "READY"
  BY <1>2 DEF processGetFile_Get_Exist_Data, ReadLens
<1>4. Len(c2e) \notin {1, 2}
  BY <1>1 DEF IInv, StreamLength
<1>5. n = HEADER_SIZE /\ eRd' = 3 /\ Len(c2e) > 0
  <2> DEFINE len == Len(c2e)
  <2>1. len \in Nat /\ len \notin {1, 2} /\ eWaiting = len
    BY <1>1, <1>4 DEF eWaiting
  <2> HIDE DEF len
  <2>2. n = Lesser(HEADER_SIZE, len) /\ n # 0 /\ eRd' = n
    BY <1>1, <1>3, <2>1 DEF Lesser
  <2>3. len >= 3 /\ n = HEADER_SIZE
    BY <2>1, <2>2 DEF Lesser
  <2> QED
    BY <2>2, <2>3 DEF len
<1>6. IsUnit(c2e[1], FILE_TRANSFER_CMD_EXIST_CHECK, 1)
  BY <1>5 DEF Course, ContentCourse
<1>7. epc' = "READY"
  BY <1>1, <1>3, <1>5, <1>6
     DEF IsUnit, IsHeader, nStatus, STATUS_OK, STATUS_ERR
<1>8. EncodeCourse'
  BY <1>1, <1>5, <1>7 DEF Course, EncodeCourse, net
<1> QED
  BY <1>1, <1>8, CourseReads

LEMMA CourseOpen ==
    ASSUME IInv, Course, FILE_TRANSFER_Open
    PROVE  Course'
<1>1. /\ epc = "OPEN" /\ epc' = "RECV" /\ eLeft' = dFileSize
      /\ dFileSize \in Nat /\ UNCHANGED <<eRd, cvars, net, job>>
  BY DEF FILE_TRANSFER_Open, getFileSizeExist, IInv, Asking, TypeOK
<1>2. Stored' = 0
  BY <1>1 DEF Stored, job
<1>3. EncodeCourse'
  BY <1>1, <1>2 DEF Course, EncodeCourse, net, job
<1> QED
  BY <1>1, <1>3, CourseReads

LEMMA CourseReceive ==
    ASSUME IInv, Course, FILE_TRANSFER_Receive
    PROVE  Course'
<1>1. epc = "RECV" /\ eLeft > 0 /\ UNCHANGED <<ectl, cvars, net, job, src>>
  BY DEF FILE_TRANSFER_Receive
<1>2. ~eEnded
  BY <1>1, NobodyGone
<1>3. PICK n \in 1 .. Lesser(Lesser(FILE_BUF_SIZE, eLeft), eWaiting) :
         ReceiveTurn(n, Arrived(n), n)
  BY <1>2 DEF FILE_TRANSFER_Receive, ReceiveFails
<1>4. /\ n \in Nat /\ n > 0 /\ n <= eLeft /\ epc' = "RECV"
      /\ eRd' = eRd + n /\ eLeft' = eLeft - n
  <2>1. /\ FILE_BUF_SIZE \in Nat /\ eLeft \in Nat /\ eWaiting \in Nat
    <3>1. eLeft \in Int /\ Len(c2e) \in Nat /\ eRd \in Nat /\ eRd <= Len(c2e)
      BY LenProperties DEF IInv, TypeOK
    <3> QED
      BY <1>1, <3>1, TransferAssumption DEF eWaiting
  <2> QED
    BY <1>1, <1>3, <2>1 DEF Lesser, ReceiveTurn
<1>5. /\ eRd = 3 + Stored /\ eLeft <= dFileSize /\ eRd \in Nat
      /\ dFileSize \in Nat /\ eLeft \in Int
  BY <1>1 DEF Course, EncodeCourse, IInv, TypeOK
<1>6. eRd' = 3 + Stored' /\ 0 <= eLeft' /\ eLeft' <= dFileSize'
  BY <1>1, <1>4, <1>5 DEF Stored, job
<1>7. EncodeCourse'
  BY <1>1, <1>4, <1>6 DEF Course, EncodeCourse, net
<1> QED
  BY <1>1, <1>7, CourseReads

LEMMA CourseClose ==
    ASSUME IInv, Course, FILE_TRANSFER_Close
    PROVE  Course'
<1>1. /\ epc = "RECV" /\ eLeft <= 0 /\ epc' = "END"
      /\ UNCHANGED <<eRd, cvars, net, job>>
  BY DEF FILE_TRANSFER_Close
<1>2. eRd = 3 + dFileSize
  BY <1>1 DEF Course, EncodeCourse, Stored, IInv, TypeOK
<1>3. EncodeCourse'
  BY <1>1, <1>2 DEF Course, EncodeCourse, net, job
<1> QED
  BY <1>1, <1>3, CourseReads

LEMMA CourseEND ==
    ASSUME IInv, Course, Faults = {}, processGetFile_TRANSFER_END
    PROVE  Course'
<1>1. /\ epc = "END" /\ epc' = "DONE" /\ eRd = 3 + dFileSize /\ dFileSize \in Nat
      /\ Len(e2c) = 8 /\ Len(c2e) \in Nat /\ eRd <= Len(c2e)
      /\ UNCHANGED <<cvars, net, job>>
  BY LenProperties
     DEF processGetFile_TRANSFER_END, Course, EncodeCourse, IInv, TypeOK
<1>2. ~eEnded
  BY <1>1, NobodyGone
<1>3. PICK n \in {Lesser(HEADER_SIZE, eWaiting)} \ {0} : eRd' = eRd + n
  BY <1>2 DEF processGetFile_TRANSFER_END, ReadLens
<1>4. Len(c2e) <= 3 + dFileSize \/ Len(c2e) = 6 + dFileSize
  BY StreamBounds
<1>5. eRd' = 6 + dFileSize
  BY <1>1, <1>3, <1>4 DEF Lesser, eWaiting
<1>6. EncodeCourse'
  BY <1>1, <1>5 DEF Course, EncodeCourse, net, job
<1> QED
  BY <1>1, <1>6, CourseReads

(* The process of client_test exits when everything has been read.         *)
LEMMA CourseExit ==
    ASSUME IInv, Course, exit
    PROVE  Course'
<1>1. epc = "DONE" /\ eClose /\ UNCHANGED <<evars, cvars, job>>
  BY DEF exit
<1>2. eWaiting = 0 /\ conn = "up"
  <2>1. /\ Len(c2e) \in Nat /\ eRd <= Len(c2e) /\ eRd = 6 + dFileSize
        /\ dFileSize \in Nat /\ cpc \in ContentSteps /\ conn = "up"
    BY <1>1, LenProperties DEF Course, EncodeCourse, IInv, TypeOK
  <2>2. Len(c2e) <= 6 + dFileSize
    BY <2>1, StreamBounds
  <2> QED
    BY <2>1, <2>2 DEF eWaiting
<1>3. eSock' = "closed" /\ UNCHANGED <<conn, e2c, c2e, cSock>>
  BY <1>1, <1>2 DEF eClose
<1>4. EncodeCourse'
  BY <1>1, <1>3 DEF Course, EncodeCourse, Stored, evars, job
<1>5. ContentCourse'
  BY <1>1, <1>3 DEF Course, ContentCourse, cvars, job
<1> QED
  BY <1>2, <1>3, <1>4, <1>5 DEF Course

-----------------------------------------------------------------------------
(***************************************************************************)
(* The content side.                                                       *)
(***************************************************************************)
LEMMA RequestBounds ==
    ASSUME IInv, Course
    PROVE  e2c = << >> \/ Len(e2c) = 5 \/ Len(e2c) = 8
BY DEF Course, EncodeCourse, IInv, TypeOK, EncodeSteps

(* The steps of the content worker.                                        *)
LEMMA CourseServes ==
    ASSUME IInv, Course, UNCHANGED <<evars, job, e2c, eSock>>, conn' = "up",
           ContentCourse'
    PROVE  Course'
<1>1. EncodeCourse'
  BY DEF Course, EncodeCourse, Stored, evars, job
<1> QED
  BY <1>1 DEF Course

LEMMA CSendArrives ==
    ASSUME IInv, Course, cpc \notin {"CLOSE", "FREE"},
           NEW units \in Seq(Unit), cSend(units)
    PROVE  /\ conn' = "up"
           /\ Len(c2e') = Len(c2e) + Len(units)
           /\ \A i \in 1 .. Len(c2e') :
                 c2e'[i] = IF i <= Len(c2e) THEN c2e[i]
                                            ELSE units[i - Len(c2e)]
<1>1. c2e \in Seq(Unit) /\ conn = "up" /\ eSock = "open"
  BY NobodyGone DEF IInv, TypeOK, Course
<1>2. c2e' = c2e \o units /\ conn' = conn
  BY <1>1 DEF cSend
<1> QED
  BY <1>1, <1>2, ConcatProperties

LEMMA CourseReceiveHeader ==
    ASSUME IInv, Course, Faults = {}, run_ReceiveHeader
    PROVE  Course'
<1>1. /\ cpc = "HEADER" /\ cRd = 0 /\ c2e = << >>
      /\ conn = "up" /\ ~cEnded
      /\ UNCHANGED <<cRes, cctl, evars, net, job>>
  BY NobodyGone DEF run_ReceiveHeader, Course, ContentCourse
<1>2. PICK n \in {Lesser(HEADER_SIZE, cWaiting)} \ {0} :
         /\ cRd' = cRd + n
         /\ cpc' = IF /\ IsHeader(e2c[cRd + 1], FILE_TRANSFER_CMD_START)
                      /\ n = HEADER_SIZE
                   THEN "INFO" ELSE "CLOSE"
  BY <1>1 DEF run_ReceiveHeader, ReadLens
<1>3. n = HEADER_SIZE /\ cRd' = 3 /\ Len(e2c) >= 5
  <2> DEFINE len == Len(e2c)
  <2>1. len \in {0, 5, 8} /\ cWaiting = len
    BY <1>1, RequestBounds, EmptySeq DEF cWaiting
  <2> HIDE DEF len
  <2>2. n = Lesser(HEADER_SIZE, len) /\ n # 0
    BY <1>2, <2>1
  <2>3. n = HEADER_SIZE /\ len >= 5
    BY <2>1, <2>2 DEF Lesser
  <2> QED
    BY <1>1, <1>2, <2>3 DEF len
<1>4. IsHeader(e2c[1], FILE_TRANSFER_CMD_START)
  BY <1>3 DEF Course, EncodeCourse
<1>5. cpc' = "INFO"
  BY <1>1, <1>2, <1>3, <1>4
<1>6. ContentCourse'
  BY <1>1, <1>3, <1>5 DEF Course, ContentCourse, net
<1> QED
  BY <1>1, <1>6, CourseServes DEF net

LEMMA CourseReceiveInfo ==
    ASSUME IInv, Course, Faults = {}, processPutFile_Receive
    PROVE  Course'
<1>1. /\ cpc = "INFO" /\ cRd = 3 /\ c2e = << >> /\ cRd <= Len(e2c)
      /\ conn = "up" /\ ~cEnded
      /\ UNCHANGED <<cRes, cctl, evars, net, job>>
  BY NobodyGone DEF processPutFile_Receive, Course, ContentCourse, IInv, TypeOK
<1>2. PICK n \in {Lesser(FILEINFO_SIZE, cWaiting)} \ {0} : cRd' = cRd + n /\ cpc' = "CHECK"
  BY <1>1 DEF processPutFile_Receive, ReadLens
<1>3. cRd' = 5
  <2> DEFINE len == Len(e2c)
  <2>1. len \in {0, 5, 8} /\ cWaiting = len - 3 /\ 3 <= len
    BY <1>1, RequestBounds, EmptySeq DEF cWaiting
  <2> HIDE DEF len
  <2>2. n = Lesser(FILEINFO_SIZE, len - 3)
    BY <1>2, <2>1
  <2>3. n = 2
    BY <2>1, <2>2 DEF Lesser
  <2> QED
    BY <1>1, <1>2, <2>3
<1>4. ContentCourse'
  BY <1>1, <1>2, <1>3 DEF Course, ContentCourse, net
<1> QED
  BY <1>1, <1>4, CourseServes DEF net

LEMMA CourseCheck ==
    ASSUME IInv, Course, Exists, processPutFile_FileExistCheck
    PROVE  Course'
<1>1. /\ cpc = "CHECK" /\ cpc' = "REPLY" /\ cctl' = FileController(src)
      /\ conn = "up"
      /\ UNCHANGED <<cRes, cRd, evars, net, job>>
  BY DEF processPutFile_FileExistCheck, Course
<1>2. fileExist(cctl')
  BY <1>1 DEF Exists, fileExist
<1>3. ContentCourse'
  BY <1>1, <1>2 DEF Course, ContentCourse, net, fileExist
<1> QED
  BY <1>1, <1>3, CourseServes DEF net

LEMMA CourseReply ==
    ASSUME IInv, Course, processPutFile_FileExistReturn
    PROVE  Course'
<1> DEFINE answer == makeHeader(FILE_TRANSFER_CMD_EXIST_CHECK, STATUS_OK)
<1>1. /\ cpc = "REPLY" /\ cpc' = "READY" /\ cSend(answer)
      /\ UNCHANGED <<cctl, cRes, cRd, evars, e2c, eSock, cSock, job>>
  BY DEF processPutFile_FileExistReturn, Course, ContentCourse
<1>2. /\ answer \in Seq(Unit) /\ Len(answer) = 3
      /\ IsUnit(answer[1], FILE_TRANSFER_CMD_EXIST_CHECK, 1)
  <2>1. answer \in Seq(Unit) /\ Len(answer) = 3
    BY HeaderType DEF Commands
  <2> QED
    BY <2>1 DEF IsUnit, makeHeader
<1> HIDE DEF answer
<1>3. c2e = << >> /\ Len(c2e) = 0 /\ cRd = 5 /\ cSock # "closed"
  BY <1>1, EmptySeq DEF Course, ContentCourse
<1>4. /\ conn' = "up"
      /\ Len(c2e') = Len(c2e) + Len(answer)
      /\ \A i \in 1 .. Len(c2e') :
            c2e'[i] = IF i <= Len(c2e) THEN c2e[i] ELSE answer[i - Len(c2e)]
  BY <1>1, <1>2, CSendArrives
<1>5. Len(c2e') = 3 /\ c2e'[1] = answer[1]
  BY <1>2, <1>3, <1>4
<1>6. ContentCourse'
  BY <1>1, <1>2, <1>3, <1>5 DEF ContentCourse
<1> QED
  BY <1>1, <1>4, <1>6, CourseServes

LEMMA CourseReadyWait ==
    ASSUME IInv, Course, Faults = {}, processPutFile_TransferReady
    PROVE  Course'
<1>1. /\ cpc = "READY" /\ cpc' = "OPEN" /\ cRd = 5 /\ cRd <= Len(e2c)
      /\ conn = "up" /\ ~cEnded /\ epc # "DONE"
      /\ UNCHANGED <<cctl, evars, net, job>>
  BY NobodyGone
     DEF processPutFile_TransferReady, Course, ContentCourse, IInv, TypeOK
<1>2. PICK n \in {Lesser(HEADER_SIZE, cWaiting)} \ {0} :
         /\ cRd' = cRd + n
         /\ cRes' = IF IsHeader(e2c[cRd + 1], FILE_TRANSFER_CMD_TRANSFER_READY)
                    THEN nStatus(e2c[cRd + 1], n) ELSE STATUS_ERR
  BY <1>1 DEF processPutFile_TransferReady, ReadLens
<1>3. cRd' = 8 /\ Len(e2c) = 8 /\ n = HEADER_SIZE
  <2> DEFINE len == Len(e2c)
  <2>1. len \in {0, 5, 8} /\ cWaiting = len - 5 /\ 5 <= len
    BY <1>1, RequestBounds, EmptySeq DEF cWaiting
  <2> HIDE DEF len
  <2>2. n = Lesser(HEADER_SIZE, len - 5) /\ n # 0
    BY <1>2, <2>1
  <2>3. n = HEADER_SIZE /\ len = 8
    BY <2>1, <2>2 DEF Lesser
  <2> QED
    BY <1>1, <1>2, <2>3 DEF len
<1>4. IsUnit(e2c[6], FILE_TRANSFER_CMD_TRANSFER_READY, 1)
  BY <1>3 DEF Course, EncodeCourse
<1>5. cRes' = STATUS_OK
  BY <1>1, <1>2, <1>3, <1>4 DEF IsUnit, IsHeader, nStatus
<1>6. ContentCourse'
  BY <1>1, <1>3, <1>5 DEF Course, ContentCourse, net
<1> QED
  BY <1>1, <1>6, CourseServes DEF net

LEMMA CourseCOpen ==
    ASSUME IInv, Course, Exists, File_Transfer_Open
    PROVE  Course'
<1>1. src.here
  BY DEF Exists, fileExist, FileController
<1>2. /\ cpc = "OPEN" /\ cpc' = "READ" /\ conn = "up" /\ dFileSize \in Nat
      /\ UNCHANGED <<cctl, cRes, cRd, evars, net, job>>
  BY <1>1 DEF File_Transfer_Open, Course, IInv, TypeOK
<1>3. /\ Len(c2e) = 3 /\ 3 <= 3 + dFileSize
      /\ cRd = 8 /\ cRes = STATUS_OK /\ cSock # "closed"
      /\ IsUnit(c2e[1], FILE_TRANSFER_CMD_EXIST_CHECK, 1)
  BY <1>2 DEF Course, ContentCourse
<1>4. ContentCourse'
  BY <1>2, <1>3 DEF ContentCourse, net, job
<1> QED
  BY <1>2, <1>4, CourseServes DEF net

LEMMA CourseCRead ==
    ASSUME IInv, Course, File_Transfer_Read
    PROVE  Course'
<1>1. /\ cpc = "READ" /\ cpc' = "SEND" /\ conn = "up"
      /\ UNCHANGED <<cctl, cRes, cRd, evars, net, job>>
  BY DEF File_Transfer_Read, Course
<1>2. ContentCourse'
  BY <1>1 DEF Course, ContentCourse, net, job
<1> QED
  BY <1>1, <1>2, CourseServes DEF net

LEMMA CourseCSend ==
    ASSUME IInv, IInv', Course, File_Transfer_Send
    PROVE  Course'
<1>1. /\ cpc = "SEND" /\ conn = "up" /\ eSock = "open"
      /\ UNCHANGED <<cctl, cRes, cRd, evars, e2c, eSock, cSock, job>>
  BY NobodyGone DEF File_Transfer_Send, Course
<1>2. /\ conn' = "up" /\ cpc' \in {"READ", "SEND"}
      /\ c2e' = c2e \o Cut(cBuf, Lesser(cRoom, Len(cBuf)))
      /\ Lesser(cRoom, Len(cBuf)) > 0
  BY <1>1 DEF File_Transfer_Send
<1>3. Len(c2e) >= 3 /\ Len(c2e) \in Nat /\ dFileSize \in Nat /\ c2e \in Seq(Unit)
  BY <1>1, LenProperties DEF Course, ContentCourse, IInv, TypeOK
<1>4. Cut(cBuf, Lesser(cRoom, Len(cBuf))) \in Seq(Unit)
  <2>1. cBuf \in Seq(Unit) /\ Len(cBuf) \in Nat
    BY UnitTypes, SeqMonotonic, LenProperties DEF IInv, TypeOK
  <2>2. cRoom \in Int
    BY <1>3, TransferAssumption DEF cRoom, eWaiting, IInv, TypeOK
  <2>3. Lesser(cRoom, Len(cBuf)) \in 0 .. Len(cBuf)
    BY <1>2, <2>1, <2>2 DEF Lesser
  <2> QED
    BY <2>1, <2>3, CutType
<1>5. Len(c2e') >= 3 /\ c2e'[1] = c2e[1] /\ Len(c2e') \in Nat
  <2> DEFINE more == Cut(cBuf, Lesser(cRoom, Len(cBuf)))
  <2> HIDE DEF more
  <2>1. more \in Seq(Unit) /\ c2e' = c2e \o more /\ Len(more) \in Nat
    BY <1>2, <1>4, LenProperties DEF more
  <2>2. Len(c2e') = Len(c2e) + Len(more)
    BY <1>3, <2>1, ConcatProperties
  <2>3. 1 \in 1 .. Len(c2e) + Len(more) /\ 1 <= Len(c2e)
    BY <1>3, <2>1
  <2>4. c2e'[1] = c2e[1]
    BY <1>3, <2>1, <2>3, ConcatProperties
  <2> QED
    BY <1>3, <2>1, <2>2, <2>4
<1>6. Len(c2e') <= 3 + dFileSize
  <2>1. eSock' = "open" /\ conn' = "up" /\ dFileSize' = dFileSize
    BY <1>1, <1>2 DEF job
  <2>2. CASE cpc' = "READ"
    <3>1. Len(c2e') = 3 + dFileSize - cLeft' /\ 0 <= cLeft' /\ cLeft' \in Int
      BY <2>1, <2>2 DEF IInv, TypeOK, StreamLength, Serving
    <3> DEFINE len == Len(c2e')
               left == cLeft'
    <3>2. len = 3 + dFileSize - left /\ 0 <= left /\ left \in Int
      BY <3>1
    <3> HIDE DEF len, left
    <3>3. len <= 3 + dFileSize
      BY <1>3, <3>2
    <3> QED
      BY <3>3 DEF len
  <2>3. CASE cpc' = "SEND"
    <3>1. /\ Len(c2e') = 3 + Buffered' /\ 0 < cLeft' /\ cLeft' \in Int
          /\ Len(cBuf') \in Nat
      BY <2>1, <2>3, LenProperties DEF IInv, TypeOK, StreamLength, Serving
    <3>2. Buffered' = dFileSize - cLeft' + transferSize' - Len(cBuf')
      BY <2>1 DEF Buffered
    <3>3. transferSize' \in Int /\ transferSize' <= cLeft'
      BY <3>1, TransferAssumption DEF transferSize, Lesser
    <3> QED
      BY <1>3, <3>1, <3>2, <3>3
  <2> QED
    BY <1>2, <2>2, <2>3
<1>7. ContentCourse'
  BY <1>1, <1>2, <1>3, <1>5, <1>6 DEF Course, ContentCourse, job
<1> QED
  BY <1>1, <1>2, <1>7, CourseServes

LEMMA CourseCClosed ==
    ASSUME IInv, Course, File_Transfer_Close
    PROVE  Course'
<1>1. /\ cpc = "READ" /\ cpc' = "END" /\ cLeft <= 0 /\ conn = "up"
      /\ UNCHANGED <<cctl, cRes, cRd, evars, net, job>>
  BY DEF File_Transfer_Close, Course
<1>2. eSock = "open"
  BY <1>1, NobodyGone
<1>3. Len(c2e) = 3 + dFileSize /\ dFileSize \in Nat
  BY <1>1, <1>2 DEF IInv, TypeOK, StreamLength, Serving
<1>4. ContentCourse'
  BY <1>1, <1>3 DEF Course, ContentCourse, net, job
<1> QED
  BY <1>1, <1>4, CourseServes DEF net

LEMMA CourseTransferEnd ==
    ASSUME IInv, Course, processPutFile_TransferEnd
    PROVE  Course'
<1> DEFINE end == makeHeader(FILE_TRANSFER_CMD_TRANSFER_END, STATUS_OK)
<1>1. /\ cpc = "END" /\ cpc' = "CLOSE" /\ cSend(end)
      /\ UNCHANGED <<cctl, cRes, cRd, evars, e2c, eSock, cSock, job>>
  BY DEF processPutFile_TransferEnd
<1>2. /\ end \in Seq(Unit) /\ Len(end) = 3
      /\ IsUnit(end[3], FILE_TRANSFER_CMD_TRANSFER_END, 3)
  <2>1. end \in Seq(Unit) /\ Len(end) = 3
    BY HeaderType DEF Commands
  <2> QED
    BY <2>1 DEF IsUnit, makeHeader
<1> HIDE DEF end
<1>3. Len(c2e) = 3 + dFileSize /\ dFileSize \in Nat /\ cSock # "closed"
  BY <1>1 DEF Course, ContentCourse, IInv, TypeOK
<1>4. /\ conn' = "up"
      /\ Len(c2e') = Len(c2e) + Len(end)
      /\ \A i \in 1 .. Len(c2e') :
            c2e'[i] = IF i <= Len(c2e) THEN c2e[i] ELSE end[i - Len(c2e)]
  BY <1>1, <1>2, CSendArrives
<1>5. /\ Len(c2e') = 6 + dFileSize /\ c2e'[1] = c2e[1]
      /\ c2e'[6 + dFileSize] = end[3]
  BY <1>2, <1>3, <1>4
<1>6. IsUnit(c2e[1], FILE_TRANSFER_CMD_EXIST_CHECK, 1)
  BY <1>3 DEF Course, ContentCourse
<1>7. cRd = 8 /\ cRes = STATUS_OK
  BY <1>1 DEF Course, ContentCourse
<1>8. ContentCourse'
  BY <1>1, <1>2, <1>3, <1>5, <1>6, <1>7 DEF ContentCourse, job
<1> QED
  BY <1>1, <1>4, <1>8, CourseServes

LEMMA CourseDelete ==
    ASSUME IInv, Course, run_DeleteItem
    PROVE  Course'
<1>1. /\ cpc = "CLOSE" /\ cpc' = "FREE" /\ cClose /\ conn = "up"
      /\ UNCHANGED <<cctl, cRes, cRd, evars, job>>
  BY DEF run_DeleteItem, Course
<1>2. cWaiting = 0
  <2> DEFINE len == Len(e2c)
  <2>1. len \in {0, 5, 8} /\ 8 <= len /\ cWaiting = len - 8
    BY <1>1, RequestBounds, EmptySeq
       DEF cWaiting, Course, ContentCourse, IInv, TypeOK
  <2> HIDE DEF len
  <2> QED
    BY <2>1
<1>3. cSock' = "closed" /\ UNCHANGED <<conn, c2e, e2c, eSock>>
  BY <1>1, <1>2 DEF cClose
<1>4. ContentCourse'
  BY <1>1, <1>3 DEF Course, ContentCourse, job
<1> QED
  BY <1>1, <1>3, <1>4, CourseServes

-----------------------------------------------------------------------------
(***************************************************************************)
(* When the source is there.                                               *)
(***************************************************************************)
LEMMA NothingFails ==
    ASSUME Faults = {}, [Next]_vars
    PROVE  src' = src /\ (Encode \/ Content \/ UNCHANGED vars)
<1>1. Encode => src' = src
  BY DEF Encode, processGetFile_START, processGetFile_Get_Exist_Data,
         processGetFile_TRANSFER_READY, FILE_TRANSFER_Open,
         FILE_TRANSFER_Receive, FILE_TRANSFER_Close,
         processGetFile_TRANSFER_END, exit
<1>2. Content => src' = src
  BY DEF Content, run_ReceiveHeader, processPutFile_Receive,
         processPutFile_FileExistCheck, processPutFile_FileExistReturn,
         processPutFile_TransferReady, File_Transfer_Open, File_Transfer_Read,
         File_Transfer_Send, File_Transfer_Close, processPutFile_TransferEnd,
         run_DeleteItem
<1>3. ~(NetworkReset \/ EncodeCrash \/ SourceChange)
  BY DEF NetworkReset, EncodeCrash, SourceChange
<1> QED
  BY <1>1, <1>2, <1>3 DEF Next, vars

LEMMA InitNominal == Init => Nominal
BY EmptySeq DEF Init, Nominal, Course, EncodeCourse, ContentCourse

LEMMA NextNominal ==
    ASSUME Faults = {}, IInv, IInv', Nominal, [Next]_vars
    PROVE  Nominal'
<1>1. src' = src /\ (Encode \/ Content \/ UNCHANGED vars)
  BY NothingFails
<1>2. Exists' = Exists
  BY <1>1 DEF Exists, fileExist, FileController
<1> SUFFICES ASSUME Exists PROVE Course'
  BY <1>2 DEF Nominal
<1>3. Course
  BY DEF Nominal
<1>4. CASE Encode
  BY <1>3, <1>4, CourseSTART, CourseExist, CourseREADY, CourseOpen,
     CourseReceive, CourseClose, CourseEND, CourseExit DEF Encode
<1>5. CASE Content
  BY <1>3, <1>5, CourseReceiveHeader, CourseReceiveInfo, CourseCheck,
     CourseReply, CourseReadyWait, CourseCOpen, CourseCRead, CourseCSend,
     CourseCClosed, CourseTransferEnd, CourseDelete DEF Content
<1>6. CASE UNCHANGED vars
  <2>1. UNCHANGED <<evars, cvars, net, job>>
    BY <1>6 DEF vars
  <2>2. EncodeCourse'
    BY <1>3, <2>1 DEF Course, EncodeCourse, Stored, evars, net, job
  <2> QED
    BY <1>3, <2>1, <2>2, CourseReads
<1> QED
  BY <1>1, <1>4, <1>5, <1>6

LEMMA NominalHolds ==
    ASSUME Faults = {}
    PROVE  Spec => [](IInv /\ Nominal)
<1>1. Init => Nominal
  BY InitNominal
<1>2. IInv /\ IInv' /\ Nominal /\ [Next]_vars => Nominal'
  BY NextNominal
<1> QED
  BY <1>1, <1>2, InvariantHolds, PTL DEF Spec

-----------------------------------------------------------------------------
(***************************************************************************)
(* When it is missing or empty, the encode worker ends without a result:   *)
(* up to its answer the content worker has nothing to wait for.            *)
(***************************************************************************)
Refusing ==
    /\ conn = "up" /\ eSock = "open" /\ cSock = "open" /\ eRd = 0
    /\ epc = "START" => e2c = << >>
    /\ epc = "EXIST" =>
           Len(e2c) = 5 /\ IsHeader(e2c[1], FILE_TRANSFER_CMD_START)
    /\ cpc \in {"HEADER", "INFO", "CHECK", "REPLY", "READY"}
    /\ cpc = "HEADER" => cRd = 0
    /\ cpc = "INFO" => cRd = 3
    /\ cpc \in {"CHECK", "REPLY", "READY"} => cRd = 5
    /\ cpc = "REPLY" => ~fileExist(cctl)
    /\ cpc # "READY" => c2e = << >>
    /\ cpc = "READY" =>
           /\ IsHeader(c2e[1], FILE_TRANSFER_CMD_EXIST_CHECK)
           /\ c2e[1].val = STATUS_ERR

Refused ==
    ~Exists => /\ epc \in {"START", "EXIST", "DONE"} /\ eRes = 0
               /\ epc # "DONE" => Refusing

LEMMA InitRefused == Init => Refused
BY DEF Init, Refused, Refusing

LEMMA RefusingSTART ==
    ASSUME IInv, Refusing, processGetFile_START
    PROVE  eRes' = eRes /\ epc' = "EXIST" /\ Refusing'
<1> DEFINE request == makeData(makeHeader(FILE_TRANSFER_CMD_START, STATUS_OK), 0)
<1>1. /\ epc = "START" /\ epc' = "EXIST" /\ eSend(request)
      /\ UNCHANGED <<eRes, eRd, cvars, eSock, cSock>>
  BY DEF processGetFile_START
<1>2. /\ request \in Seq(Unit) /\ Len(request) = 5
      /\ IsHeader(request[1], FILE_TRANSFER_CMD_START)
  BY RequestBegins
<1> HIDE DEF request
<1>3. UNCHANGED <<c2e, conn>> /\ e2c' = e2c \o request /\ e2c = << >>
  BY <1>1 DEF eSend, Refusing
<1>4. e2c' = request
  BY <1>2, <1>3, ConcatEmptySeq
<1> QED
  BY <1>1, <1>2, <1>3, <1>4 DEF Refusing, cvars

LEMMA RefusingExist ==
    ASSUME IInv, Refusing, Faults = {}, processGetFile_Get_Exist_Data
    PROVE  epc' = "DONE" /\ eRes' = eRes
<1>1. /\ epc = "EXIST" /\ eRd = 0 /\ eRes' = eRes /\ ~eEnded
  BY DEF processGetFile_Get_Exist_Data, Refusing, eEnded
<1>2. PICK n \in {Lesser(HEADER_SIZE, eWaiting)} \ {0} :
         IsHeader(c2e[eRd + 1], FILE_TRANSFER_CMD_EXIST_CHECK) =>
            epc' = IF nStatus(c2e[eRd + 1], n) = STATUS_ERR
                   THEN "DONE" ELSE "READY"
  BY <1>1 DEF processGetFile_Get_Exist_Data, ReadLens
<1>3. cpc = "READY"
  <2> SUFFICES ASSUME c2e = << >> PROVE FALSE
    BY DEF Refusing
  <2>1. eWaiting = 0
    BY <1>1, EmptySeq DEF eWaiting
  <2> QED
    BY <1>2, <2>1 DEF Lesser
<1>4. n = HEADER_SIZE
  <2> DEFINE len == Len(c2e)
  <2>1. len \in Nat /\ len \notin {1, 2} /\ eWaiting = len
    BY <1>1, LenProperties
       DEF Refusing, IInv, TypeOK, StreamLength, eWaiting
  <2> HIDE DEF len
  <2> QED
    BY <1>2, <2>1 DEF Lesser
<1> QED
  BY <1>1, <1>2, <1>3, <1>4 DEF Refusing, nStatus

LEMMA RefusingContent ==
    ASSUME IInv, Refusing, ~Exists, epc \in {"START", "EXIST"}, Faults = {},
           Content
    PROVE  Refusing'
<1>1. /\ conn = "up" /\ eSock = "open" /\ cSock = "open" /\ eRd = 0
      /\ epc = "START" => cpc = "HEADER"
      /\ ~cEnded /\ cRd <= Len(e2c)
  BY DEF Refusing, IInv, TypeOK, Asking, cEnded
<1>2. UNCHANGED <<evars, e2c>>
  BY ContentStep
     DEF Content, Refusing, run_ReceiveHeader, processPutFile_Receive,
         processPutFile_FileExistCheck, processPutFile_FileExistReturn,
         processPutFile_TransferReady, File_Transfer_Open, File_Transfer_Read,
         File_Transfer_Send, File_Transfer_Close, processPutFile_TransferEnd,
         run_DeleteItem, net
<1>3. CASE run_ReceiveHeader
  <2>1. PICK n \in {Lesser(HEADER_SIZE, cWaiting)} \ {0} :
           /\ cRd' = cRd + n
           /\ cpc' = IF /\ IsHeader(e2c[cRd + 1], FILE_TRANSFER_CMD_START)
                        /\ n = HEADER_SIZE
                     THEN "INFO" ELSE "CLOSE"
    BY <1>1, <1>3 DEF run_ReceiveHeader, ReadLens
  <2>2. cpc = "HEADER" /\ cRd = 0 /\ UNCHANGED <<cctl, net>>
    BY <1>3 DEF run_ReceiveHeader, Refusing
  <2>3. epc = "EXIST"
    <3> SUFFICES ASSUME e2c = << >> PROVE FALSE
      BY DEF Refusing
    <3>1. cWaiting = 0
      BY <2>2, EmptySeq DEF cWaiting
    <3> QED
      BY <2>1, <3>1 DEF Lesser
  <2>4. Len(e2c) = 5 /\ IsHeader(e2c[1], FILE_TRANSFER_CMD_START)
    BY <2>3 DEF Refusing
  <2>5. n = HEADER_SIZE
    BY <2>1, <2>2, <2>4 DEF Lesser, cWaiting
  <2>6. cRd' = 3 /\ cpc' = "INFO"
    BY <2>1, <2>2, <2>4, <2>5
  <2> QED
    BY <1>2, <2>2, <2>6 DEF Refusing, evars, net
<1>4. CASE processPutFile_Receive
  <2>1. PICK n \in {Lesser(FILEINFO_SIZE, cWaiting)} \ {0} :
           cRd' = cRd + n /\ cpc' = "CHECK"
    BY <1>1, <1>4 DEF processPutFile_Receive, ReadLens
  <2>2. cpc = "INFO" /\ cRd = 3 /\ UNCHANGED <<cctl, net>>
    BY <1>4 DEF processPutFile_Receive, Refusing
  <2>3. Len(e2c) = 5
    BY <1>1, <2>2 DEF Refusing
  <2>4. cRd' = 5
    BY <2>1, <2>2, <2>3 DEF Lesser, cWaiting
  <2> QED
    BY <1>2, <2>1, <2>2, <2>4 DEF Refusing, evars, net
<1>5. CASE processPutFile_FileExistCheck
  <2>1. /\ cpc = "CHECK" /\ cpc' = "REPLY" /\ cctl' = FileController(src)
        /\ UNCHANGED <<cRd, net>>
    BY <1>5 DEF processPutFile_FileExistCheck
  <2>2. ~fileExist(cctl')
    BY <2>1 DEF Exists, fileExist
  <2> QED
    BY <1>2, <2>1, <2>2 DEF Refusing, evars, net, fileExist
<1>6. CASE processPutFile_FileExistReturn
  <2> DEFINE answer == makeHeader(FILE_TRANSFER_CMD_EXIST_CHECK, STATUS_ERR)
  <2>1. /\ cpc = "REPLY" /\ cpc' = "READY" /\ cSend(answer) /\ c2e = << >>
        /\ UNCHANGED <<cRd, eSock, cSock>>
    BY <1>6 DEF processPutFile_FileExistReturn, Refusing
  <2>2. answer \in Seq(Unit) /\ Len(answer) = 3
    BY HeaderType DEF Commands
  <2>3. /\ IsHeader(answer[1], FILE_TRANSFER_CMD_EXIST_CHECK)
        /\ answer[1].val = STATUS_ERR
    BY DEF IsHeader, makeHeader
  <2> HIDE DEF answer
  <2>4. c2e' = c2e \o answer /\ conn' = conn
    BY <1>1, <2>1 DEF cSend
  <2>5. c2e' = answer
    BY <2>1, <2>2, <2>4, ConcatEmptySeq
  <2> QED
    BY <1>2, <2>1, <2>3, <2>4, <2>5 DEF Refusing, evars
<1>7. ~processPutFile_TransferReady
  <2> SUFFICES ASSUME processPutFile_TransferReady PROVE FALSE
    OBVIOUS
  <2>1. cpc = "READY" /\ cRd = 5 /\ Len(e2c) = 5
    BY <1>1 DEF processPutFile_TransferReady, Refusing
  <2>2. cWaiting = 0
    BY <2>1 DEF cWaiting
  <2>3. Lesser(HEADER_SIZE, cWaiting) = 0
    BY <2>2 DEF Lesser
  <2> QED
    BY <1>1, <2>3 DEF processPutFile_TransferReady, ReadLens
<1>8. ~(\/ File_Transfer_Open \/ File_Transfer_Read \/ File_Transfer_Send
        \/ File_Transfer_Close \/ processPutFile_TransferEnd \/ run_DeleteItem)
  BY DEF Refusing, File_Transfer_Open, File_Transfer_Read, File_Transfer_Send,
         File_Transfer_Close, processPutFile_TransferEnd, run_DeleteItem
<1> QED
  BY <1>3, <1>4, <1>5, <1>6, <1>7, <1>8 DEF Content

LEMMA NextRefused ==
    ASSUME Faults = {}, IInv, Refused, [Next]_vars
    PROVE  Refused'
<1>1. src' = src /\ (Encode \/ Content \/ UNCHANGED vars)
  BY NothingFails
<1>2. Exists' = Exists
  BY <1>1 DEF Exists, fileExist, FileController
<1> SUFFICES ASSUME ~Exists
             PROVE  /\ epc' \in {"START", "EXIST", "DONE"} /\ eRes' = 0
                    /\ epc' # "DONE" => Refusing'
  BY <1>2 DEF Refused
<1>3. /\ epc \in {"START", "EXIST", "DONE"} /\ eRes = 0
      /\ epc # "DONE" => Refusing
  BY DEF Refused
<1>4. CASE Encode
  <2>1. \/ processGetFile_START \/ processGetFile_Get_Exist_Data \/ exit
    BY <1>3, <1>4
       DEF Encode, processGetFile_TRANSFER_READY, FILE_TRANSFER_Open,
           FILE_TRANSFER_Receive, FILE_TRANSFER_Close,
           processGetFile_TRANSFER_END
  <2>2. CASE processGetFile_START
    BY <1>3, <2>2, RefusingSTART DEF processGetFile_START
  <2>3. CASE processGetFile_Get_Exist_Data
    BY <1>3, <2>3, RefusingExist DEF processGetFile_Get_Exist_Data
  <2>4. CASE exit
    BY <1>3, <2>4 DEF exit, evars
  <2> QED
    BY <2>1, <2>2, <2>3, <2>4
<1>5. CASE Content
  <2>1. UNCHANGED <<epc, eRes>>
    BY <1>5, ContentStep DEF evars
  <2> QED
    BY <1>3, <1>5, <2>1, RefusingContent
<1>6. CASE UNCHANGED vars
  BY <1>3, <1>6 DEF vars, evars, cvars, net, Refusing
<1> QED
  BY <1>1, <1>4, <1>5, <1>6

LEMMA RefusedHolds ==
    ASSUME Faults = {}
    PROVE  Spec => []Refused
<1>1. Init => Refused
  BY InitRefused
<1>2. IInv /\ Refused /\ [Next]_vars => Refused'
  BY NextRefused
<1> QED
  BY <1>1, <1>2, InvariantHolds, PTL DEF Spec

-----------------------------------------------------------------------------
(***************************************************************************)
(* The properties of an undisturbed transfer.                              *)
(***************************************************************************)

(* While nothing fails and the source is there, no close() of either side, *)
(* the exit of client_test included, finds unread data: the connection is  *)
(* never aborted.                                                          *)
THEOREM NothingIsAborted ==
    ASSUME Faults = {}
    PROVE  Spec => []NeverAborted
<1>1. Nominal => NeverAborted
  BY DEF Nominal, Exists, Course, NeverAborted
<1> QED
  BY <1>1, NominalHolds, PTL

(* While nothing fails, a job that ended with STATUS_OK has read the whole *)
(* end signal of step 11, in its place: the last unit read is its last     *)
(* part, whatever the source was.                                          *)
THEOREM EndSignalIsRead ==
    ASSUME Faults = {}
    PROVE  Spec => []EndSignalReceived
<1>1. IInv /\ Nominal /\ Refused => EndSignalReceived
  <2> SUFFICES ASSUME IInv, Nominal, Refused, epc = "DONE", eRes = STATUS_OK
               PROVE  /\ eRd > 0
                      /\ c2e[eRd] = makeHeader(FILE_TRANSFER_CMD_TRANSFER_END,
                                               STATUS_OK)[HEADER_SIZE]
    BY DEF EndSignalReceived
  <2>1. Course
    BY DEF Refused, Nominal, STATUS_OK
  <2>2. eRd = 6 + dFileSize /\ eRd <= Len(c2e) /\ dFileSize \in Nat
    BY <2>1 DEF Course, EncodeCourse, IInv, TypeOK
  <2>3. cpc \in {"CLOSE", "FREE"}
    BY <2>1, NobodyGone
  <2>4. IsUnit(c2e[eRd], FILE_TRANSFER_CMD_TRANSFER_END, 3)
    BY <2>1, <2>2, <2>3 DEF Course, ContentCourse
  <2> QED
    BY <2>2, <2>4 DEF IsUnit, makeHeader
<1> QED
  BY <1>1, NominalHolds, RefusedHolds, PTL

(* While nothing fails and every source is there and not empty, contents   *)
(* are sent only after READY has been received in step 8.                  *)
THEOREM SendsToTheReady ==
    ASSUME Faults = {}, \A f \in SrcFiles : fileExist(FileController(f))
    PROVE  Spec => []SendsOnlyWhenReady
<1>1. Init => Exists
  BY DEF Init, Exists
<1>2. Exists /\ [Next]_vars => Exists'
  BY NothingFails DEF Exists, fileExist, FileController
<1>3. Nominal /\ Exists => SendsOnlyWhenReady
  BY DEF Nominal, Course, ContentCourse, SendsOnlyWhenReady
<1> QED
  BY <1>1, <1>2, <1>3, NominalHolds, PTL DEF Spec
=============================================================================
