------------------------- MODULE FileTransferProofs -------------------------
(***************************************************************************)
(* Safety of a transfer, for files, buffers and disks of any size, any     *)
(* contents, and any combination of faults unless a theorem says which.    *)
(***************************************************************************)
EXTENDS FileTransfer, SequenceTheorems, TLAPS

USE DEF HEADER_SIZE, FILEINFO_SIZE

-----------------------------------------------------------------------------
(***************************************************************************)
(* The operators on sequences and files.                                   *)
(***************************************************************************)
LEMMA UnitTypes ==
    /\ DataUnit \subseteq Unit /\ HeaderUnit \subseteq Unit
    /\ InfoUnit \subseteq Unit /\ ZeroUnit \in DataUnit
BY ZeroAssumption DEF Unit, ZeroUnit, Data, DataUnit

LEMMA CutType ==
    ASSUME NEW S, NEW s \in Seq(S), NEW n \in 0 .. Len(s)
    PROVE  /\ Cut(s, n) \in Seq(S) /\ Len(Cut(s, n)) = n
           /\ \A i \in 1 .. n : Cut(s, n)[i] = s[i]
BY DEF Cut

LEMMA SuffixType ==
    ASSUME NEW S, NEW s \in Seq(S), NEW n \in 0 .. Len(s)
    PROVE  /\ Suffix(s, n) \in Seq(S) /\ Len(Suffix(s, n)) = Len(s) - n
           /\ \A i \in 1 .. Len(s) - n : Suffix(s, n)[i] = s[n + i]
BY DEF Suffix

(* A sequence is a prefix of one that is longer and agrees with it.        *)
LEMMA PrefixWhen ==
    ASSUME NEW S, NEW s \in Seq(S), NEW t \in Seq(S), Len(s) <= Len(t),
           \A i \in 1 .. Len(s) : s[i] = t[i]
    PROVE  IsPrefix(s, t)
<1> DEFINE n    == Len(s)
           here == Cut(s, n)
           part == Cut(t, n)
<1>1. n \in Nat /\ Len(t) \in Nat /\ n \in 0 .. Len(s) /\ n \in 0 .. Len(t)
  BY LenProperties
<1>2. /\ here \in Seq(S) /\ Len(here) = n
      /\ \A i \in 1 .. n : here[i] = s[i]
  BY <1>1, CutType
<1>3. /\ part \in Seq(S) /\ Len(part) = n
      /\ \A i \in 1 .. n : part[i] = t[i]
  BY <1>1, CutType
<1>4. here = part
  <2> HIDE DEF here, part
  <2> QED
    BY <1>1, <1>2, <1>3, SeqEqual
<1> QED
  BY <1>1, <1>4 DEF IsPrefix, Cut

(* An Abort keeps what has been read, and cuts the rest somewhere.         *)
LEMMA AbortType ==
    ASSUME NEW S, NEW s \in Seq(S), NEW t, NEW rd \in 0 .. Len(s),
           \E n \in rd .. Len(s) : t = Cut(s, n)
    PROVE  /\ t \in Seq(S) /\ rd <= Len(t) /\ Len(t) <= Len(s)
           /\ \A i \in 1 .. Len(t) : t[i] = s[i]
BY CutType

LEMMA FreadType ==
    ASSUME NEW data \in Seq(DataUnit), NEW pos \in Nat, NEW n \in Nat
    PROVE  /\ fread(data, pos, n) \in Seq(DataUnit)
           /\ Len(fread(data, pos, n)) = n
           /\ \A i \in 1 .. n :
                 fread(data, pos, n)[i] =
                     IF pos + i <= Len(data) THEN data[pos + i] ELSE ZeroUnit
<1>1. \A i \in 1 .. n : fread(data, pos, n)[i] \in DataUnit
  BY UnitTypes, ElementOfSeq DEF fread
<1>2. fread(data, pos, n) \in [1 .. n -> DataUnit]
  BY <1>1 DEF fread
<1> QED
  BY <1>2, SeqDef DEF fread

(* fwrite at an offset inside the file appends what fits.                  *)
LEMMA FwriteType ==
    ASSUME NEW data \in Seq(Unit), NEW units \in Seq(Unit), NEW room \in Nat
    PROVE  LET res == fwrite(data, 0, units, room)
           IN  /\ res \in Seq(Unit)
               /\ Len(res) = Lesser(room, Len(data) + Len(units))
               /\ \A i \in 1 .. Len(res) :
                     res[i] = IF i <= Len(data) THEN data[i]
                                                ELSE units[i - Len(data)]
<1> DEFINE hole  == [i \in 1 .. 0 - Len(data) |-> ZeroUnit]
           whole == data \o units
           res   == fwrite(data, 0, units, room)
<1>1. data \o hole = data
  <2>1. hole = << >>
    OBVIOUS
  <2> QED
    BY <2>1, ConcatEmptySeq
<1>2. res = Cut(whole, Lesser(room, Len(whole)))
  BY <1>1 DEF fwrite, Cut
<1>3. /\ whole \in Seq(Unit) /\ Len(whole) = Len(data) + Len(units)
      /\ \A i \in 1 .. Len(data) + Len(units) :
            whole[i] = IF i <= Len(data) THEN data[i] ELSE units[i - Len(data)]
  BY ConcatProperties
<1>4. Len(data) \in Nat /\ Len(units) \in Nat
  BY LenProperties
<1> HIDE DEF res, whole
<1>5. Lesser(room, Len(whole)) \in 0 .. Len(whole)
  BY <1>3, <1>4 DEF Lesser
<1>6. /\ res \in Seq(Unit) /\ Len(res) = Lesser(room, Len(whole))
      /\ \A i \in 1 .. Lesser(room, Len(whole)) : res[i] = whole[i]
  BY <1>2, <1>3, <1>5, CutType
<1>7. \A i \in 1 .. Len(res) : i \in 1 .. Len(data) + Len(units)
  BY <1>3, <1>4, <1>5, <1>6
<1> QED
  BY <1>3, <1>6, <1>7 DEF res

-----------------------------------------------------------------------------
(***************************************************************************)
(* The inductive invariant.  The type invariant alone is not inductive:    *)
(* fread stays inside the file only if sizeLeft never exceeds dFileSize,   *)
(* which rests on the START message having asked for offset 0.             *)
(***************************************************************************)
(* The encode worker holds its descriptor until it is done, and e2c is     *)
(* START, FILEINFO and at most one READY.                                  *)
Asking ==
    /\ epc \notin {"DONE", "CRASHED"} => eSock = "open"
    /\ ectl.fsize = 0
    /\ epc = "START" => e2c = << >> /\ (conn = "up" => cpc = "HEADER")
    /\ epc \in {"EXIST", "READY"} /\ conn = "up" => Len(e2c) = 5
    /\ Len(e2c) >= 4 => e2c[4].val = 0

(* The content worker: what it has read, the file it holds open, and how   *)
(* much of it is left.                                                     *)
Serving ==
    /\ cSock = "closed" => cpc \in {"FREE", "CRASHED"}
    /\ cpc = "HEADER" => cRd = 0
    /\ cpc = "INFO" => cRd = 3
    /\ cStart = 0
    /\ cpc \in {"HEADER", "INFO", "CHECK", "REPLY", "READY", "OPEN"} =>
           ~cfile.here
    /\ cpc \in {"READ", "SEND", "END"} => cfile.here
    /\ cpc = "READ" => 0 <= cLeft /\ cLeft <= dFileSize
    /\ cpc = "SEND" => 0 < cLeft /\ cLeft <= dFileSize

(* The i-th unit of what was requested.                                    *)
Wanted(i) == IF i <= Len(cfile.data) THEN cfile.data[i] ELSE ZeroUnit

(* What is in the transfer buffer is the next part of the file.            *)
Buffered == dFileSize - cLeft + transferSize - Len(cBuf)

BufferIsNext ==
    cpc = "SEND" =>
        /\ Len(cBuf) <= transferSize
        /\ \A i \in 1 .. Len(cBuf) : cBuf[i] = Wanted(Buffered + i)

(* As long as every write reaches the peer, the length of c2e tells how    *)
(* far the content worker has come; whatever happens, the part of c2e      *)
(* between the answer of step 5 and the end signal is the file.            *)
StreamLength ==
    /\ conn = "up" /\ eSock = "open" =>
           /\ cpc \in {"HEADER", "INFO", "CHECK", "REPLY"} => Len(c2e) = 0
           /\ cpc \in {"READY", "OPEN"} => Len(c2e) = 3
           /\ cpc = "READ" => Len(c2e) = 3 + dFileSize - cLeft
           /\ cpc = "SEND" => Len(c2e) = 3 + Buffered
           /\ cpc = "END"  => Len(c2e) = 3 + dFileSize
    /\ conn = "up" => Len(c2e) \notin {1, 2}

StreamIsFile ==
    /\ Len(c2e) > 3 => cfile.here
    /\ \A i \in 1 .. Len(c2e) :
          3 < i /\ i <= 3 + dFileSize => c2e[i] = Wanted(i - 3)

IInv == TypeOK /\ Asking /\ Serving /\ BufferIsNext /\ StreamLength
               /\ StreamIsFile

(* How far the encode worker has read, and what it has stored.             *)
Stored == dFileSize - eLeft

Reading ==
    /\ epc \in {"START", "EXIST"} => eRd = 0
    /\ epc \in {"READY", "OPEN"} => eRd = 3 \/ eEnded
    /\ epc = "RECV" => eRd = 3 + Stored \/ (eEnded /\ Stored = 0)
    /\ epc \in {"START", "EXIST", "READY", "OPEN", "RECV"} => eRes = 0
    /\ eRes = STATUS_OK => eLeft = 0

Storing ==
    epc = "RECV" \/ eRes # 0 =>
        /\ 0 <= eLeft /\ eLeft <= dFileSize
        /\ Stored > 0 => cfile.here
        /\ Len(out.data) = Lesser(DiskRoom, Stored)
        /\ \A i \in 1 .. Len(out.data) : out.data[i] = Wanted(i)

-----------------------------------------------------------------------------
(***************************************************************************)
(* What the two sides do to the connection.                                *)
(***************************************************************************)
LEMMA HeaderType ==
    ASSUME NEW cmd \in Commands, NEW st \in {STATUS_OK, STATUS_ERR}
    PROVE  /\ makeHeader(cmd, st) \in Seq(Unit)
           /\ Len(makeHeader(cmd, st)) = 3
<1>1. /\ [kind |-> cmd, val |-> st, part |-> 1] \in HeaderUnit
      /\ [kind |-> cmd, val |-> st, part |-> 2] \in HeaderUnit
      /\ [kind |-> cmd, val |-> st, part |-> 3] \in HeaderUnit
  BY DEF HeaderUnit
<1> QED
  BY <1>1, UnitTypes DEF makeHeader

LEMMA RequestType ==
    LET request == makeData(makeHeader(FILE_TRANSFER_CMD_START, STATUS_OK), 0)
    IN  request \in Seq(Unit) /\ Len(request) = 5 /\ request[4].val = 0
<1> DEFINE info(h) == [kind |-> "FILEINFO", val |-> 0, part |-> h]
           header  == makeHeader(FILE_TRANSFER_CMD_START, STATUS_OK)
<1>1. info(1) \in Unit /\ info(2) \in Unit /\ info(1).val = 0
  BY UnitTypes DEF InfoUnit
<1>2. header \in Seq(Unit) /\ Len(header) = 3
  BY HeaderType DEF Commands
<1> DEFINE body == <<info(1), info(2)>>
<1> HIDE DEF info, header
<1>3. body \in Seq(Unit) /\ Len(body) = 2 /\ body[1] = info(1)
  BY <1>1
<1> HIDE DEF body
<1>4. /\ header \o body \in Seq(Unit) /\ Len(header \o body) = 5
      /\ (header \o body)[4] = body[1]
  <2>1. header \in Seq(Unit) /\ body \in Seq(Unit)
    BY <1>2, <1>3
  <2>2. /\ header \o body \in Seq(Unit)
        /\ Len(header \o body) = Len(header) + Len(body)
        /\ \A i \in 1 .. Len(header) + Len(body) :
              (header \o body)[i] = IF i <= Len(header)
                                    THEN header[i] ELSE body[i - Len(header)]
    BY <2>1, ConcatProperties, Zenon
  <2> QED
    BY <2>2, <1>2, <1>3
<1> QED
  BY <1>1, <1>3, <1>4 DEF makeData, info, header, body

(* A step of the encode side or of the network takes nothing out of the    *)
(* read part of c2e and adds nothing to it.                                *)
Kept ==
    /\ c2e' \in Seq(Unit) /\ Len(c2e') <= Len(c2e)
    /\ \A i \in 1 .. Len(c2e') : c2e'[i] = c2e[i]
    /\ conn' = "up" => conn = "up" /\ c2e' = c2e

LEMMA ESendEffect ==
    ASSUME TypeOK, NEW units \in Seq(Unit), eSend(units)
    PROVE  /\ e2c' \in Seq(Unit) /\ Len(e2c) <= Len(e2c')
           /\ \A i \in 1 .. Len(e2c) : e2c'[i] = e2c[i]
           /\ e2c' = e2c \/ (conn = "up" /\ e2c' = e2c \o units)
           /\ conn' = "up" => cSock = "open" /\ e2c' = e2c \o units
           /\ conn' \in {"up", "reset"}
           /\ Kept /\ eRd <= Len(c2e')
<1>1. /\ e2c \in Seq(Unit) /\ c2e \in Seq(Unit) /\ eRd \in 0 .. Len(c2e)
      /\ conn \in {"up", "reset"} /\ cSock \in {"open", "closed"}
  BY DEF TypeOK
<1>2. /\ e2c \o units \in Seq(Unit) /\ Len(e2c) <= Len(e2c \o units)
      /\ \A i \in 1 .. Len(e2c) : (e2c \o units)[i] = e2c[i]
  BY <1>1, ConcatProperties, LenProperties
<1>3. CASE conn = "up" /\ cSock = "open"
  <2>1. e2c' = e2c \o units /\ c2e' = c2e /\ conn' = conn
    BY <1>3 DEF eSend
  <2>2. Kept
    BY <1>1, <1>3, <2>1 DEF Kept
  <2> QED
    BY <1>1, <1>2, <1>3, <2>1, <2>2
<1>4. CASE conn = "up" /\ cSock = "closed"
  <2>1. conn' = "reset" /\ Abort(c2e, eRd) /\ e2c' = e2c
    BY <1>4 DEF eSend
  <2> QED
    BY <1>1, <2>1, AbortType DEF Abort, Kept
<1>5. CASE conn = "reset"
  BY <1>1, <1>5 DEF eSend, Kept
<1> QED
  BY <1>1, <1>3, <1>4, <1>5

LEMMA CSendEffect ==
    ASSUME TypeOK, NEW units \in Seq(Unit), cSend(units)
    PROVE  /\ c2e' \in Seq(Unit) /\ eRd <= Len(c2e')
           /\ conn' \in {"up", "reset"}
           /\ \/ conn' = "reset" /\ c2e' = c2e
              \/ /\ conn = "up" /\ conn' = "up" /\ eSock = "open"
                 /\ c2e' = c2e \o units
                 /\ Len(c2e') = Len(c2e) + Len(units)
                 /\ \A i \in 1 .. Len(c2e') :
                       c2e'[i] = IF i <= Len(c2e) THEN c2e[i]
                                                  ELSE units[i - Len(c2e)]
<1>1. /\ c2e \in Seq(Unit) /\ eRd \in Nat /\ eRd <= Len(c2e)
      /\ conn \in {"up", "reset"}
  BY DEF TypeOK
<1>2. /\ c2e \o units \in Seq(Unit)
      /\ Len(c2e \o units) = Len(c2e) + Len(units)
      /\ Len(c2e) <= Len(c2e \o units)
      /\ \A i \in 1 .. Len(c2e) + Len(units) :
            (c2e \o units)[i] = IF i <= Len(c2e) THEN c2e[i]
                                                 ELSE units[i - Len(c2e)]
  BY <1>1, ConcatProperties, LenProperties
<1>3. CASE conn = "up" /\ eSock = "open" /\ c2e' = c2e \o units /\ conn' = conn
  BY <1>1, <1>2, <1>3
<1>4. CASE conn = "up" /\ conn' = "reset" /\ c2e' = c2e
  BY <1>1, <1>4
<1>5. CASE conn = "reset" /\ conn' = conn /\ c2e' = c2e
  BY <1>1, <1>5
<1> QED
  BY <1>3, <1>4, <1>5 DEF cSend

LEMMA CCloseEffect ==
    ASSUME TypeOK, cClose
    PROVE  Kept /\ eRd <= Len(c2e') /\ conn' \in {"up", "reset"}
           /\ cSock' = "closed" /\ UNCHANGED <<e2c, eSock>>
<1>1. c2e \in Seq(Unit) /\ eRd \in 0 .. Len(c2e) /\ conn \in {"up", "reset"}
  BY DEF TypeOK
<1>2. CASE conn = "up" /\ cWaiting > 0
  <2>1. conn' = "reset" /\ Abort(c2e, eRd)
    BY <1>2 DEF cClose
  <2> QED
    BY <1>1, <2>1, AbortType DEF Abort, Kept, cClose
<1>3. CASE ~(conn = "up" /\ cWaiting > 0)
  BY <1>1, <1>3 DEF cClose, Kept
<1> QED
  BY <1>2, <1>3

LEMMA ECloseEffect ==
    ASSUME TypeOK, eClose
    PROVE  /\ e2c' \in Seq(Unit) /\ cRd <= Len(e2c') /\ Len(e2c') <= Len(e2c)
           /\ \A i \in 1 .. Len(e2c') : e2c'[i] = e2c[i]
           /\ conn' = "up" => conn = "up" /\ e2c' = e2c
           /\ conn' \in {"up", "reset"}
           /\ eSock' = "closed" /\ UNCHANGED <<c2e, cSock>>
<1>1. e2c \in Seq(Unit) /\ cRd \in 0 .. Len(e2c) /\ conn \in {"up", "reset"}
  BY DEF TypeOK
<1>2. CASE conn = "up" /\ eWaiting > 0
  <2>1. conn' = "reset" /\ Abort(e2c, cRd)
    BY <1>2 DEF eClose
  <2> QED
    BY <1>1, <2>1, AbortType DEF Abort, eClose
<1>3. CASE ~(conn = "up" /\ eWaiting > 0)
  BY <1>1, <1>3 DEF eClose
<1> QED
  BY <1>2, <1>3

(* Such a step does not disturb what is known of the content side.         *)
LEMMA KeptPreserves ==
    ASSUME IInv, Kept, UNCHANGED <<cvars, dFileSize>>,
           eSock' = "open" => eSock = "open"
    PROVE  BufferIsNext' /\ StreamLength' /\ StreamIsFile'
<1>1. Len(c2e) \in Nat /\ Len(c2e') \in Nat
  BY LenProperties DEF IInv, TypeOK, Kept
<1>2. BufferIsNext'
  BY DEF IInv, BufferIsNext, Buffered, transferSize, Wanted, cvars
<1>3. StreamLength'
  BY DEF IInv, StreamLength, Buffered, transferSize, cvars, Kept
<1>4. StreamIsFile'
  BY <1>1 DEF IInv, StreamIsFile, Wanted, cvars, Kept
<1> QED
  BY <1>2, <1>3, <1>4

-----------------------------------------------------------------------------
(***************************************************************************)
(* The invariant holds initially, and every step of the encode side        *)
(* preserves it.                                                           *)
(***************************************************************************)
LEMMA InitIInv == Init => IInv
<1> SUFFICES ASSUME Init PROVE IInv
  OBVIOUS
<1>1. NoFile \in FileOf(DataUnit) /\ FileOf(DataUnit) \subseteq FileOf(Unit)
  BY UnitTypes, SeqMonotonic DEF NoFile, FileOf
<1>2. TypeOK
  BY <1>1, TransferAssumption
     DEF Init, TypeOK, EncodeSteps, ContentSteps
<1>3. Asking /\ Serving /\ BufferIsNext /\ StreamLength /\ StreamIsFile
  BY DEF Init, Asking, Serving, BufferIsNext, StreamLength, StreamIsFile,
         NoFile
<1> QED
  BY <1>2, <1>3 DEF IInv

LEMMA KeptWhenUnchanged ==
    ASSUME TypeOK, UNCHANGED <<c2e, conn>>
    PROVE  Kept
BY LenProperties DEF TypeOK, Kept

(* A step of the encode worker that leaves the connection alone.           *)
LEMMA LocalEncodeStep ==
    ASSUME IInv, UNCHANGED <<cvars, net, job, src>>
    PROVE  Serving' /\ BufferIsNext' /\ StreamLength' /\ StreamIsFile'
<1>1. Kept
  BY KeptWhenUnchanged DEF IInv, net
<1>2. BufferIsNext' /\ StreamLength' /\ StreamIsFile'
  BY <1>1, KeptPreserves DEF net, job
<1>3. Serving'
  BY DEF IInv, Serving, cvars, net, job
<1> QED
  BY <1>2, <1>3

LEMMA StepSTART == IInv /\ processGetFile_START => IInv'
<1> SUFFICES ASSUME IInv, processGetFile_START PROVE IInv'
  OBVIOUS
<1> DEFINE request == makeData(makeHeader(FILE_TRANSFER_CMD_START, STATUS_OK), 0)
<1>1. request \in Seq(Unit) /\ Len(request) = 5 /\ request[4].val = 0
  BY RequestType
<1>2. /\ epc = "START" /\ epc' = "EXIST" /\ ectl' = [fsize |-> 0]
      /\ eSend(request)
      /\ UNCHANGED <<eLeft, eStatus, eRes, eRd, out, cvars, eSock, cSock, job,
                     src>>
  BY DEF processGetFile_START, appendFileSizeSet, FileController
<1> HIDE DEF request
<1>3. TypeOK /\ e2c = << >> /\ eSock = "open"
  BY <1>2 DEF IInv, Asking
<1>4. /\ e2c' \in Seq(Unit) /\ Len(e2c) <= Len(e2c')
      /\ e2c' = e2c \/ e2c' = e2c \o request
      /\ conn' = "up" => e2c' = e2c \o request
      /\ conn' \in {"up", "reset"}
      /\ Kept /\ eRd <= Len(c2e')
  BY <1>1, <1>2, <1>3, ESendEffect
<1>5. e2c \o request = request
  BY <1>1, <1>3, ConcatEmptySeq
<1>6. TypeOK'
  BY <1>2, <1>3, <1>4 DEF TypeOK, cvars, job, Kept, EncodeSteps
<1>7. Asking'
  BY <1>1, <1>2, <1>3, <1>4, <1>5 DEF IInv, Asking
<1>8. Serving'
  BY <1>2 DEF IInv, Serving, cvars, job
<1> QED
  BY <1>2, <1>4, <1>6, <1>7, <1>8, KeptPreserves DEF IInv, job

(* What a part of a HEADER leaves in nStatus.                              *)
LEMMA HeaderStatus ==
    ASSUME NEW u \in Unit, NEW cmd \in Commands, IsHeader(u, cmd), NEW n
    PROVE  nStatus(u, n) \in {0, STATUS_OK, STATUS_ERR}
<1>1. cmd # "FILEINFO" /\ cmd # "DATA"
  BY DEF Commands, FILE_TRANSFER_CMD_START, FILE_TRANSFER_CMD_EXIST_CHECK,
         FILE_TRANSFER_CMD_TRANSFER_READY, FILE_TRANSFER_CMD_TRANSFER_END
<1>2. u.val \in {STATUS_OK, STATUS_ERR}
  BY <1>1 DEF IsHeader, Unit, HeaderUnit, InfoUnit, DataUnit
<1> QED
  BY <1>2 DEF nStatus

LEMMA StepExist == IInv /\ processGetFile_Get_Exist_Data => IInv'
<1> SUFFICES ASSUME IInv, processGetFile_Get_Exist_Data PROVE IInv'
  OBVIOUS
<1>1. /\ epc = "EXIST" /\ epc' \in {"READY", "DONE"}
      /\ eRd' \in Nat /\ eRd' <= Len(c2e)
      /\ UNCHANGED <<ectl, eLeft, eRes, out, cvars, net, job, src>>
  BY LenProperties
     DEF processGetFile_Get_Exist_Data, ReadLens, eWaiting, Lesser, IInv, TypeOK
<1>2. eStatus' \in {0, STATUS_OK, STATUS_ERR}
  <2>1. CASE UNCHANGED eStatus
    BY <2>1 DEF IInv, TypeOK
  <2>2. CASE \E n \in ReadLens(HEADER_SIZE, eWaiting, "split_header" \in Faults) :
               /\ IsHeader(c2e[eRd + 1], FILE_TRANSFER_CMD_EXIST_CHECK)
               /\ eStatus' = nStatus(c2e[eRd + 1], n)
    <3>1. c2e[eRd + 1] \in Unit
      BY <2>2, LenProperties, ElementOfSeq
         DEF ReadLens, eWaiting, Lesser, IInv, TypeOK
    <3> QED
      BY <2>2, <3>1, HeaderStatus DEF Commands
  <2> QED
    BY <2>1, <2>2 DEF processGetFile_Get_Exist_Data
<1>3. TypeOK'
  BY <1>1, <1>2 DEF IInv, TypeOK, cvars, net, job, EncodeSteps
<1>4. Asking'
  BY <1>1 DEF IInv, Asking, net
<1> QED
  BY <1>1, <1>3, <1>4, LocalEncodeStep DEF IInv

LEMMA StepREADY == IInv /\ processGetFile_TRANSFER_READY => IInv'
<1> SUFFICES ASSUME IInv, processGetFile_TRANSFER_READY PROVE IInv'
  OBVIOUS
<1> DEFINE ready == makeHeader(FILE_TRANSFER_CMD_TRANSFER_READY, STATUS_OK)
<1>1. ready \in Seq(Unit) /\ Len(ready) = 3
  BY HeaderType DEF Commands
<1>2. /\ epc = "READY" /\ epc' = "OPEN" /\ eSend(ready)
      /\ UNCHANGED <<ectl, eLeft, eStatus, eRes, eRd, out, cvars, eSock, cSock,
                     job, src>>
  BY DEF processGetFile_TRANSFER_READY
<1> HIDE DEF ready
<1>3. TypeOK /\ eSock = "open"
  BY <1>2 DEF IInv, Asking
<1>4. /\ e2c' \in Seq(Unit) /\ Len(e2c) <= Len(e2c')
      /\ \A i \in 1 .. Len(e2c) : e2c'[i] = e2c[i]
      /\ e2c' = e2c \/ (conn = "up" /\ e2c' = e2c \o ready)
      /\ conn' \in {"up", "reset"}
      /\ Kept /\ eRd <= Len(c2e')
  BY <1>1, <1>2, <1>3, ESendEffect
<1>5. TypeOK'
  BY <1>2, <1>3, <1>4, LenProperties DEF TypeOK, cvars, job, Kept, EncodeSteps
<1>6. Asking'
  <2>1. CASE e2c' = e2c
    BY <1>2, <1>3, <1>4, <2>1 DEF IInv, Asking
  <2>2. CASE conn = "up"
    <3>1. /\ Len(e2c) = 5
          /\ Len(e2c) >= 4 => e2c[4].val = 0
      BY <1>2, <2>2 DEF IInv, Asking
    <3>2. e2c[4].val = 0
      BY <3>1
    <3>3. e2c'[4] = e2c[4]
      BY <1>4, <3>1
    <3> QED
      BY <1>2, <1>3, <3>2, <3>3 DEF IInv, Asking
  <2> QED
    BY <1>4, <2>1, <2>2
<1>7. Serving'
  BY <1>2 DEF IInv, Serving, cvars, job
<1> QED
  BY <1>2, <1>4, <1>5, <1>6, <1>7, KeptPreserves DEF IInv, job

LEMMA StepOpen == IInv /\ FILE_TRANSFER_Open => IInv'
<1> SUFFICES ASSUME IInv, FILE_TRANSFER_Open PROVE IInv'
  OBVIOUS
<1>1. /\ epc = "OPEN" /\ epc' = "RECV" /\ out' = fopenTruncate
      /\ eLeft' = dFileSize - 0
      /\ UNCHANGED <<ectl, eStatus, eRes, eRd, cvars, net, job, src>>
  BY DEF FILE_TRANSFER_Open, getFileSizeExist, IInv, Asking
<1>2. TypeOK'
  BY <1>1 DEF IInv, TypeOK, cvars, net, job, EncodeSteps, FileOf, fopenTruncate
<1>3. Asking'
  BY <1>1 DEF IInv, Asking, net
<1> QED
  BY <1>1, <1>2, <1>3, LocalEncodeStep DEF IInv

(* What a turn of the loop of step 10 that reads n units does.             *)
LEMMA ReceiveEffect ==
    ASSUME IInv, NEW n \in 1 .. Lesser(Lesser(FILE_BUF_SIZE, eLeft), eWaiting),
           ReceiveTurn(n, Arrived(n), n)
    PROVE  /\ n \in Nat /\ n <= eLeft /\ n <= eWaiting
           /\ Arrived(n) \in Seq(Unit) /\ Len(Arrived(n)) = n
           /\ \A i \in 1 .. n : Arrived(n)[i] = c2e[eRd + i]
           /\ out' = [out EXCEPT !.data =
                         fwrite(out.data, 0, Arrived(n), DiskRoom)]
           /\ eRd' = eRd + n /\ eLeft' = eLeft - n
           /\ UNCHANGED <<epc, eRes>>
<1>1. /\ c2e \in Seq(Unit) /\ Len(c2e) \in Nat /\ eRd \in Nat
      /\ eRd <= Len(c2e) /\ eLeft \in Int
  BY LenProperties DEF IInv, TypeOK
<1>2. n \in Nat /\ n <= eLeft /\ n <= eWaiting /\ n >= 1
  BY <1>1, TransferAssumption DEF Lesser, eWaiting
<1>3. \A i \in eRd + 1 .. eRd + n : c2e[i] \in Unit
  BY <1>1, <1>2, ElementOfSeq DEF eWaiting
<1>4. /\ Arrived(n) \in Seq(Unit) /\ Len(Arrived(n)) = n
      /\ \A i \in 1 .. n : Arrived(n)[i] = c2e[eRd + i]
  BY <1>1, <1>2, <1>3, SubSeqProperties DEF Arrived
<1> QED
  BY <1>2, <1>4 DEF ReceiveTurn, getFileSizeExist, IInv, Asking

LEMMA StepReceive == IInv /\ FILE_TRANSFER_Receive => IInv'
<1> SUFFICES ASSUME IInv, FILE_TRANSFER_Receive PROVE IInv'
  OBVIOUS
<1>1. epc = "RECV" /\ UNCHANGED <<ectl, eStatus, cvars, net, job, src>>
  BY DEF FILE_TRANSFER_Receive
<1>2. ASSUME NEW n \in 1 .. Lesser(Lesser(FILE_BUF_SIZE, eLeft), eWaiting),
             ReceiveTurn(n, Arrived(n), n)
      PROVE  TypeOK' /\ Asking'
  <2>1. /\ n \in Nat /\ n <= eWaiting /\ Arrived(n) \in Seq(Unit)
        /\ out' = [out EXCEPT !.data =
                      fwrite(out.data, 0, Arrived(n), DiskRoom)]
        /\ eRd' = eRd + n /\ eLeft' = eLeft - n
        /\ UNCHANGED <<epc, eRes>>
    BY <1>2, ReceiveEffect
  <2>2. out.here \in BOOLEAN /\ out.data \in Seq(Unit)
    BY DEF IInv, TypeOK, FileOf
  <2>3. fwrite(out.data, 0, Arrived(n), DiskRoom) \in Seq(Unit)
    BY <2>1, <2>2, FwriteType, TransferAssumption
  <2>4. out' \in FileOf(Unit)
    BY <2>1, <2>2, <2>3 DEF FileOf, IInv, TypeOK
  <2>5. eRd' \in Nat /\ eRd' <= Len(c2e')
    BY <1>1, <2>1, LenProperties DEF eWaiting, IInv, TypeOK, net
  <2>6. TypeOK'
    BY <1>1, <2>1, <2>4, <2>5 DEF IInv, TypeOK, cvars, net, job
  <2> QED
    BY <1>1, <2>1, <2>6 DEF IInv, Asking, net
<1>3. ASSUME ReceiveFails PROVE TypeOK' /\ Asking'
  BY <1>1, <1>3
     DEF ReceiveFails, IInv, TypeOK, Asking, cvars, net, job, EncodeSteps
<1>4. TypeOK' /\ Asking'
  BY <1>2, <1>3 DEF FILE_TRANSFER_Receive
<1> QED
  BY <1>1, <1>4, LocalEncodeStep DEF IInv

LEMMA StepClose == IInv /\ FILE_TRANSFER_Close => IInv'
<1> SUFFICES ASSUME IInv, FILE_TRANSFER_Close PROVE IInv'
  OBVIOUS
<1>1. /\ epc = "RECV" /\ epc' = "END" /\ eRes' = STATUS_OK
      /\ UNCHANGED <<ectl, eLeft, eStatus, eRd, out, cvars, net, job, src>>
  BY DEF FILE_TRANSFER_Close
<1>2. TypeOK'
  BY <1>1 DEF IInv, TypeOK, cvars, net, job, EncodeSteps
<1>3. Asking'
  BY <1>1 DEF IInv, Asking, net
<1> QED
  BY <1>1, <1>2, <1>3, LocalEncodeStep DEF IInv

LEMMA StepEND == IInv /\ processGetFile_TRANSFER_END => IInv'
<1> SUFFICES ASSUME IInv, processGetFile_TRANSFER_END PROVE IInv'
  OBVIOUS
<1>1. /\ epc = "END" /\ epc' = "DONE"
      /\ eRd' \in Nat /\ eRd' <= Len(c2e)
      /\ UNCHANGED <<ectl, eLeft, eStatus, eRes, out, cvars, net, job, src>>
  BY LenProperties
     DEF processGetFile_TRANSFER_END, ReadLens, eWaiting, Lesser, IInv, TypeOK
<1>2. TypeOK'
  BY <1>1 DEF IInv, TypeOK, cvars, net, job, EncodeSteps
<1>3. Asking'
  BY <1>1 DEF IInv, Asking, net
<1> QED
  BY <1>1, <1>2, <1>3, LocalEncodeStep DEF IInv

(* The encode side closes its descriptor: at exit, or when it crashes.     *)
LEMMA StepEClose ==
    ASSUME IInv, eClose, epc' \in {"DONE", "CRASHED"}, out' \in FileOf(Unit),
           UNCHANGED <<ectl, eLeft, eStatus, eRes, eRd, cvars, job, src>>
    PROVE  IInv'
<1>1. /\ e2c' \in Seq(Unit) /\ cRd <= Len(e2c') /\ Len(e2c') <= Len(e2c)
      /\ \A i \in 1 .. Len(e2c') : e2c'[i] = e2c[i]
      /\ conn' = "up" => conn = "up" /\ e2c' = e2c
      /\ conn' \in {"up", "reset"}
      /\ eSock' = "closed" /\ UNCHANGED <<c2e, cSock>>
  BY ECloseEffect DEF IInv
<1>2. TypeOK'
  BY <1>1 DEF IInv, TypeOK, cvars, job, EncodeSteps
<1>3. Asking'
  <2>1. Len(e2c') >= 4 => e2c'[4].val = 0
    BY <1>1, LenProperties DEF IInv, Asking, TypeOK
  <2> QED
    BY <2>1 DEF IInv, Asking
<1>4. Serving'
  BY <1>1 DEF IInv, Serving, cvars, job
<1>5. Kept
  BY <1>1, LenProperties DEF IInv, TypeOK, Kept
<1> QED
  BY <1>1, <1>2, <1>3, <1>4, <1>5, KeptPreserves DEF IInv, job

LEMMA StepExit == IInv /\ exit => IInv'
<1> SUFFICES ASSUME IInv, exit PROVE IInv'
  OBVIOUS
<1>1. /\ eClose /\ epc' = "DONE" /\ out' \in FileOf(Unit)
      /\ UNCHANGED <<ectl, eLeft, eStatus, eRes, eRd, cvars, job, src>>
  BY DEF exit, evars, IInv, TypeOK
<1> QED
  BY <1>1, StepEClose

LEMMA StepCrash == IInv /\ EncodeCrash => IInv'
<1> SUFFICES ASSUME IInv, EncodeCrash PROVE IInv'
  OBVIOUS
<1>1. /\ eClose /\ epc' = "CRASHED"
      /\ UNCHANGED <<ectl, eLeft, eStatus, eRes, eRd, cvars, job, src>>
      /\ \/ out' = out
         \/ \E n \in 0 .. Len(out.data) :
               out' = [out EXCEPT !.data = Cut(out.data, n)]
  BY DEF EncodeCrash
<1>2. out \in FileOf(Unit) /\ out.data \in Seq(Unit)
  BY DEF IInv, TypeOK, FileOf
<1>3. \A n \in 0 .. Len(out.data) : Cut(out.data, n) \in Seq(Unit)
  BY <1>2, CutType
<1>4. out' \in FileOf(Unit)
  BY <1>1, <1>2, <1>3 DEF FileOf
<1> QED
  BY <1>1, <1>4, StepEClose

LEMMA StepReset == IInv /\ NetworkReset => IInv'
<1> SUFFICES ASSUME IInv, NetworkReset PROVE IInv'
  OBVIOUS
<1>1. /\ conn' = "reset" /\ Abort(e2c, cRd) /\ Abort(c2e, eRd)
      /\ UNCHANGED <<eSock, cSock, evars, cvars, job, src>>
  BY DEF NetworkReset
<1>2. /\ e2c \in Seq(Unit) /\ cRd \in 0 .. Len(e2c)
      /\ c2e \in Seq(Unit) /\ eRd \in 0 .. Len(c2e)
  BY LenProperties DEF IInv, TypeOK
<1>3. /\ e2c' \in Seq(Unit) /\ cRd <= Len(e2c') /\ Len(e2c') <= Len(e2c)
      /\ \A i \in 1 .. Len(e2c') : e2c'[i] = e2c[i]
  BY <1>1, <1>2, AbortType DEF Abort
<1>4. Kept /\ eRd <= Len(c2e')
  BY <1>1, <1>2, AbortType DEF Abort, Kept
<1>5. TypeOK'
  BY <1>1, <1>3, <1>4 DEF IInv, TypeOK, evars, cvars, job, Kept
<1>6. Asking'
  <2>1. Len(e2c') >= 4 => e2c'[4].val = 0
    BY <1>2, <1>3, LenProperties DEF IInv, Asking
  <2>2. e2c = << >> => e2c' = << >>
    BY <1>2, <1>3, EmptySeq, LenProperties
  <2> QED
    BY <1>1, <2>1, <2>2 DEF IInv, Asking, evars
<1>7. Serving'
  BY <1>1 DEF IInv, Serving, cvars, job
<1> QED
  BY <1>1, <1>4, <1>5, <1>6, <1>7, KeptPreserves DEF IInv, job

LEMMA StepSourceChange == IInv /\ SourceChange => IInv'
<1> SUFFICES ASSUME IInv, SourceChange PROVE IInv'
  OBVIOUS
<1>1. UNCHANGED <<evars, cvars, net, job>> /\ src' \in FileOf(DataUnit)
  BY TransferAssumption DEF SourceChange
<1>2. TypeOK' /\ Asking' /\ Serving'
  BY <1>1 DEF IInv, TypeOK, Asking, Serving, evars, cvars, net, job
<1>3. Kept
  BY <1>1, KeptWhenUnchanged DEF IInv, net
<1> QED
  BY <1>1, <1>2, <1>3, KeptPreserves DEF IInv, net, job

-----------------------------------------------------------------------------
(***************************************************************************)
(* Every step of the content side preserves it.                            *)
(***************************************************************************)
LEMMA ContentKeepsAsking ==
    ASSUME IInv, UNCHANGED <<evars, e2c, eSock>>, cpc # "HEADER",
           conn' = "up" => conn = "up"
    PROVE  Asking'
BY DEF IInv, Asking, evars

(* What the content worker may read, from the first unit it has not read.  *)
LEMMA ContentRead ==
    ASSUME TypeOK, NEW split, NEW want \in Nat \ {0},
           NEW n \in ReadLens(want, cWaiting, split)
    PROVE  /\ n \in 1 .. want /\ cRd + n \in Nat /\ cRd + n <= Len(e2c)
           /\ e2c[cRd + 1] \in Unit
<1>1. e2c \in Seq(Unit) /\ Len(e2c) \in Nat /\ cRd \in Nat /\ cRd <= Len(e2c)
  BY LenProperties DEF TypeOK
<1>2. n \in 1 .. want /\ n <= cWaiting
  BY <1>1 DEF ReadLens, Lesser, cWaiting
<1>3. cRd + 1 \in 1 .. Len(e2c)
  BY <1>1, <1>2 DEF cWaiting
<1> QED
  BY <1>1, <1>2, <1>3, ElementOfSeq DEF cWaiting

LEMMA StepReceiveHeader == IInv /\ run_ReceiveHeader => IInv'
<1> SUFFICES ASSUME IInv, run_ReceiveHeader PROVE IInv'
  OBVIOUS
<1>1. /\ cpc = "HEADER"
      /\ UNCHANGED <<cStart, cctl, cRes, cfile, cLeft, cBuf, evars, net, job,
                     src>>
  BY DEF run_ReceiveHeader
<1>2. /\ cRd' \in Nat /\ cRd' <= Len(e2c)
      /\ cpc' = "CLOSE" \/ (cpc' = "INFO" /\ cRd' = cRd + 3)
      /\ cWaiting > 0 \/ cEnded
  <2>1. CASE \E n \in ReadLens(HEADER_SIZE, cWaiting, "split_header" \in Faults) :
               /\ cRd' = cRd + n
               /\ cpc' = IF /\ IsHeader(e2c[cRd + 1], FILE_TRANSFER_CMD_START)
                            /\ n = HEADER_SIZE
                         THEN "INFO" ELSE "CLOSE"
    <3>1. PICK n \in ReadLens(HEADER_SIZE, cWaiting, "split_header" \in Faults) :
               /\ cRd' = cRd + n
               /\ cpc' = IF /\ IsHeader(e2c[cRd + 1], FILE_TRANSFER_CMD_START)
                            /\ n = HEADER_SIZE
                         THEN "INFO" ELSE "CLOSE"
      BY <2>1
    <3>2. n \in 1 .. 3 /\ cRd + n \in Nat /\ cRd + n <= Len(e2c)
      BY ContentRead DEF IInv
    <3> QED
      BY <3>1, <3>2, LenProperties DEF IInv, TypeOK, cWaiting
  <2>2. CASE cEnded /\ cpc' = "CLOSE" /\ UNCHANGED cRd
    BY <2>2 DEF IInv, TypeOK
  <2> QED
    BY <2>1, <2>2 DEF run_ReceiveHeader
<1>3. TypeOK'
  BY <1>1, <1>2 DEF IInv, TypeOK, evars, net, job, ContentSteps
<1>4. Asking'
  <2>1. epc = "START" => conn # "up"
    <3> SUFFICES ASSUME epc = "START" PROVE conn # "up"
      OBVIOUS
    <3>1. e2c = << >> /\ eSock = "open" /\ cRd = 0
      BY <1>1 DEF IInv, Asking, Serving
    <3>2. cEnded
      BY <1>2, <3>1 DEF cWaiting
    <3> QED
      BY <3>1, <3>2 DEF cEnded
  <2> QED
    BY <1>1, <2>1 DEF IInv, Asking, evars, net
<1>5. Serving'
  BY <1>1, <1>2 DEF IInv, Serving, net, job
<1>6. BufferIsNext' /\ StreamIsFile'
  BY <1>1, <1>2 DEF IInv, BufferIsNext, StreamIsFile, Wanted, net, job
<1>7. StreamLength'
  BY <1>1, <1>2 DEF IInv, StreamLength, net, job
<1> QED
  BY <1>3, <1>4, <1>5, <1>6, <1>7 DEF IInv

LEMMA StepReceiveInfo == IInv /\ processPutFile_Receive => IInv'
<1> SUFFICES ASSUME IInv, processPutFile_Receive PROVE IInv'
  OBVIOUS
<1>1. /\ cpc = "INFO" /\ cRd = 3 /\ cStart = 0
      /\ UNCHANGED <<cctl, cRes, cfile, cLeft, cBuf, evars, net, job, src>>
  BY DEF processPutFile_Receive, IInv, Serving
<1>2. /\ cRd' \in Nat /\ cRd' <= Len(e2c) /\ cStart' = 0
      /\ cpc' \in {"CHECK", "CLOSE"}
  <2>1. CASE \E n \in ReadLens(FILEINFO_SIZE, cWaiting, "split_info" \in Faults) :
               /\ cRd' = cRd + n
               /\ cStart' = e2c[cRd + 1].val
               /\ cpc' = "CHECK"
    <3>1. PICK n \in ReadLens(FILEINFO_SIZE, cWaiting, "split_info" \in Faults) :
               /\ cRd' = cRd + n
               /\ cStart' = e2c[cRd + 1].val
               /\ cpc' = "CHECK"
      BY <2>1
    <3>2. n \in 1 .. 2 /\ cRd + n \in Nat /\ cRd + n <= Len(e2c)
      BY ContentRead DEF IInv
    <3>3. Len(e2c) >= 4 /\ e2c[cRd + 1] = e2c[4]
      BY <1>1, <3>2, LenProperties DEF IInv, TypeOK
    <3> QED
      BY <3>1, <3>2, <3>3 DEF IInv, Asking
  <2>2. CASE cEnded /\ cpc' = "CLOSE" /\ UNCHANGED <<cRd, cStart>>
    BY <1>1, <2>2 DEF IInv, TypeOK
  <2> QED
    BY <2>1, <2>2 DEF processPutFile_Receive
<1>3. TypeOK'
  BY <1>1, <1>2 DEF IInv, TypeOK, evars, net, job, ContentSteps
<1>4. Asking'
  BY <1>1, ContentKeepsAsking DEF net
<1>5. Serving'
  BY <1>1, <1>2 DEF IInv, Serving, net, job
<1>6. BufferIsNext' /\ StreamIsFile'
  BY <1>1, <1>2 DEF IInv, BufferIsNext, StreamIsFile, Wanted, net, job
<1>7. StreamLength'
  BY <1>1, <1>2 DEF IInv, StreamLength, net, job
<1> QED
  BY <1>3, <1>4, <1>5, <1>6, <1>7 DEF IInv

LEMMA StepCheck == IInv /\ processPutFile_FileExistCheck => IInv'
<1> SUFFICES ASSUME IInv, processPutFile_FileExistCheck PROVE IInv'
  OBVIOUS
<1>1. /\ cpc = "CHECK" /\ cpc' = "REPLY" /\ cctl' = FileController(src)
      /\ UNCHANGED <<cStart, cRes, cfile, cLeft, cBuf, cRd, evars, net, job,
                     src>>
  BY DEF processPutFile_FileExistCheck
<1>2. cctl' \in [fsize : Nat]
  BY <1>1, LenProperties DEF FileController, FileOf, IInv, TypeOK
<1>3. TypeOK'
  BY <1>1, <1>2 DEF IInv, TypeOK, evars, net, job, ContentSteps
<1>4. Asking'
  BY <1>1, ContentKeepsAsking DEF net
<1>5. Serving'
  BY <1>1 DEF IInv, Serving, net, job
<1>6. BufferIsNext' /\ StreamIsFile'
  BY <1>1 DEF IInv, BufferIsNext, StreamIsFile, Wanted, net, job
<1>7. StreamLength'
  BY <1>1 DEF IInv, StreamLength, net, job
<1> QED
  BY <1>3, <1>4, <1>5, <1>6, <1>7 DEF IInv

(* The two writes of a HEADER.  After either, the rest of the stream is    *)
(* not a part of the file any more: step 5 comes before it, step 11 behind.*)
LEMMA StepReply == IInv /\ processPutFile_FileExistReturn => IInv'
<1> SUFFICES ASSUME IInv, processPutFile_FileExistReturn PROVE IInv'
  OBVIOUS
<1> DEFINE st    == IF fileExist(cctl) THEN STATUS_OK ELSE STATUS_ERR
           reply == makeHeader(FILE_TRANSFER_CMD_EXIST_CHECK, st)
<1>1. reply \in Seq(Unit) /\ Len(reply) = 3
  BY HeaderType DEF Commands
<1>2. /\ cpc = "REPLY" /\ cpc' = "READY" /\ cSend(reply)
      /\ UNCHANGED <<cStart, cctl, cRes, cfile, cLeft, cBuf, cRd, evars, e2c,
                     eSock, cSock, job, src>>
  BY DEF processPutFile_FileExistReturn
<1> HIDE DEF reply
<1>3. /\ c2e' \in Seq(Unit) /\ eRd <= Len(c2e')
      /\ conn' \in {"up", "reset"}
      /\ \/ conn' = "reset" /\ c2e' = c2e
         \/ /\ conn = "up" /\ conn' = "up" /\ eSock = "open"
            /\ Len(c2e') = Len(c2e) + 3
  BY <1>1, <1>2, CSendEffect DEF IInv
<1>4. TypeOK'
  BY <1>2, <1>3 DEF IInv, TypeOK, evars, job, ContentSteps
<1>5. Asking'
  BY <1>2, <1>3, ContentKeepsAsking
<1>6. Serving'
  BY <1>2 DEF IInv, Serving, job
<1>7. BufferIsNext'
  BY <1>2 DEF BufferIsNext
<1>8. StreamLength'
  <2>1. conn' = "up" => Len(c2e') = 3
    BY <1>2, <1>3 DEF IInv, StreamLength
  <2> QED
    BY <1>2, <2>1 DEF StreamLength
<1>9. StreamIsFile'
  <2>1. CASE c2e' = c2e
    BY <1>2, <2>1 DEF IInv, StreamIsFile, Wanted, job
  <2>2. CASE conn = "up" /\ eSock = "open" /\ Len(c2e') = Len(c2e) + 3
    <3>1. Len(c2e') = 3
      BY <1>2, <2>2 DEF IInv, StreamLength
    <3> QED
      BY <3>1 DEF StreamIsFile
  <2> QED
    BY <1>3, <2>1, <2>2
<1> QED
  BY <1>4, <1>5, <1>6, <1>7, <1>8, <1>9 DEF IInv

LEMMA StepReadyWait == IInv /\ processPutFile_TransferReady => IInv'
<1> SUFFICES ASSUME IInv, processPutFile_TransferReady PROVE IInv'
  OBVIOUS
<1>1. /\ cpc = "READY" /\ cpc' = "OPEN"
      /\ UNCHANGED <<cStart, cctl, cfile, cLeft, cBuf, evars, net, job, src>>
  BY DEF processPutFile_TransferReady
<1>2. /\ cRd' \in Nat /\ cRd' <= Len(e2c)
      /\ cRes' \in {0, STATUS_OK, STATUS_ERR}
  <2>1. CASE \E n \in ReadLens(HEADER_SIZE, cWaiting, "split_header" \in Faults) :
               /\ cRd' = cRd + n
               /\ cRes' = IF IsHeader(e2c[cRd + 1],
                                      FILE_TRANSFER_CMD_TRANSFER_READY)
                          THEN nStatus(e2c[cRd + 1], n) ELSE STATUS_ERR
    <3>1. PICK n \in ReadLens(HEADER_SIZE, cWaiting, "split_header" \in Faults) :
               /\ cRd' = cRd + n
               /\ cRes' = IF IsHeader(e2c[cRd + 1],
                                      FILE_TRANSFER_CMD_TRANSFER_READY)
                          THEN nStatus(e2c[cRd + 1], n) ELSE STATUS_ERR
      BY <2>1
    <3>2. /\ cRd + n \in Nat /\ cRd + n <= Len(e2c)
          /\ e2c[cRd + 1] \in Unit
      BY ContentRead DEF IInv
    <3>3. IsHeader(e2c[cRd + 1], FILE_TRANSFER_CMD_TRANSFER_READY)
              => nStatus(e2c[cRd + 1], n) \in {0, STATUS_OK, STATUS_ERR}
      BY <3>2, HeaderStatus DEF Commands
    <3> QED
      BY <3>1, <3>2, <3>3
  <2>2. CASE cRes' = STATUS_ERR /\ UNCHANGED cRd
    BY <2>2 DEF IInv, TypeOK
  <2> QED
    BY <2>1, <2>2 DEF processPutFile_TransferReady
<1>3. TypeOK'
  BY <1>1, <1>2 DEF IInv, TypeOK, evars, net, job, ContentSteps
<1>4. Asking'
  BY <1>1, ContentKeepsAsking DEF net
<1>5. Serving'
  BY <1>1 DEF IInv, Serving, net, job
<1>6. BufferIsNext' /\ StreamIsFile'
  BY <1>1 DEF IInv, BufferIsNext, StreamIsFile, Wanted, net, job
<1>7. StreamLength'
  BY <1>1 DEF IInv, StreamLength, net, job
<1> QED
  BY <1>3, <1>4, <1>5, <1>6, <1>7 DEF IInv

(* close() by the content side, in run and when its process dies.          *)
LEMMA StepCClose ==
    ASSUME IInv, cClose, cpc # "HEADER", cpc' \in {"FREE", "CRASHED"},
           UNCHANGED <<cStart, cctl, cRes, cfile, cLeft, cBuf, cRd, evars, job,
                       src>>
    PROVE  IInv'
<1>1. /\ Kept /\ eRd <= Len(c2e') /\ conn' \in {"up", "reset"}
      /\ cSock' = "closed" /\ UNCHANGED <<e2c, eSock>>
  BY CCloseEffect DEF IInv
<1>2. TypeOK'
  BY <1>1 DEF IInv, TypeOK, Kept, evars, job, ContentSteps
<1>3. Asking'
  BY <1>1, ContentKeepsAsking DEF Kept
<1>4. Serving'
  BY <1>1 DEF IInv, Serving, job
<1>5. BufferIsNext'
  BY DEF BufferIsNext
<1>6. StreamLength'
  BY <1>1 DEF IInv, StreamLength, Kept
<1>7. StreamIsFile'
  BY <1>1, LenProperties DEF IInv, TypeOK, StreamIsFile, Wanted, Kept, job
<1> QED
  BY <1>2, <1>3, <1>4, <1>5, <1>6, <1>7 DEF IInv

LEMMA StepDelete == IInv /\ run_DeleteItem => IInv'
BY StepCClose DEF run_DeleteItem

LEMMA StepCOpen == IInv /\ File_Transfer_Open => IInv'
<1> SUFFICES ASSUME IInv, File_Transfer_Open PROVE IInv'
  OBVIOUS
<1>1. CASE ~src.here
  <2>1. /\ cClose /\ cpc = "OPEN" /\ cpc' = "CRASHED"
        /\ UNCHANGED <<cStart, cctl, cRes, cfile, cLeft, cBuf, cRd, evars, job,
                       src>>
    BY <1>1 DEF File_Transfer_Open
  <2> QED
    BY <2>1, StepCClose
<1>2. CASE src.here
  <2>1. /\ cpc = "OPEN" /\ cpc' = "READ"
        /\ cfile' = src /\ cLeft' = dFileSize - 0
        /\ UNCHANGED <<cStart, cctl, cRes, cBuf, cRd, evars, net, job, src>>
    BY <1>2 DEF File_Transfer_Open, IInv, Serving
  <2>2. TypeOK'
    BY <2>1 DEF IInv, TypeOK, evars, net, job, ContentSteps
  <2>3. Asking'
    BY <2>1, ContentKeepsAsking DEF net
  <2>4. Serving'
    BY <1>2, <2>1 DEF IInv, TypeOK, Serving, net, job
  <2>5. BufferIsNext'
    BY <2>1 DEF BufferIsNext
  <2>6. StreamLength'
    BY <2>1 DEF IInv, TypeOK, StreamLength, net, job
  <2>7. StreamIsFile'
    <3>1. Len(c2e) \in Nat /\ Len(c2e) <= 3
      BY <2>1, LenProperties DEF IInv, TypeOK, StreamIsFile, Serving
    <3> QED
      BY <2>1, <3>1 DEF StreamIsFile, net
  <2> QED
    BY <2>2, <2>3, <2>4, <2>5, <2>6, <2>7 DEF IInv
<1> QED
  BY <1>1, <1>2

(* What the loop of step 9 knows of the numbers it computes with.          *)
LEMMA TransferSizes ==
    ASSUME IInv, cpc \in {"READ", "SEND"}, cLeft > 0
    PROVE  /\ transferSize \in Nat /\ 0 < transferSize /\ transferSize <= cLeft
           /\ dFileSize \in Nat /\ cLeft \in Nat /\ cLeft <= dFileSize
BY TransferAssumption DEF IInv, TypeOK, Serving, transferSize, Lesser

LEMMA StepCRead == IInv /\ File_Transfer_Read => IInv'
<1> SUFFICES ASSUME IInv, File_Transfer_Read PROVE IInv'
  OBVIOUS
<1>1. /\ cpc = "READ" /\ cpc' = "SEND" /\ cLeft > 0
      /\ cBuf' = fread(cfile.data, dFileSize - cLeft, transferSize)
      /\ UNCHANGED <<cStart, cctl, cRes, cfile, cLeft, cRd, evars, net, job,
                     src>>
  BY DEF File_Transfer_Read
<1>2. /\ transferSize \in Nat /\ 0 < transferSize /\ transferSize <= cLeft
      /\ dFileSize \in Nat /\ cLeft \in Nat /\ cLeft <= dFileSize
  BY <1>1, TransferSizes
<1>3. /\ cBuf' \in Seq(DataUnit) /\ Len(cBuf') = transferSize
      /\ \A i \in 1 .. transferSize :
            cBuf'[i] = IF dFileSize - cLeft + i <= Len(cfile.data)
                       THEN cfile.data[dFileSize - cLeft + i] ELSE ZeroUnit
  <2>1. dFileSize - cLeft \in Nat
    BY <1>2
  <2>2. cfile.data \in Seq(DataUnit)
    BY DEF IInv, TypeOK, FileOf
  <2> QED
    BY <1>1, <1>2, <2>1, <2>2, FreadType
<1>4. transferSize' = transferSize
  BY <1>1 DEF transferSize
<1>5. Buffered' = dFileSize - cLeft
  BY <1>1, <1>2, <1>3, <1>4 DEF Buffered, job
<1>6. TypeOK'
  BY <1>1, <1>3 DEF IInv, TypeOK, evars, net, job, ContentSteps
<1>7. Asking'
  BY <1>1, ContentKeepsAsking DEF net
<1>8. Serving'
  BY <1>1, <1>2 DEF IInv, Serving, net, job
<1>9. BufferIsNext'
  BY <1>1, <1>2, <1>3, <1>4, <1>5 DEF BufferIsNext, Wanted
<1>10. StreamLength'
  BY <1>1, <1>2, <1>5 DEF IInv, StreamLength, net, job
<1>11. StreamIsFile'
  BY <1>1 DEF IInv, StreamIsFile, Wanted, net, job
<1> QED
  BY <1>6, <1>7, <1>8, <1>9, <1>10, <1>11 DEF IInv

LEMMA StepCClosed == IInv /\ File_Transfer_Close => IInv'
<1> SUFFICES ASSUME IInv, File_Transfer_Close PROVE IInv'
  OBVIOUS
<1>1. /\ cpc = "READ" /\ cpc' = "END" /\ cLeft = 0
      /\ UNCHANGED <<cStart, cctl, cRes, cfile, cLeft, cBuf, cRd, evars, net,
                     job, src>>
  BY DEF File_Transfer_Close, IInv, TypeOK, Serving
<1>2. TypeOK'
  BY <1>1 DEF IInv, TypeOK, evars, net, job, ContentSteps
<1>3. Asking'
  BY <1>1, ContentKeepsAsking DEF net
<1>4. Serving'
  BY <1>1 DEF IInv, Serving, net, job
<1>5. BufferIsNext' /\ StreamIsFile'
  BY <1>1 DEF IInv, BufferIsNext, StreamIsFile, Wanted, net, job
<1>6. StreamLength'
  BY <1>1 DEF IInv, TypeOK, StreamLength, net, job
<1> QED
  BY <1>2, <1>3, <1>4, <1>5, <1>6 DEF IInv

LEMMA StepTransferEnd == IInv /\ processPutFile_TransferEnd => IInv'
<1> SUFFICES ASSUME IInv, processPutFile_TransferEnd PROVE IInv'
  OBVIOUS
<1> DEFINE end == makeHeader(FILE_TRANSFER_CMD_TRANSFER_END, STATUS_OK)
<1>1. end \in Seq(Unit) /\ Len(end) = 3
  BY HeaderType DEF Commands
<1>2. /\ cpc = "END" /\ cpc' = "CLOSE" /\ cSend(end)
      /\ UNCHANGED <<cStart, cctl, cRes, cfile, cLeft, cBuf, cRd, evars, e2c,
                     eSock, cSock, job, src>>
  BY DEF processPutFile_TransferEnd
<1> HIDE DEF end
<1>3. /\ c2e' \in Seq(Unit) /\ eRd <= Len(c2e')
      /\ conn' \in {"up", "reset"}
      /\ \/ conn' = "reset" /\ c2e' = c2e
         \/ /\ conn = "up" /\ conn' = "up" /\ eSock = "open"
            /\ Len(c2e') = Len(c2e) + 3
            /\ \A i \in 1 .. Len(c2e') :
                  c2e'[i] = IF i <= Len(c2e) THEN c2e[i]
                                             ELSE end[i - Len(c2e)]
  BY <1>1, <1>2, CSendEffect DEF IInv
<1>4. TypeOK'
  BY <1>2, <1>3 DEF IInv, TypeOK, evars, job, ContentSteps
<1>5. Asking'
  BY <1>2, <1>3, ContentKeepsAsking
<1>6. Serving'
  BY <1>2 DEF IInv, Serving, job
<1>7. BufferIsNext'
  BY <1>2 DEF BufferIsNext
<1>8. CASE conn' = "reset" /\ c2e' = c2e
  <2>1. StreamLength'
    BY <1>2, <1>8 DEF StreamLength
  <2>2. StreamIsFile'
    BY <1>2, <1>8 DEF IInv, StreamIsFile, Wanted, job
  <2> QED
    BY <1>4, <1>5, <1>6, <1>7, <2>1, <2>2 DEF IInv
<1>9. CASE /\ conn = "up" /\ eSock = "open" /\ Len(c2e') = Len(c2e) + 3
           /\ \A i \in 1 .. Len(c2e') :
                 c2e'[i] = IF i <= Len(c2e) THEN c2e[i]
                                            ELSE end[i - Len(c2e)]
  <2>1. Len(c2e) = 3 + dFileSize /\ dFileSize \in Nat /\ cfile.here
    BY <1>2, <1>9 DEF IInv, TypeOK, StreamLength, Serving
  <2>2. StreamLength'
    BY <1>2, <1>9, <2>1 DEF StreamLength
  <2>3. StreamIsFile'
    BY <1>2, <1>9, <2>1 DEF IInv, StreamIsFile, Wanted, job
  <2> QED
    BY <1>4, <1>5, <1>6, <1>7, <2>2, <2>3 DEF IInv
<1> QED
  BY <1>3, <1>8, <1>9

(* A turn of the loop of step 9 that the connection does not let through.  *)
LEMMA SendLost ==
    ASSUME IInv, cpc = "SEND", conn' = "reset", cBuf' = << >>,
           \/ cLeft' = cLeft - transferSize /\ cpc' = "READ"
           \/ cLeft' = cLeft /\ cpc' = "END",
           UNCHANGED <<cStart, cctl, cRes, cfile, cRd, evars, e2c, c2e, eSock,
                       cSock, job, src>>
    PROVE  IInv'
<1>1. /\ transferSize \in Nat /\ 0 < transferSize /\ transferSize <= cLeft
      /\ dFileSize \in Nat /\ cLeft \in Nat /\ cLeft <= dFileSize
  BY TransferSizes DEF IInv, Serving
<1>2. TypeOK'
  BY <1>1 DEF IInv, TypeOK, evars, job, ContentSteps
<1>3. Asking'
  BY ContentKeepsAsking
<1>4. Serving'
  BY <1>1 DEF IInv, Serving, job
<1>5. BufferIsNext' /\ StreamLength'
  BY DEF BufferIsNext, StreamLength
<1>6. StreamIsFile'
  BY DEF IInv, StreamIsFile, Wanted, job
<1> QED
  BY <1>2, <1>3, <1>4, <1>5, <1>6 DEF IInv

(* One that hands k units over: they are the next k units of the file.     *)
LEMMA SendTaken ==
    ASSUME IInv, cpc = "SEND", conn = "up", eSock = "open", conn' = conn,
           NEW k \in 1 .. Len(cBuf),
           c2e' = c2e \o Cut(cBuf, k), cBuf' = Suffix(cBuf, k),
           IF k = Len(cBuf)
           THEN cLeft' = cLeft - transferSize /\ cpc' = "READ"
           ELSE UNCHANGED <<cLeft, cpc>>,
           UNCHANGED <<cStart, cctl, cRes, cfile, cRd, evars, e2c, eSock, cSock,
                       job, src>>
    PROVE  IInv'
<1> DEFINE len == Len(cBuf)
<1>1. /\ transferSize \in Nat /\ 0 < transferSize /\ transferSize <= cLeft
      /\ dFileSize \in Nat /\ cLeft \in Nat /\ cLeft <= dFileSize
  BY TransferSizes DEF IInv, Serving
<1>2. /\ cBuf \in Seq(DataUnit) /\ cBuf \in Seq(Unit) /\ c2e \in Seq(Unit)
      /\ len \in Nat /\ k \in 0 .. len /\ 0 < k
      /\ Len(c2e) \in Nat /\ eRd \in Nat /\ eRd <= Len(c2e)
  BY UnitTypes, SeqMonotonic, LenProperties DEF IInv, TypeOK
<1>3. /\ Len(c2e) = 3 + Buffered /\ cfile.here /\ len <= transferSize
      /\ \A i \in 1 .. len : cBuf[i] = Wanted(Buffered + i)
  BY DEF IInv, StreamLength, BufferIsNext, Serving
<1>4. /\ Cut(cBuf, k) \in Seq(Unit) /\ Len(Cut(cBuf, k)) = k
      /\ \A i \in 1 .. k : Cut(cBuf, k)[i] = cBuf[i]
  BY <1>2, CutType
<1>5. /\ cBuf' \in Seq(DataUnit) /\ Len(cBuf') = len - k
      /\ \A i \in 1 .. len - k : cBuf'[i] = cBuf[k + i]
  BY <1>2, SuffixType
<1>6. /\ c2e' \in Seq(Unit) /\ Len(c2e') = Len(c2e) + k
      /\ \A i \in 1 .. Len(c2e) + k :
            c2e'[i] = IF i <= Len(c2e) THEN c2e[i]
                                       ELSE Cut(cBuf, k)[i - Len(c2e)]
  BY <1>2, <1>4, ConcatProperties
<1>7. Buffered \in Nat
  BY <1>1, <1>2, <1>3 DEF Buffered
<1> HIDE DEF len
<1>8. /\ cLeft' \in Nat /\ cpc' \in {"READ", "SEND"}
      /\ cpc' = "SEND" => cLeft' = cLeft /\ k < len
      /\ cpc' = "READ" => cLeft' = cLeft - transferSize /\ k = len
  BY <1>1, <1>2 DEF len
<1>9. TypeOK'
  BY <1>2, <1>5, <1>6, <1>8 DEF IInv, TypeOK, evars, job, ContentSteps
<1>10. Asking'
  BY ContentKeepsAsking
<1>11. Serving'
  BY <1>1, <1>8 DEF IInv, Serving, job
<1>12. cpc' = "SEND" => Buffered' = Buffered + k
  <2> SUFFICES ASSUME cpc' = "SEND" PROVE Buffered' = Buffered + k
    OBVIOUS
  <2>1. transferSize' = transferSize
    BY <1>8 DEF transferSize
  <2> QED
    BY <1>1, <1>2, <1>5, <1>8, <2>1 DEF Buffered, job, len
<1>13. BufferIsNext'
  <2> SUFFICES ASSUME cpc' = "SEND"
               PROVE  /\ Len(cBuf') <= transferSize'
                      /\ \A i \in 1 .. Len(cBuf') :
                            cBuf'[i] = Wanted(Buffered + k + i)
    BY <1>12 DEF BufferIsNext, Wanted
  <2>1. transferSize' = transferSize
    BY <1>8 DEF transferSize
  <2>2. \A i \in 1 .. len - k :
           k + i \in 1 .. len /\ Buffered + (k + i) = Buffered + k + i
    BY <1>2, <1>7
  <2> QED
    BY <1>1, <1>2, <1>3, <1>5, <2>1, <2>2 DEF len
<1>14. StreamLength'
  <2>1. Len(c2e') = 3 + Buffered + k /\ Len(c2e') \notin {1, 2}
    BY <1>2, <1>3, <1>6, <1>7
  <2>2. cpc' = "READ" => Len(c2e') = 3 + dFileSize' - cLeft'
    <3> SUFFICES ASSUME cpc' = "READ"
                 PROVE  3 + Buffered + k = 3 + dFileSize - cLeft'
      BY <2>1 DEF job
    <3>1. cLeft' = cLeft - transferSize /\ k = len
      BY <1>8
    <3>2. Buffered = dFileSize - cLeft + transferSize - len
      BY DEF Buffered, len
    <3> QED
      BY <1>1, <1>2, <3>1, <3>2
  <2> QED
    BY <1>7, <1>8, <1>12, <2>1, <2>2 DEF StreamLength
<1>15. StreamIsFile'
  <2>1. ASSUME NEW i \in 1 .. Len(c2e) + k, 3 < i, i <= 3 + dFileSize
        PROVE  c2e'[i] = Wanted(i - 3)
    <3>1. CASE i <= Len(c2e)
      <4>1. i \in 1 .. Len(c2e) /\ i \in 1 .. Len(c2e) + k
        BY <1>2, <2>1, <3>1
      <4>2. c2e'[i] = c2e[i]
        BY <1>6, <3>1, <4>1
      <4> QED
        BY <2>1, <4>1, <4>2 DEF IInv, StreamIsFile
    <3>2. CASE i > Len(c2e)
      <4>1. i - Len(c2e) \in 1 .. k /\ i - Len(c2e) \in 1 .. len
        BY <1>2, <3>2
      <4>2. Buffered + (i - Len(c2e)) = i - 3
        BY <1>2, <1>3, <1>7
      <4>3. c2e'[i] = cBuf[i - Len(c2e)]
        BY <1>2, <1>4, <1>6, <3>2, <4>1
      <4> QED
        BY <1>3, <4>1, <4>2, <4>3 DEF len
    <3>3. i <= Len(c2e) \/ i > Len(c2e)
      BY <1>2
    <3> QED
      BY <3>1, <3>2, <3>3
  <2>2. \A i : Wanted(i)' = Wanted(i)
    BY DEF Wanted
  <2> QED
    BY <1>3, <1>6, <2>1, <2>2 DEF StreamIsFile, Wanted, job
<1> QED
  BY <1>9, <1>10, <1>11, <1>13, <1>14, <1>15 DEF IInv

LEMMA StepCSend == IInv /\ File_Transfer_Send => IInv'
<1> SUFFICES ASSUME IInv, File_Transfer_Send PROVE IInv'
  OBVIOUS
<1>1. /\ cpc = "SEND"
      /\ UNCHANGED <<cStart, cctl, cRes, cfile, cRd, evars, e2c, eSock, cSock,
                     job, src>>
  BY DEF File_Transfer_Send
<1>2. CASE conn = "up" /\ eSock = "open"
  <2> DEFINE k == Lesser(cRoom, Len(cBuf))
  <2>1. /\ k > 0 /\ c2e' = c2e \o Cut(cBuf, k) /\ cBuf' = Suffix(cBuf, k)
        /\ IF k = Len(cBuf)
           THEN cLeft' = cLeft - transferSize /\ cpc' = "READ"
           ELSE UNCHANGED <<cLeft, cpc>>
        /\ UNCHANGED conn
    BY <1>2 DEF File_Transfer_Send
  <2>2. k \in 1 .. Len(cBuf)
    BY <2>1, LenProperties, TransferAssumption
       DEF Lesser, cRoom, eWaiting, IInv, TypeOK
  <2> HIDE DEF k
  <2> QED
    BY <1>1, <1>2, <2>1, <2>2, SendTaken
<1>3. CASE conn = "up" /\ eSock = "closed"
  <2>1. /\ conn' = "reset" /\ cLeft' = cLeft - transferSize /\ cpc' = "READ"
        /\ cBuf' = << >> /\ UNCHANGED c2e
    BY <1>3 DEF File_Transfer_Send
  <2> QED
    BY <1>1, <2>1, SendLost
<1>4. CASE conn = "reset"
  <2>1. /\ conn' = "reset" /\ cBuf' = << >> /\ UNCHANGED c2e
        /\ \/ cLeft' = cLeft - transferSize /\ cpc' = "READ"
           \/ cLeft' = cLeft /\ cpc' = "END"
    BY <1>4 DEF File_Transfer_Send
  <2> QED
    BY <1>1, <2>1, SendLost
<1> QED
  BY <1>2, <1>3, <1>4 DEF File_Transfer_Send

-----------------------------------------------------------------------------
(***************************************************************************)
(* The type invariant.                                                     *)
(***************************************************************************)
LEMMA NextIInv == IInv /\ [Next]_vars => IInv'
<1> SUFFICES ASSUME IInv, [Next]_vars PROVE IInv'
  OBVIOUS
<1>1. CASE Encode
  BY <1>1, StepSTART, StepExist, StepREADY, StepOpen, StepReceive, StepClose,
     StepEND, StepExit DEF Encode
<1>2. CASE Content
  BY <1>2, StepReceiveHeader, StepReceiveInfo, StepCheck, StepReply,
     StepReadyWait, StepCOpen, StepCRead, StepCSend, StepCClosed,
     StepTransferEnd, StepDelete DEF Content
<1>3. CASE NetworkReset \/ EncodeCrash \/ SourceChange
  BY <1>3, StepReset, StepCrash, StepSourceChange
<1>4. CASE UNCHANGED vars
  <2>1. UNCHANGED <<evars, cvars, net, job, src>>
    BY <1>4 DEF vars
  <2>2. TypeOK' /\ Asking'
    BY <2>1 DEF IInv, TypeOK, Asking, evars, cvars, net, job
  <2> QED
    BY <2>1, <2>2, LocalEncodeStep DEF IInv
<1> QED
  BY <1>1, <1>2, <1>3, <1>4 DEF Next

THEOREM InvariantHolds == Spec => []IInv
<1>1. Init => IInv
  BY InitIInv
<1>2. IInv /\ [Next]_vars => IInv'
  BY NextIInv
<1> QED
  BY <1>1, <1>2, PTL DEF Spec

(* No reader of either stream gets ahead of it, and every variable keeps   *)
(* its type, whatever the network and the other process do.                *)
THEOREM TypeCorrect == Spec => []TypeOK
<1>1. IInv => TypeOK
  BY DEF IInv
<1> QED
  BY <1>1, InvariantHolds, PTL

-----------------------------------------------------------------------------
(***************************************************************************)
(* What the output file holds.  The encode worker may read its first byte  *)
(* of contents only after it has read the whole answer of step 5, so that  *)
(* the rest of a HEADER is never stored: this needs that a HEADER is read  *)
(* in one piece.                                                           *)
(***************************************************************************)
LEMMA EndedStays ==
    ASSUME TypeOK, Kept, eEnded, eRd' = eRd, eRd <= Len(c2e'),
           cSock = "closed" => cSock' = "closed", conn' \in {"up", "reset"}
    PROVE  eEnded'
<1>1. Len(c2e) \in Nat /\ Len(c2e') \in Nat /\ eRd \in Nat
  BY LenProperties DEF TypeOK, Kept
<1>2. eWaiting' = 0
  BY <1>1 DEF eEnded, eWaiting, Kept
<1> QED
  BY <1>2 DEF eEnded, Kept

(* Whatever leaves the encode worker where it is.                          *)
LEMMA OtherStep ==
    ASSUME IInv, Reading, Storing, UNCHANGED <<evars, dFileSize>>,
           eEnded => eEnded', cfile' = cfile \/ ~cfile.here
    PROVE  Reading' /\ Storing'
<1>1. Reading'
  BY DEF Reading, Stored, evars
<1>2. Storing'
  <2> SUFFICES ASSUME epc = "RECV" \/ eRes # 0 PROVE Storing'
    BY DEF Storing, evars
  <2>1. CASE cfile' = cfile
    BY <2>1 DEF Storing, Stored, Wanted, evars
  <2>2. CASE ~cfile.here
    <3>1. ~(Stored > 0) /\ Stored \in Nat /\ Stored = 0
      BY <2>2 DEF Storing, Stored, IInv, TypeOK
    <3>2. Len(out.data) = 0
      BY <3>1, TransferAssumption DEF Storing, Lesser
    <3> QED
      BY <3>1, <3>2 DEF Storing, Stored, evars
  <2> QED
    BY <2>1, <2>2
<1> QED
  BY <1>1, <1>2

LEMMA ContentSends ==
    ASSUME IInv, cpc \notin {"FREE", "CRASHED"}, UNCHANGED <<evars, cSock>>,
           conn = "reset" => UNCHANGED <<c2e, conn>>
    PROVE  eEnded => eEnded'
BY DEF IInv, TypeOK, Serving, eEnded, eWaiting, evars

LEMMA ContentStep ==
    ASSUME IInv, Content
    PROVE  /\ UNCHANGED <<evars, dFileSize>>
           /\ eEnded => eEnded'
           /\ cfile' = cfile \/ ~cfile.here
<1>1. CASE cClose /\ UNCHANGED <<cfile, evars, job>>
  <2>1. Kept /\ eRd <= Len(c2e') /\ conn' \in {"up", "reset"} /\ cSock' = "closed"
    BY <1>1, CCloseEffect DEF IInv
  <2> QED
    BY <1>1, <2>1, EndedStays DEF IInv, evars, job
<1>2. CASE UNCHANGED <<evars, job, net>> /\ (cfile' = cfile \/ ~cfile.here)
  BY <1>2 DEF eEnded, eWaiting, evars, job, net
<1>3. CASE /\ cpc \notin {"FREE", "CRASHED"}
           /\ conn = "reset" => UNCHANGED <<c2e, conn>>
           /\ UNCHANGED <<evars, job, cSock, cfile>>
  BY <1>3, ContentSends DEF job
<1>4. \/ cClose /\ UNCHANGED <<cfile, evars, job>>
      \/ UNCHANGED <<evars, job, net>> /\ (cfile' = cfile \/ ~cfile.here)
      \/ /\ cpc \notin {"FREE", "CRASHED"}
         /\ conn = "reset" => UNCHANGED <<c2e, conn>>
         /\ UNCHANGED <<evars, job, cSock, cfile>>
  <2>1. CASE run_ReceiveHeader \/ processPutFile_Receive
    BY <2>1 DEF run_ReceiveHeader, processPutFile_Receive
  <2>2. CASE processPutFile_FileExistCheck \/ processPutFile_TransferReady
    BY <2>2 DEF processPutFile_FileExistCheck, processPutFile_TransferReady
  <2>3. CASE processPutFile_FileExistReturn \/ processPutFile_TransferEnd
    BY <2>3 DEF processPutFile_FileExistReturn, processPutFile_TransferEnd, cSend
  <2>4. CASE File_Transfer_Open
    BY <2>4 DEF File_Transfer_Open, IInv, Serving
  <2>5. CASE File_Transfer_Read \/ File_Transfer_Close
    BY <2>5 DEF File_Transfer_Read, File_Transfer_Close
  <2>6. CASE File_Transfer_Send
    BY <2>6 DEF File_Transfer_Send
  <2>7. CASE run_DeleteItem
    BY <2>7 DEF run_DeleteItem
  <2> QED
    BY <2>1, <2>2, <2>3, <2>4, <2>5, <2>6, <2>7 DEF Content
<1> QED
  BY <1>1, <1>2, <1>3, <1>4

LEMMA ExistReads ==
    ASSUME IInv, Reading, Storing, "split_header" \notin Faults,
           processGetFile_Get_Exist_Data
    PROVE  Reading' /\ Storing'
<1>1. /\ epc = "EXIST" /\ eRd = 0 /\ eRes = 0 /\ eRes' = 0
      /\ epc' \in {"READY", "DONE"}
      /\ UNCHANGED <<conn, cSock, c2e>>
  BY DEF processGetFile_Get_Exist_Data, Reading, net
<1>2. eRd' = 3 \/ eEnded'
  <2>1. CASE eEnded /\ UNCHANGED eRd
    BY <1>1, <2>1 DEF eEnded, eWaiting
  <2>2. CASE \E n \in {Lesser(HEADER_SIZE, eWaiting)} \ {0} : eRd' = eRd + n
    <3>1. eWaiting = Len(c2e) /\ Len(c2e) \in Nat
      BY <1>1, LenProperties DEF eWaiting, IInv, TypeOK
    <3>2. eRd' = Lesser(HEADER_SIZE, Len(c2e)) /\ Len(c2e) # 0
      BY <1>1, <2>2, <3>1 DEF Lesser
    <3>3. eRd' = 3 \/ (Len(c2e) \in {1, 2} /\ eRd' = Len(c2e))
      BY <3>1, <3>2 DEF Lesser
    <3>4. Len(c2e) \in {1, 2} => conn = "reset"
      BY DEF IInv, TypeOK, StreamLength
    <3>5. eRd' = Len(c2e) => eWaiting' = 0
      BY <1>1, <3>1 DEF eWaiting
    <3> QED
      BY <1>1, <3>3, <3>4, <3>5 DEF eEnded
  <2>3. ReadLens(HEADER_SIZE, eWaiting, "split_header" \in Faults)
            = {Lesser(HEADER_SIZE, eWaiting)} \ {0}
    BY DEF ReadLens
  <2>4. \/ eEnded /\ UNCHANGED eRd
        \/ \E n \in ReadLens(HEADER_SIZE, eWaiting, "split_header" \in Faults) :
               eRd' = eRd + n
    BY DEF processGetFile_Get_Exist_Data
  <2> QED
    BY <2>1, <2>2, <2>3, <2>4
<1>3. Reading'
  BY <1>1, <1>2 DEF Reading, STATUS_OK
<1>4. Storing'
  BY <1>1 DEF Storing
<1> QED
  BY <1>3, <1>4

LEMMA ReadySends ==
    ASSUME IInv, Reading, Storing, processGetFile_TRANSFER_READY
    PROVE  Reading' /\ Storing'
<1>1. /\ epc = "READY" /\ epc' = "OPEN" /\ eRes = 0
      /\ eSend(makeHeader(FILE_TRANSFER_CMD_TRANSFER_READY, STATUS_OK))
      /\ UNCHANGED <<eRes, eRd, cSock>>
  BY DEF processGetFile_TRANSFER_READY, Reading
<1>2. Kept /\ eRd <= Len(c2e') /\ conn' \in {"up", "reset"}
  BY <1>1, ESendEffect, HeaderType DEF IInv, Commands
<1>3. eRd = 3 \/ eEnded'
  BY <1>1, <1>2, EndedStays DEF Reading, IInv
<1> QED
  BY <1>1, <1>3 DEF Reading, Storing, STATUS_OK

LEMMA OpenStores ==
    ASSUME IInv, Reading, Storing, FILE_TRANSFER_Open
    PROVE  Reading' /\ Storing'
<1>1. /\ epc = "OPEN" /\ epc' = "RECV" /\ eRes = 0
      /\ eLeft' = dFileSize /\ dFileSize \in Nat
      /\ out'.data = << >>
      /\ UNCHANGED <<eRes, eRd, net, job>>
  BY DEF FILE_TRANSFER_Open, getFileSizeExist, fopenTruncate, IInv, Asking,
         TypeOK, Reading
<1>2. Stored' = 0
  BY <1>1 DEF Stored, job
<1>3. eEnded => eEnded'
  BY <1>1 DEF eEnded, eWaiting, net
<1>4. Reading'
  BY <1>1, <1>2, <1>3 DEF Reading, STATUS_OK
<1>5. Storing'
  BY <1>1, <1>2, TransferAssumption DEF Storing, Lesser, job
<1> QED
  BY <1>4, <1>5

LEMMA ReceiveStores ==
    ASSUME IInv, Reading, Storing, epc = "RECV",
           NEW n \in 1 .. Lesser(Lesser(FILE_BUF_SIZE, eLeft), eWaiting),
           ReceiveTurn(n, Arrived(n), n), UNCHANGED <<cvars, net, job>>
    PROVE  Reading' /\ Storing'
<1>1. /\ n \in Nat /\ n > 0 /\ n <= eLeft /\ n <= eWaiting
      /\ Arrived(n) \in Seq(Unit) /\ Len(Arrived(n)) = n
      /\ \A i \in 1 .. n : Arrived(n)[i] = c2e[eRd + i]
      /\ out' = [out EXCEPT !.data = fwrite(out.data, 0, Arrived(n), DiskRoom)]
      /\ eRd' = eRd + n /\ eLeft' = eLeft - n
      /\ UNCHANGED <<epc, eRes>>
  BY ReceiveEffect
<1>2. /\ Len(c2e) \in Nat /\ eRd \in Nat /\ eLeft \in Int /\ dFileSize \in Nat
      /\ out \in FileOf(Unit) /\ out.data \in Seq(Unit)
      /\ Len(out.data) \in Nat /\ DiskRoom \in Nat
  BY LenProperties, TransferAssumption DEF IInv, TypeOK, FileOf
<1>3. ~eEnded
  BY <1>1 DEF eEnded
<1>4. /\ eRd = 3 + Stored /\ eRes = 0
      /\ 0 <= eLeft /\ eLeft <= dFileSize
      /\ Len(out.data) = Lesser(DiskRoom, Stored)
      /\ \A i \in 1 .. Len(out.data) : out.data[i] = Wanted(i)
  BY <1>3 DEF Reading, Storing
<1>5. /\ Stored \in Nat /\ Stored' = Stored + n /\ Stored' <= dFileSize
      /\ 0 <= eLeft' /\ eLeft' <= dFileSize
  <2>1. dFileSize' = dFileSize /\ eLeft' = eLeft - n
    BY <1>1 DEF job
  <2>2. Stored = dFileSize - eLeft /\ Stored' = dFileSize - (eLeft - n)
    BY <2>1 DEF Stored
  <2>3. n \in Nat /\ n > 0 /\ n <= eLeft
    BY <1>1
  <2>4. 0 <= eLeft /\ eLeft <= dFileSize
    BY <1>4
  <2> QED
    BY <1>2, <2>1, <2>2, <2>3, <2>4
<1>6. 3 + Stored + n <= Len(c2e) /\ cfile.here
  <2>1. n \in Nat /\ n > 0 /\ n <= Len(c2e) - eRd /\ eRd = 3 + Stored
    BY <1>1, <1>4 DEF eWaiting
  <2>2. 3 + Stored + n <= Len(c2e) /\ Len(c2e) > 3
    BY <1>2, <1>5, <2>1
  <2> QED
    BY <2>2 DEF IInv, StreamIsFile
<1>7. /\ Len(out'.data) = Lesser(DiskRoom, Len(out.data) + n)
      /\ \A i \in 1 .. Len(out'.data) :
            out'.data[i] = IF i <= Len(out.data)
                           THEN out.data[i] ELSE Arrived(n)[i - Len(out.data)]
  <2>1. out'.data = fwrite(out.data, 0, Arrived(n), DiskRoom)
    BY <1>1, <1>2 DEF FileOf
  <2>2. Arrived(n) \in Seq(Unit) /\ Len(Arrived(n)) = n
    BY <1>1
  <2> DEFINE res == fwrite(out.data, 0, Arrived(n), DiskRoom)
  <2>3. /\ Len(res) = Lesser(DiskRoom, Len(out.data) + Len(Arrived(n)))
        /\ \A i \in 1 .. Len(res) :
              res[i] = IF i <= Len(out.data)
                       THEN out.data[i] ELSE Arrived(n)[i - Len(out.data)]
    BY <1>2, <2>2, FwriteType
  <2> QED
    BY <2>1, <2>2, <2>3
<1>8. Len(out'.data) = Lesser(DiskRoom, Stored + n)
  BY <1>1, <1>2, <1>4, <1>5, <1>7 DEF Lesser
<1>9. ASSUME NEW i \in 1 .. Len(out'.data)
      PROVE  out'.data[i] = Wanted(i)
  <2>1. i \in Nat /\ i >= 1 /\ i <= DiskRoom /\ i <= Stored + n
    BY <1>1, <1>2, <1>5, <1>8 DEF Lesser
  <2>2. CASE i <= Len(out.data)
    <3>1. i \in 1 .. Len(out.data)
      BY <1>2, <2>1, <2>2
    <3> QED
      BY <1>4, <1>7, <2>2, <3>1
  <2>3. CASE ~(i <= Len(out.data))
    <3>1. Len(out.data) = Stored /\ i - Stored \in 1 .. n
      <4>1. Len(out.data) = Lesser(DiskRoom, Stored) /\ n \in Nat
        BY <1>1, <1>4
      <4>2. Len(out.data) = Stored
        BY <1>2, <1>5, <2>1, <2>3, <4>1 DEF Lesser
      <4> QED
        BY <1>5, <2>1, <2>3, <4>1, <4>2
    <3>2. out'.data[i] = c2e[eRd + (i - Stored)]
      BY <1>1, <1>7, <2>3, <3>1
    <3>3. eRd + (i - Stored) = 3 + i
      BY <1>4, <1>5, <2>1
    <3>4. 3 + i \in 1 .. Len(c2e) /\ 3 < 3 + i /\ 3 + i <= 3 + dFileSize
      <4>1. n \in Nat
        BY <1>1
      <4>2. i <= dFileSize
        BY <1>2, <1>5, <2>1, <4>1
      <4>3. 3 + i <= Len(c2e)
        BY <1>2, <1>5, <1>6, <2>1, <4>1
      <4> QED
        BY <1>2, <2>1, <4>2, <4>3
    <3>5. c2e[3 + i] = Wanted((3 + i) - 3)
      BY <3>4 DEF IInv, StreamIsFile
    <3>6. (3 + i) - 3 = i
      BY <2>1
    <3> QED
      BY <3>2, <3>3, <3>5, <3>6
  <2> QED
    BY <2>2, <2>3
<1>10. Reading'
  BY <1>1, <1>4, <1>5 DEF Reading
<1>11. Storing'
  BY <1>5, <1>6, <1>8, <1>9 DEF Storing, Wanted, cvars, job
<1> QED
  BY <1>10, <1>11

LEMMA EncodeStep ==
    ASSUME IInv, Reading, Storing, "split_header" \notin Faults, Encode
    PROVE  Reading' /\ Storing'
<1>1. CASE processGetFile_START
  BY <1>1 DEF processGetFile_START, Reading, Storing, STATUS_OK
<1>2. CASE processGetFile_Get_Exist_Data
  BY <1>2, ExistReads
<1>3. CASE processGetFile_TRANSFER_READY
  BY <1>3, ReadySends
<1>4. CASE FILE_TRANSFER_Open
  BY <1>4, OpenStores
<1>5. CASE FILE_TRANSFER_Receive
  <2>1. epc = "RECV" /\ UNCHANGED <<ectl, eStatus, cvars, net, job, src>>
    BY <1>5 DEF FILE_TRANSFER_Receive
  <2>2. CASE ReceiveFails
    <3>1. /\ eRes' = STATUS_ERR /\ epc' = "END"
          /\ UNCHANGED <<out, eLeft, cfile, dFileSize>>
      BY <2>1, <2>2 DEF ReceiveFails, cvars, job
    <3>2. Reading'
      BY <3>1 DEF Reading, STATUS_OK, STATUS_ERR
    <3>3. Storing'
      BY <2>1, <3>1 DEF Storing, Stored, Wanted
    <3> QED
      BY <3>2, <3>3
  <2> QED
    BY <1>5, <2>1, <2>2, ReceiveStores DEF FILE_TRANSFER_Receive
<1>6. CASE FILE_TRANSFER_Close
  <2>1. /\ epc = "RECV" /\ epc' = "END" /\ ~(eLeft > 0)
        /\ UNCHANGED <<out, eLeft, cfile, dFileSize>>
    BY <1>6 DEF FILE_TRANSFER_Close, cvars, job, IInv, TypeOK
  <2>2. eLeft = 0
    BY <2>1 DEF Storing, IInv, TypeOK
  <2>3. Reading'
    BY <2>1, <2>2 DEF Reading
  <2>4. Storing'
    BY <2>1 DEF Storing, Stored, Wanted
  <2> QED
    BY <2>3, <2>4
<1>7. CASE processGetFile_TRANSFER_END
  <2>1. /\ epc = "END" /\ epc' = "DONE"
        /\ UNCHANGED <<out, eLeft, eRes, cfile, dFileSize>>
    BY <1>7 DEF processGetFile_TRANSFER_END, cvars, job
  <2>2. Reading'
    BY <2>1 DEF Reading
  <2>3. Storing'
    BY <2>1 DEF Storing, Stored, Wanted
  <2> QED
    BY <2>2, <2>3
<1>8. CASE exit
  <2>1. epc = "DONE" /\ UNCHANGED <<evars, cfile, dFileSize>>
    BY <1>8 DEF exit, cvars, job
  <2>2. Reading'
    BY <2>1 DEF Reading, evars
  <2>3. Storing'
    BY <2>1 DEF Storing, Stored, Wanted, evars
  <2> QED
    BY <2>2, <2>3
<1> QED
  BY <1>1, <1>2, <1>3, <1>4, <1>5, <1>6, <1>7, <1>8 DEF Encode

(* A crash in step 10 loses a part of the file, and leaves no result.      *)
LEMMA CrashStep ==
    ASSUME IInv, Reading, Storing, EncodeCrash
    PROVE  Reading' /\ Storing'
<1>1. /\ epc' = "CRASHED"
      /\ epc # "RECV" => UNCHANGED out
      /\ UNCHANGED <<eLeft, eRes, cfile, dFileSize>>
  BY DEF EncodeCrash, cvars, job
<1>2. Reading'
  BY <1>1 DEF Reading
<1>3. Storing'
  <2>1. epc = "RECV" => eRes = 0
    BY DEF Reading
  <2> QED
    BY <1>1, <2>1 DEF Storing, Stored, Wanted
<1> QED
  BY <1>2, <1>3

LEMMA NextStores ==
    ASSUME IInv, Reading, Storing, "split_header" \notin Faults, [Next]_vars
    PROVE  Reading' /\ Storing'
<1>1. CASE Encode
  BY <1>1, EncodeStep
<1>2. CASE Content
  BY <1>2, ContentStep, OtherStep
<1>3. CASE EncodeCrash
  BY <1>3, CrashStep
<1>4. CASE NetworkReset
  <2>1. /\ conn' = "reset" /\ Abort(c2e, eRd)
        /\ UNCHANGED <<cSock, evars, cvars, job>>
    BY <1>4 DEF NetworkReset
  <2>2. c2e \in Seq(Unit) /\ eRd \in 0 .. Len(c2e)
    BY LenProperties DEF IInv, TypeOK
  <2>3. Kept /\ eRd <= Len(c2e')
    BY <2>1, <2>2, AbortType DEF Abort, Kept
  <2>4. eEnded => eEnded'
    BY <2>1, <2>3, EndedStays DEF IInv, evars
  <2> QED
    BY <2>1, <2>4, OtherStep DEF cvars, job
<1>5. CASE SourceChange \/ UNCHANGED vars
  <2>1. UNCHANGED <<evars, cvars, net, job>>
    BY <1>5 DEF SourceChange, vars
  <2>2. eEnded => eEnded'
    BY <2>1 DEF eEnded, eWaiting, evars, net
  <2> QED
    BY <2>1, <2>2, OtherStep DEF cvars, job
<1> QED
  BY <1>1, <1>2, <1>3, <1>4, <1>5 DEF Next

LEMMA InitStores == Init => Reading /\ Storing
BY DEF Init, Reading, Storing, STATUS_OK

THEOREM StoringHolds ==
    ASSUME "split_header" \notin Faults
    PROVE  Spec => [](IInv /\ Reading /\ Storing)
<1>1. Init => IInv /\ Reading /\ Storing
  BY InitIInv, InitStores
<1>2. IInv /\ Reading /\ Storing /\ [Next]_vars => (IInv /\ Reading /\ Storing)'
  BY NextIInv, NextStores
<1> QED
  BY <1>1, <1>2, PTL DEF Spec

LEMMA RequestedType ==
    ASSUME TypeOK
    PROVE  /\ Requested \in Seq(Unit) /\ Len(Requested) = dFileSize
           /\ \A i \in 1 .. dFileSize : Requested[i] = Wanted(i)
<1>1. cfile.data \in Seq(DataUnit) /\ dFileSize \in Nat
  BY DEF TypeOK, FileOf
<1>2. /\ Requested \in Seq(DataUnit) /\ Len(Requested) = dFileSize
      /\ \A i \in 1 .. dFileSize :
            Requested[i] = IF 0 + i <= Len(cfile.data)
                           THEN cfile.data[0 + i] ELSE ZeroUnit
  BY <1>1, FreadType DEF Requested
<1>3. \A i \in 1 .. dFileSize : 0 + i = i
  BY <1>1
<1>4. Requested \in Seq(Unit)
  BY <1>2, UnitTypes, SeqMonotonic
<1> QED
  BY <1>2, <1>3, <1>4 DEF Wanted

(* Short reads, a full disk, a crash or an abort at any point: the output  *)
(* of step 10 is a beginning of the source, as long as no read splits a    *)
(* HEADER.                                                                 *)
THEOREM OutputIsAPrefix ==
    ASSUME "split_header" \notin Faults
    PROVE  Spec => []OutputIsPrefix
<1>1. IInv /\ Storing => OutputIsPrefix
  <2> SUFFICES ASSUME IInv, Storing, epc = "RECV" \/ eRes # 0
               PROVE  IsPrefix(out.data, Requested)
    BY DEF OutputIsPrefix
  <2>1. /\ Requested \in Seq(Unit) /\ Len(Requested) = dFileSize
        /\ \A i \in 1 .. dFileSize : Requested[i] = Wanted(i)
    BY RequestedType DEF IInv
  <2>2. /\ out.data \in Seq(Unit) /\ dFileSize \in Nat /\ eLeft \in Int
        /\ Len(out.data) \in Nat /\ DiskRoom \in Nat
    BY LenProperties, TransferAssumption DEF IInv, TypeOK, FileOf
  <2>3. /\ Len(out.data) <= dFileSize
        /\ \A i \in 1 .. Len(out.data) : out.data[i] = Wanted(i)
    BY <2>2 DEF Storing, Stored, Lesser
  <2>4. \A i \in 1 .. Len(out.data) :
           i \in 1 .. dFileSize /\ out.data[i] = Requested[i]
    BY <2>1, <2>2, <2>3
  <2> QED
    BY <2>1, <2>2, <2>3, <2>4, PrefixWhen
<1> QED
  BY <1>1, StoringHolds, PTL

(* If the disk has room for what may be requested, the code's "OK" means   *)
(* that the output is exactly what was requested.                          *)
THEOREM OkMeansComplete ==
    ASSUME "split_header" \notin Faults, \A n \in Sizes : n <= DiskRoom
    PROVE  Spec => []ResultIsHonest
<1> DEFINE Requestable == dFileSize \in Sizes
<1>1. Init => Requestable
  BY DEF Init
<1>2. Requestable /\ [Next]_vars => Requestable'
  <2>1. [Next]_vars => UNCHANGED dFileSize
    BY DEF Next, Encode, Content, vars, job, processGetFile_START,
           processGetFile_Get_Exist_Data, processGetFile_TRANSFER_READY,
           FILE_TRANSFER_Open, FILE_TRANSFER_Receive, FILE_TRANSFER_Close,
           processGetFile_TRANSFER_END, exit, run_ReceiveHeader,
           processPutFile_Receive, processPutFile_FileExistCheck,
           processPutFile_FileExistReturn, processPutFile_TransferReady,
           File_Transfer_Open, File_Transfer_Read, File_Transfer_Send,
           File_Transfer_Close, processPutFile_TransferEnd, run_DeleteItem,
           NetworkReset, EncodeCrash, SourceChange
  <2> QED
    BY <2>1
<1>3. IInv /\ Reading /\ Storing /\ Requestable => ResultIsHonest
  <2> SUFFICES ASSUME IInv, Reading, Storing, Requestable, eRes = STATUS_OK
               PROVE  out.data = Requested
    BY DEF ResultIsHonest
  <2>1. /\ Requested \in Seq(Unit) /\ Len(Requested) = dFileSize
        /\ \A i \in 1 .. dFileSize : Requested[i] = Wanted(i)
    BY RequestedType DEF IInv
  <2>2. out.data \in Seq(Unit) /\ dFileSize \in Nat /\ eLeft = 0
    BY DEF IInv, TypeOK, FileOf, Reading
  <2>3. /\ Len(out.data) = Lesser(DiskRoom, dFileSize)
        /\ \A i \in 1 .. Len(out.data) : out.data[i] = Wanted(i)
    BY <2>2 DEF Storing, Stored, STATUS_OK
  <2>4. Len(out.data) = dFileSize
    BY <2>2, <2>3, TransferAssumption DEF Lesser
  <2> QED
    BY <2>1, <2>2, <2>3, <2>4, SeqEqual
<1> HIDE DEF Requestable
<1>4. Spec => [](IInv /\ Reading /\ Storing)
  BY StoringHolds
<1> QED
  BY <1>1, <1>2, <1>3, <1>4, PTL DEF Spec
=============================================================================
