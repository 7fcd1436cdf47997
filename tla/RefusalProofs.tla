--------------------------- MODULE RefusalProofs ----------------------------
(***************************************************************************)
(* A refusal whose nStatus has been read destroys nothing: for all files,  *)
(* sizes and buffers and under every fault of FileTransfer.                *)
(***************************************************************************)
EXTENDS FileTransferProofs

(* The nStatus that step 5 sends.                                          *)
Answer == IF fileExist(cctl) THEN STATUS_OK ELSE STATUS_ERR

(* What the encode worker knows is what step 4 has found, which no later   *)
(* step looks up again; and a worker that knows of a refusal is at its end.*)
Answering ==
    /\ epc \in {"START", "EXIST"} => out = old /\ eStatus = 0 /\ eRd = 0
    /\ eStatus = STATUS_ERR => out = old /\ epc \in {"DONE", "CRASHED"}
    /\ cpc \in {"HEADER", "INFO", "CHECK", "REPLY"} => c2e = << >>
    /\ c2e # << >> /\ IsHeader(c2e[1], FILE_TRANSFER_CMD_EXIST_CHECK)
           => c2e[1].val = Answer
    /\ eStatus # 0 =>
           eStatus = Answer /\ cpc \notin {"HEADER", "INFO", "CHECK", "REPLY"}

(* A step that takes nothing but the end of the stream away.               *)
KeepsFirst == c2e' # << >> => c2e # << >> /\ c2e'[1] = c2e[1]

LEMMA KeptFirst ==
    ASSUME TypeOK, Kept
    PROVE  KeepsFirst
<1>1. /\ c2e \in Seq(Unit) /\ c2e' \in Seq(Unit)
      /\ Len(c2e) \in Nat /\ Len(c2e') \in Nat /\ Len(c2e') <= Len(c2e)
      /\ \A i \in 1 .. Len(c2e') : c2e'[i] = c2e[i]
  BY LenProperties DEF TypeOK, Kept
<1>2. c2e' # << >> => Len(c2e') > 0
  BY <1>1, EmptySeq
<1>3. Len(c2e) > 0 => c2e # << >>
  BY EmptySeq
<1> QED
  BY <1>1, <1>2, <1>3 DEF KeepsFirst

(* What leaves the encode worker and the content worker where they are.    *)
LEMMA OthersAnswering ==
    ASSUME Answering, KeepsFirst, UNCHANGED <<cpc, cctl, eStatus, old>>,
           epc' # epc => epc' \in {"DONE", "CRASHED"},
           eStatus = STATUS_ERR => out' = out,
           epc' \in {"START", "EXIST"} => UNCHANGED <<out, eRd>>
    PROVE  Answering'
<1>1. c2e' # << >> => c2e # << >> /\ c2e'[1] = c2e[1]
  BY DEF KeepsFirst
<1>2. Answer' = Answer
  BY DEF Answer, fileExist
<1> QED
  BY <1>1, <1>2 DEF Answering, IsHeader

-----------------------------------------------------------------------------
(***************************************************************************)
(* The encode side.                                                        *)
(***************************************************************************)
LEMMA ExistAnswering ==
    ASSUME IInv, Answering, processGetFile_Get_Exist_Data
    PROVE  Answering'
<1>1. /\ epc = "EXIST" /\ out = old /\ eStatus = 0 /\ eRd = 0
      /\ epc' \in {"READY", "DONE"}
      /\ UNCHANGED <<out, old, c2e, cpc, cctl>>
  BY DEF processGetFile_Get_Exist_Data, Answering, cvars, net, job
<1>2. Answer' = Answer
  BY <1>1 DEF Answer, fileExist
<1>3. /\ eStatus' = STATUS_ERR => epc' = "DONE"
      /\ eStatus' # 0 => eStatus' = Answer /\ c2e # << >>
  <2>1. CASE eStatus' = eStatus
    BY <1>1, <2>1 DEF STATUS_ERR
  <2>2. CASE \E n \in ReadLens(HEADER_SIZE, eWaiting, "split_header" \in Faults) :
               /\ IsHeader(c2e[eRd + 1], FILE_TRANSFER_CMD_EXIST_CHECK)
               /\ eStatus' = nStatus(c2e[eRd + 1], n)
               /\ epc' = IF eStatus' = STATUS_ERR THEN "DONE" ELSE "READY"
    <3>1. PICK n \in ReadLens(HEADER_SIZE, eWaiting, "split_header" \in Faults) :
             /\ IsHeader(c2e[eRd + 1], FILE_TRANSFER_CMD_EXIST_CHECK)
             /\ eStatus' = nStatus(c2e[eRd + 1], n)
      BY <2>2
    <3>2. c2e # << >>
      <4> SUFFICES ASSUME c2e = << >> PROVE FALSE
        OBVIOUS
      <4>1. eWaiting = 0
        BY <1>1, EmptySeq DEF eWaiting
      <4> QED
        BY <3>1, <4>1 DEF ReadLens, Lesser, HEADER_SIZE
    <3>3. c2e[1].val = Answer
      BY <1>1, <3>1, <3>2 DEF Answering
    <3> QED
      BY <1>1, <2>2, <3>1, <3>2, <3>3 DEF nStatus
  <2> QED
    BY <2>1, <2>2 DEF processGetFile_Get_Exist_Data
<1> QED
  BY <1>1, <1>2, <1>3 DEF Answering

LEMMA EncodeAnswering ==
    ASSUME IInv, Answering, Encode
    PROVE  Answering'
<1>1. CASE processGetFile_START
  <2>1. makeData(makeHeader(FILE_TRANSFER_CMD_START, STATUS_OK), 0) \in Seq(Unit)
    BY RequestType
  <2>2. /\ epc = "START" /\ epc' = "EXIST"
        /\ eSend(makeData(makeHeader(FILE_TRANSFER_CMD_START, STATUS_OK), 0))
        /\ UNCHANGED <<eStatus, eRd, out, old, cpc, cctl>>
    BY <1>1 DEF processGetFile_START, cvars, job
  <2>3. KeepsFirst
    BY <2>1, <2>2, ESendEffect, KeptFirst DEF IInv
  <2>4. c2e' # << >> => c2e # << >> /\ c2e'[1] = c2e[1]
    BY <2>3 DEF KeepsFirst
  <2>5. Answer' = Answer
    BY <2>2 DEF Answer, fileExist
  <2> QED
    BY <2>2, <2>4, <2>5 DEF Answering, IsHeader, STATUS_ERR
<1>2. CASE processGetFile_Get_Exist_Data
  BY <1>2, ExistAnswering
<1>3. CASE processGetFile_TRANSFER_READY
  <2>1. makeHeader(FILE_TRANSFER_CMD_TRANSFER_READY, STATUS_OK) \in Seq(Unit)
    BY HeaderType DEF Commands
  <2>2. /\ epc = "READY" /\ epc' = "OPEN"
        /\ eSend(makeHeader(FILE_TRANSFER_CMD_TRANSFER_READY, STATUS_OK))
        /\ UNCHANGED <<eStatus, eRd, out, old, cpc, cctl>>
    BY <1>3 DEF processGetFile_TRANSFER_READY, cvars, job
  <2>3. KeepsFirst
    BY <2>1, <2>2, ESendEffect, KeptFirst DEF IInv
  <2>4. c2e' # << >> => c2e # << >> /\ c2e'[1] = c2e[1]
    BY <2>3 DEF KeepsFirst
  <2>5. Answer' = Answer
    BY <2>2 DEF Answer, fileExist
  <2> QED
    BY <2>2, <2>4, <2>5 DEF Answering, IsHeader
<1>4. CASE FILE_TRANSFER_Open \/ FILE_TRANSFER_Receive \/ FILE_TRANSFER_Close
           \/ processGetFile_TRANSFER_END
  <2>1. /\ epc \in {"OPEN", "RECV", "END"} /\ epc' \in {"RECV", "END", "DONE"}
        /\ UNCHANGED <<eStatus, old, c2e, cpc, cctl>>
    BY <1>4 DEF FILE_TRANSFER_Open, FILE_TRANSFER_Receive, ReceiveTurn,
       ReceiveFails, FILE_TRANSFER_Close, processGetFile_TRANSFER_END, cvars,
       net, job
  <2>2. Answer' = Answer
    BY <2>1 DEF Answer, fileExist
  <2> QED
    BY <2>1, <2>2 DEF Answering
<1>5. CASE exit
  <2>1. eClose /\ UNCHANGED <<epc, eStatus, eRd, out, old, cpc, cctl>>
    BY <1>5 DEF exit, evars, cvars, job
  <2>2. KeepsFirst
    BY <2>1, ECloseEffect DEF IInv, KeepsFirst
  <2> QED
    BY <2>1, <2>2, OthersAnswering
<1> QED
  BY <1>1, <1>2, <1>3, <1>4, <1>5 DEF Encode

-----------------------------------------------------------------------------
(***************************************************************************)
(* The content side.                                                       *)
(***************************************************************************)

(* After step 5 nothing is appended that looks like its answer.            *)
LEMMA AppendAnswering ==
    ASSUME IInv, Answering, UNCHANGED <<evars, cctl, old>>,
           cpc' \notin {"HEADER", "INFO", "CHECK", "REPLY"},
           cpc \notin {"HEADER", "INFO", "CHECK"},
           NEW units \in Seq(Unit), c2e' = c2e \o units, units # << >>,
           IsHeader(units[1], FILE_TRANSFER_CMD_EXIST_CHECK)
               => units[1].val = Answer
    PROVE  Answering'
<1>1. c2e \in Seq(Unit) /\ Len(c2e) \in Nat /\ Len(units) \in Nat
  BY LenProperties DEF IInv, TypeOK
<1>2. \A i \in 1 .. Len(c2e) + Len(units) :
         c2e'[i] = IF i <= Len(c2e) THEN c2e[i] ELSE units[i - Len(c2e)]
  BY <1>1, ConcatProperties
<1>3. Answer' = Answer
  BY DEF Answer, fileExist
<1>4. IsHeader(c2e'[1], FILE_TRANSFER_CMD_EXIST_CHECK) => c2e'[1].val = Answer
  <2>1. CASE c2e = << >>
    BY <1>1, <2>1, ConcatEmptySeq
  <2>2. CASE c2e # << >>
    <3>1. Len(c2e) > 0
      BY <1>1, <2>2, EmptySeq
    <3>2. c2e'[1] = c2e[1]
      BY <1>1, <1>2, <3>1
    <3> QED
      BY <2>2, <3>2 DEF Answering
  <2> QED
    BY <2>1, <2>2
<1> QED
  BY <1>3, <1>4 DEF Answering, evars

(* A step that leaves the stream alone, or cuts its end.                   *)
LEMMA CutAnswering ==
    ASSUME Answering, KeepsFirst, UNCHANGED <<evars, old>>,
           cpc' \in {"HEADER", "INFO", "CHECK", "REPLY"}
               => cpc \in {"HEADER", "INFO", "CHECK", "REPLY"},
           cctl' = cctl \/ cpc = "CHECK"
    PROVE  Answering'
<1>1. c2e' # << >> => c2e # << >> /\ c2e'[1] = c2e[1]
  BY DEF KeepsFirst
<1>2. cctl' = cctl => Answer' = Answer
  BY DEF Answer, fileExist
<1> QED
  BY <1>1, <1>2 DEF Answering, IsHeader, evars

LEMMA ReplyAnswering ==
    ASSUME IInv, Answering, processPutFile_FileExistReturn
    PROVE  Answering'
<1> DEFINE reply == makeHeader(FILE_TRANSFER_CMD_EXIST_CHECK, Answer)
<1>1. /\ cpc = "REPLY" /\ cpc' = "READY" /\ cSend(reply)
      /\ UNCHANGED <<evars, cctl, old>>
  BY DEF processPutFile_FileExistReturn, Answer, job
<1>2. reply \in Seq(Unit) /\ Len(reply) = 3
  BY HeaderType DEF Commands, Answer
<1>3. reply[1].val = Answer
  BY DEF makeHeader
<1> HIDE DEF reply
<1>4. reply # << >>
  BY <1>2, EmptySeq
<1>5. CASE c2e' = c2e \o reply
  BY <1>1, <1>2, <1>3, <1>4, <1>5, AppendAnswering
<1>6. CASE c2e' = c2e
  BY <1>1, <1>6, CutAnswering DEF KeepsFirst
<1> QED
  BY <1>1, <1>5, <1>6 DEF cSend

LEMMA EndAnswering ==
    ASSUME IInv, Answering, processPutFile_TransferEnd
    PROVE  Answering'
<1> DEFINE end == makeHeader(FILE_TRANSFER_CMD_TRANSFER_END, STATUS_OK)
<1>1. /\ cpc = "END" /\ cpc' = "CLOSE" /\ cSend(end)
      /\ UNCHANGED <<evars, cctl, old>>
  BY DEF processPutFile_TransferEnd, job
<1>2. end \in Seq(Unit) /\ Len(end) = 3
  BY HeaderType DEF Commands
<1>3. ~IsHeader(end[1], FILE_TRANSFER_CMD_EXIST_CHECK)
  BY DEF makeHeader, IsHeader, FILE_TRANSFER_CMD_TRANSFER_END,
         FILE_TRANSFER_CMD_EXIST_CHECK
<1> HIDE DEF end
<1>4. end # << >>
  BY <1>2, EmptySeq
<1>5. CASE c2e' = c2e \o end
  BY <1>1, <1>2, <1>3, <1>4, <1>5, AppendAnswering
<1>6. CASE c2e' = c2e
  BY <1>1, <1>6, CutAnswering DEF KeepsFirst
<1> QED
  BY <1>1, <1>5, <1>6 DEF cSend

LEMMA SendAnswering ==
    ASSUME IInv, Answering, File_Transfer_Send
    PROVE  Answering'
<1>1. /\ cpc = "SEND" /\ cpc' \in {"READ", "SEND", "END"}
      /\ UNCHANGED <<evars, cctl, old>>
  BY DEF File_Transfer_Send, job
<1>2. CASE c2e' = c2e
  BY <1>1, <1>2, CutAnswering DEF KeepsFirst
<1>3. CASE c2e' # c2e
  <2> DEFINE k == Lesser(cRoom, Len(cBuf))
             part == Cut(cBuf, k)
  <2>1. k > 0 /\ c2e' = c2e \o part
    BY <1>3 DEF File_Transfer_Send
  <2>2. cBuf \in Seq(DataUnit) /\ Len(cBuf) \in Nat
    BY LenProperties DEF IInv, TypeOK
  <2>3. cRoom \in Int
    BY LenProperties, TransferAssumption DEF cRoom, eWaiting, IInv, TypeOK
  <2>4. k \in 0 .. Len(cBuf)
    BY <2>1, <2>2, <2>3 DEF Lesser
  <2> HIDE DEF k
  <2>5. part \in Seq(DataUnit) /\ Len(part) = k
    BY <2>2, <2>4, CutType
  <2> HIDE DEF part
  <2>6. part \in Seq(Unit) /\ part # << >>
    BY <2>1, <2>5, UnitTypes, SeqMonotonic, EmptySeq
  <2>7. ~IsHeader(part[1], FILE_TRANSFER_CMD_EXIST_CHECK)
    <3>1. part[1] \in DataUnit
      BY <2>1, <2>4, <2>5, ElementOfSeq
    <3> QED
      BY <3>1 DEF DataUnit, IsHeader, FILE_TRANSFER_CMD_EXIST_CHECK
  <2> QED
    BY <1>1, <2>1, <2>6, <2>7, AppendAnswering
<1> QED
  BY <1>2, <1>3

LEMMA ContentAnswering ==
    ASSUME IInv, Answering, Content
    PROVE  Answering'
<1>1. CASE run_ReceiveHeader \/ processPutFile_Receive
           \/ processPutFile_FileExistCheck \/ processPutFile_TransferReady
           \/ File_Transfer_Read \/ File_Transfer_Close
  <2>1. /\ UNCHANGED <<evars, old, c2e>>
        /\ cpc' \in {"HEADER", "INFO", "CHECK", "REPLY"}
               => cpc \in {"HEADER", "INFO", "CHECK", "REPLY"}
        /\ cctl' = cctl \/ cpc = "CHECK"
    BY <1>1 DEF run_ReceiveHeader, processPutFile_Receive, File_Transfer_Read,
       processPutFile_FileExistCheck, processPutFile_TransferReady,
       File_Transfer_Close, net, job
  <2> QED
    BY <2>1, CutAnswering DEF KeepsFirst
<1>2. CASE File_Transfer_Open \/ run_DeleteItem
  <2>1. /\ UNCHANGED <<evars, old, cctl>> /\ (cClose \/ UNCHANGED c2e)
        /\ cpc' \notin {"HEADER", "INFO", "CHECK", "REPLY"}
    BY <1>2 DEF File_Transfer_Open, run_DeleteItem, net, job
  <2>2. KeepsFirst
    BY <2>1, CCloseEffect, KeptFirst DEF IInv, KeepsFirst
  <2> QED
    BY <2>1, <2>2, CutAnswering
<1> QED
  BY <1>1, <1>2, ReplyAnswering, EndAnswering, SendAnswering DEF Content

-----------------------------------------------------------------------------
LEMMA NextAnswering ==
    ASSUME IInv, Answering, [Next]_vars
    PROVE  Answering'
<1>1. CASE NetworkReset
  <2>1. /\ conn' = "reset" /\ Abort(c2e, eRd)
        /\ UNCHANGED <<evars, cpc, cctl, old>>
    BY <1>1 DEF NetworkReset, cvars, job
  <2>2. c2e \in Seq(Unit) /\ eRd \in 0 .. Len(c2e)
    BY LenProperties DEF IInv, TypeOK
  <2>3. Kept
    BY <2>1, <2>2, AbortType DEF Abort, Kept
  <2> QED
    BY <2>1, <2>3, KeptFirst, OthersAnswering DEF IInv, evars
<1>2. CASE EncodeCrash
  <2>1. /\ eClose /\ epc' = "CRASHED"
        /\ UNCHANGED <<cpc, cctl, eStatus, old>>
        /\ eStatus = STATUS_ERR => out' = out
    BY <1>2 DEF EncodeCrash, Answering, cvars, job
  <2>2. KeepsFirst
    BY <2>1, ECloseEffect DEF IInv, KeepsFirst
  <2> QED
    BY <2>1, <2>2, OthersAnswering
<1>3. CASE SourceChange \/ UNCHANGED vars
  <2>1. UNCHANGED <<evars, cpc, cctl, c2e, old>>
    BY <1>3 DEF SourceChange, vars, cvars, net, job
  <2> QED
    BY <2>1, OthersAnswering DEF evars, KeepsFirst
<1> QED
  BY <1>1, <1>2, <1>3, EncodeAnswering, ContentAnswering DEF Next

(* A job for which step 4 found no file, and of whose answer nStatus has   *)
(* been read, leaves the old output file as it is, whatever fails or       *)
(* changes afterwards: what was read is what step 4 has found, and such a  *)
(* worker is at its end.                                                   *)
THEOREM RefusalsDestroyNothing == Spec => []RefusalRespected
<1>1. Init => Answering
  BY EmptySeq DEF Init, Answering, STATUS_ERR
<1>2. IInv /\ Answering /\ [Next]_vars => Answering'
  BY NextAnswering
<1>3. Answering => RefusalRespected
  BY DEF Answering, Answer, RefusalRespected
<1> QED
  BY <1>1, <1>2, <1>3, InvariantHolds, PTL DEF Spec
=============================================================================
