---------------------------- MODULE FileCopyProofs --------------------------
(***************************************************************************)
(* The transfer implements the copy of a file.                             *)
(***************************************************************************)
EXTENDS FileTransferProofs

-----------------------------------------------------------------------------
(***************************************************************************)
(* The actions of FileCopy, in terms of the variables of the transfer.     *)
(***************************************************************************)
CopyStep == [Copy!CopyNext]_(Copy!fcvars)

LEMMA CopyStutters ==
    ASSUME UNCHANGED <<copyPhase, cfile, out, dFileSize>>
    PROVE  CopyStep
BY DEF CopyStep, Copy!fcvars

LEMMA CopyOpensSource ==
    ASSUME ~cfile.here, cfile' \in FileOf(DataUnit), cfile'.here,
           copyPhase = "copying" => out.data = << >>,
           UNCHANGED <<copyPhase, out, dFileSize>>
    PROVE  CopyStep
BY DEF CopyStep, Copy!CopyNext, Copy!OpenSource, FileOf, Copy!FileOf,
       DataUnit, Copy!DataUnit

LEMMA CopyBegins ==
    ASSUME copyPhase = "asking", copyPhase' = "copying", out' = fopenTruncate,
           UNCHANGED <<cfile, dFileSize>>
    PROVE  CopyStep
BY DEF CopyStep, Copy!CopyNext, Copy!Begin, fopenTruncate, Copy!fopenTruncate

LEMMA CopyContents == Copy!Contents = Requested
BY DEF Copy!Contents, Requested, fread, Copy!fread, ZeroUnit, Copy!ZeroUnit,
       Data, Copy!Data

LEMMA CopyExtends ==
    ASSUME copyPhase = "copying", cfile.here, out'.here,
           IsPrefix(out.data, out'.data), IsPrefix(out'.data, Requested),
           UNCHANGED <<copyPhase, cfile, dFileSize>>
    PROVE  CopyStep
<1>1. IsPrefix(out'.data, Copy!Contents)
  BY CopyContents
<1> QED
  BY <1>1 DEF CopyStep, Copy!CopyNext, Copy!Extend, IsPrefix, Copy!IsPrefix

LEMMA CopyFinishes ==
    ASSUME copyPhase = "copying", copyPhase' = "ok", out.data = Requested,
           UNCHANGED <<cfile, out, dFileSize>>
    PROVE  CopyStep
BY CopyContents DEF CopyStep, Copy!CopyNext, Copy!Finish

LEMMA CopyFails ==
    ASSUME copyPhase \in {"asking", "copying"}, copyPhase' = "failed",
           IF copyPhase = "asking"
           THEN out' = out
           ELSE out'.here /\ IsPrefix(out'.data, out.data),
           UNCHANGED <<cfile, dFileSize>>
    PROVE  CopyStep
BY DEF CopyStep, Copy!CopyNext, Copy!Fail, IsPrefix, Copy!IsPrefix

-----------------------------------------------------------------------------
(***************************************************************************)
(* Two clauses that the refinement needs and the safety of the transfer    *)
(* does not: step 10 has an output file, and it never ends without a       *)
(* result.                                                                 *)
(***************************************************************************)
Results ==
    /\ epc = "RECV" => out.here
    /\ epc = "END" => eRes # 0

LEMMA InitResults == Init => Results
BY DEF Init, Results

LEMMA NextResults ==
    ASSUME IInv, Results, [Next]_vars
    PROVE  Results'
<1>1. CASE Content
  BY <1>1, ContentStep DEF Results, evars
<1>2. CASE NetworkReset \/ SourceChange \/ UNCHANGED vars
  BY <1>2 DEF NetworkReset, SourceChange, vars, evars, Results
<1>3. CASE EncodeCrash
  BY <1>3 DEF EncodeCrash, Results
<1>4. CASE \/ processGetFile_START \/ processGetFile_Get_Exist_Data
           \/ processGetFile_TRANSFER_READY \/ processGetFile_TRANSFER_END
  BY <1>4 DEF processGetFile_START, processGetFile_Get_Exist_Data,
              processGetFile_TRANSFER_READY, processGetFile_TRANSFER_END,
              Results
<1>5. CASE FILE_TRANSFER_Open
  BY <1>5 DEF FILE_TRANSFER_Open, fopenTruncate, Results
<1>6. CASE FILE_TRANSFER_Receive
  <2>1. out \in FileOf(Unit)
    BY DEF IInv, TypeOK
  <2>2. CASE ReceiveFails
    BY <2>2 DEF ReceiveFails, Results, STATUS_ERR
  <2>3. ASSUME NEW n, ReceiveTurn(n, Arrived(n), n)
        PROVE  Results'
    <3>1. out'.here = out.here
      BY <2>1, <2>3 DEF ReceiveTurn, FileOf
    <3> QED
      BY <2>3, <3>1 DEF ReceiveTurn, Results
  <2> QED
    BY <1>6, <2>2, <2>3 DEF FILE_TRANSFER_Receive
<1>7. CASE FILE_TRANSFER_Close
  BY <1>7 DEF FILE_TRANSFER_Close, Results, STATUS_OK
<1>8. CASE exit
  BY <1>8 DEF exit, evars, Results
<1> QED
  BY <1>1, <1>2, <1>3, <1>4, <1>5, <1>6, <1>7, <1>8 DEF Next, Encode

-----------------------------------------------------------------------------
(***************************************************************************)
(* Every step of the transfer is a step of the copy, or changes nothing of *)
(* it.                                                                     *)
(***************************************************************************)
LEMMA InitCopies == Init => Copy!CopyInit
<1> SUFFICES ASSUME Init PROVE Copy!CopyInit
  OBVIOUS
<1>1. copyPhase = "asking"
  BY DEF Init, copyPhase, STATUS_OK, STATUS_ERR
<1>2. cfile = Copy!NoFile
  BY DEF Init, NoFile, Copy!NoFile
<1>3. FileOf(Unit) = Copy!FileOf(Copy!Unit)
  BY DEF FileOf, Copy!FileOf, Unit, Copy!Unit, DataUnit, Copy!DataUnit,
         InfoUnit, Copy!InfoUnit, HeaderUnit, Copy!HeaderUnit,
         Commands, Copy!Commands, STATUS_OK, Copy!STATUS_OK,
         STATUS_ERR, Copy!STATUS_ERR,
         FILE_TRANSFER_CMD_START, Copy!FILE_TRANSFER_CMD_START,
         FILE_TRANSFER_CMD_EXIST_CHECK, Copy!FILE_TRANSFER_CMD_EXIST_CHECK,
         FILE_TRANSFER_CMD_TRANSFER_READY,
         Copy!FILE_TRANSFER_CMD_TRANSFER_READY,
         FILE_TRANSFER_CMD_TRANSFER_END, Copy!FILE_TRANSFER_CMD_TRANSFER_END
<1>4. out \in FileOf(Unit) /\ dFileSize \in Nat
  BY InitIInv DEF IInv, TypeOK
<1> QED
  BY <1>1, <1>2, <1>3, <1>4 DEF Copy!CopyInit

(* A part of the job that the copy does not see.                           *)
LEMMA UnseenStep ==
    ASSUME UNCHANGED <<epc, eRes, cfile, out, dFileSize>>
    PROVE  CopyStep
<1>1. UNCHANGED copyPhase
  BY DEF copyPhase
<1> QED
  BY <1>1, CopyStutters

(* Up to step 7, and a crash there.                                        *)
LEMMA AskingCopies ==
    ASSUME epc \in {"START", "EXIST", "READY", "OPEN"}, eRes = 0, eRes' = 0,
           epc' \in {"EXIST", "READY", "OPEN", "DONE", "CRASHED"},
           UNCHANGED <<out, cfile, dFileSize>>
    PROVE  CopyStep
<1>1. copyPhase = "asking"
  BY DEF copyPhase, STATUS_OK, STATUS_ERR
<1>2. copyPhase' = "asking" \/ copyPhase' = "failed"
  BY DEF copyPhase, STATUS_OK, STATUS_ERR
<1> QED
  BY <1>1, <1>2, CopyStutters, CopyFails

(* A turn of step 10 that brings n units.                                  *)
LEMMA ReceiveCopies ==
    ASSUME IInv, Storing, Storing', OutputIsPrefix', Results, Results',
           epc = "RECV", eRes = 0,
           NEW n \in 1 .. Lesser(Lesser(FILE_BUF_SIZE, eLeft), eWaiting),
           ReceiveTurn(n, Arrived(n), n), UNCHANGED <<cvars, net, job>>
    PROVE  CopyStep
<1>1. /\ n \in Nat /\ n > 0
      /\ Arrived(n) \in Seq(Unit) /\ Len(Arrived(n)) = n
      /\ out' = [out EXCEPT !.data = fwrite(out.data, 0, Arrived(n), DiskRoom)]
      /\ eLeft' = eLeft - n
      /\ UNCHANGED <<epc, eRes>>
  BY ReceiveEffect
<1>2. /\ out \in FileOf(Unit) /\ out.data \in Seq(Unit)
      /\ Len(out.data) \in Nat /\ DiskRoom \in Nat
      /\ dFileSize \in Nat /\ eLeft \in Int
  BY LenProperties, TransferAssumption DEF IInv, TypeOK, FileOf
<1>3. UNCHANGED <<cfile, dFileSize>>
  BY DEF cvars, job
<1>4. UNCHANGED copyPhase /\ copyPhase = "copying"
  BY <1>1 DEF copyPhase, STATUS_OK, STATUS_ERR
<1>5. cfile.here
  <2>1. Stored' = dFileSize - (eLeft - n)
    BY <1>1, <1>3 DEF Stored
  <2>2. eLeft <= dFileSize
    BY DEF Storing
  <2>3. Stored' > 0
    BY <1>1, <1>2, <2>1, <2>2
  <2> QED
    BY <1>1, <1>3, <2>3 DEF Storing
<1>6. IsPrefix(out.data, out'.data)
  <2>1. Len(out.data) <= DiskRoom
    <3>1. Len(out.data) = Lesser(DiskRoom, Stored)
      BY DEF Storing
    <3> QED
      BY <1>2, <3>1 DEF Lesser, Stored
  <2>2. out'.data = fwrite(out.data, 0, Arrived(n), DiskRoom)
    BY <1>1, <1>2 DEF FileOf
  <2> DEFINE res == fwrite(out.data, 0, Arrived(n), DiskRoom)
  <2>3. /\ res \in Seq(Unit)
        /\ Len(res) = Lesser(DiskRoom, Len(out.data) + Len(Arrived(n)))
        /\ \A i \in 1 .. Len(res) :
              res[i] = IF i <= Len(out.data)
                       THEN out.data[i] ELSE Arrived(n)[i - Len(out.data)]
    BY <1>1, <1>2, FwriteType
  <2> HIDE DEF res
  <2>4. Len(out.data) <= Len(res)
    BY <1>1, <1>2, <2>1, <2>3 DEF Lesser
  <2>5. \A i \in 1 .. Len(out.data) : out.data[i] = res[i]
    BY <1>2, <2>3, <2>4, LenProperties
  <2>6. IsPrefix(out.data, res)
    BY <1>2, <2>3, <2>4, <2>5, PrefixWhen
  <2> QED
    BY <2>2, <2>6 DEF res
<1>7. IsPrefix(out'.data, Requested)
  BY <1>1, <1>3 DEF OutputIsPrefix, Requested
<1>8. out'.here
  BY <1>1 DEF Results
<1> QED
  BY <1>3, <1>4, <1>5, <1>6, <1>7, <1>8, CopyExtends

LEMMA PrefixOfItself ==
    ASSUME NEW s \in Seq(Unit), NEW n \in 0 .. Len(s)
    PROVE  IsPrefix(Cut(s, n), s)
<1>1. n <= Len(s)
  BY LenProperties
<1> QED
  BY <1>1, CutType, PrefixWhen

LEMMA EncodeCopies ==
    ASSUME IInv, Reading, Storing, Storing', OutputIsPrefix',
           ResultIsHonest', Results, Results', Encode
    PROVE  CopyStep
<1>1. CASE \/ processGetFile_START \/ processGetFile_Get_Exist_Data
           \/ processGetFile_TRANSFER_READY
  <2>1. /\ epc \in {"START", "EXIST", "READY"}
        /\ epc' \in {"EXIST", "READY", "OPEN", "DONE"}
        /\ UNCHANGED <<eRes, out, cvars, job>>
    BY <1>1 DEF processGetFile_START, processGetFile_Get_Exist_Data,
                processGetFile_TRANSFER_READY
  <2> QED
    BY <2>1, AskingCopies DEF Reading, cvars, job
<1>2. CASE FILE_TRANSFER_Open
  <2>1. /\ epc = "OPEN" /\ epc' = "RECV" /\ eRes = 0 /\ eRes' = 0
        /\ out' = fopenTruncate /\ UNCHANGED <<cfile, dFileSize>>
    BY <1>2 DEF FILE_TRANSFER_Open, Reading, cvars, job
  <2>2. copyPhase = "asking" /\ copyPhase' = "copying"
    BY <2>1 DEF copyPhase, STATUS_OK, STATUS_ERR
  <2> QED
    BY <2>1, <2>2, CopyBegins
<1>3. CASE FILE_TRANSFER_Receive
  <2>1. epc = "RECV" /\ eRes = 0 /\ UNCHANGED <<ectl, cvars, net, job, src>>
    BY <1>3 DEF FILE_TRANSFER_Receive, Reading
  <2>2. CASE ReceiveFails
    <3>1. eRes' = STATUS_ERR /\ UNCHANGED <<out, cfile, dFileSize>>
      BY <2>1, <2>2 DEF ReceiveFails, cvars, job
    <3>2. copyPhase = "copying" /\ copyPhase' = "failed"
      BY <2>1, <3>1 DEF copyPhase, STATUS_OK, STATUS_ERR
    <3>3. out.here /\ out.data \in Seq(Unit)
      BY <2>1 DEF Results, IInv, TypeOK, FileOf
    <3>4. IsPrefix(out.data, out.data)
      BY <3>3, LenProperties, PrefixWhen
    <3> QED
      BY <3>1, <3>2, <3>3, <3>4, CopyFails
  <2>3. ASSUME NEW n \in 1 .. Lesser(Lesser(FILE_BUF_SIZE, eLeft), eWaiting),
               ReceiveTurn(n, Arrived(n), n)
        PROVE  CopyStep
    BY <2>1, <2>3, ReceiveCopies
  <2> QED
    BY <1>3, <2>2, <2>3 DEF FILE_TRANSFER_Receive
<1>4. CASE FILE_TRANSFER_Close
  <2>1. /\ epc = "RECV" /\ eRes = 0 /\ eRes' = STATUS_OK
        /\ UNCHANGED <<out, cfile, dFileSize>>
    BY <1>4 DEF FILE_TRANSFER_Close, Reading, cvars, job
  <2>2. copyPhase = "copying" /\ copyPhase' = "ok"
    BY <2>1 DEF copyPhase, STATUS_OK, STATUS_ERR
  <2>3. out.data = Requested
    BY <2>1 DEF ResultIsHonest, Requested
  <2> QED
    BY <2>1, <2>2, <2>3, CopyFinishes
<1>5. CASE processGetFile_TRANSFER_END
  <2>1. /\ epc = "END" /\ eRes # 0
        /\ UNCHANGED <<eRes, out, cfile, dFileSize>>
    BY <1>5 DEF processGetFile_TRANSFER_END, Results, cvars, job
  <2>2. UNCHANGED copyPhase
    BY <2>1 DEF copyPhase, IInv, TypeOK, STATUS_OK, STATUS_ERR
  <2> QED
    BY <2>1, <2>2, CopyStutters
<1>6. CASE exit
  BY <1>6, UnseenStep DEF exit, evars, cvars, job
<1> QED
  BY <1>1, <1>2, <1>3, <1>4, <1>5, <1>6 DEF Encode

(* A crash in step 10 loses the end of what was stored.                    *)
LEMMA CrashCopies ==
    ASSUME IInv, Reading, Results, EncodeCrash
    PROVE  CopyStep
<1>1. /\ epc' = "CRASHED" /\ eRes' = eRes /\ UNCHANGED <<cfile, dFileSize>>
      /\ epc \in {"START", "EXIST", "READY", "OPEN", "RECV", "END"}
      /\ epc # "RECV" => UNCHANGED out
      /\ epc = "RECV" => \E n \in 0 .. Len(out.data) :
                            out' = [out EXCEPT !.data = Cut(@, n)]
  BY DEF EncodeCrash, IInv, TypeOK, EncodeSteps, cvars, job
<1>2. CASE epc \in {"START", "EXIST", "READY", "OPEN"}
  BY <1>1, <1>2, AskingCopies DEF Reading
<1>3. CASE epc = "RECV"
  <2>1. PICK n \in 0 .. Len(out.data) : out' = [out EXCEPT !.data = Cut(@, n)]
    BY <1>1, <1>3
  <2>2. out \in FileOf(Unit) /\ out.data \in Seq(Unit) /\ out.here /\ eRes = 0
    BY <1>3 DEF IInv, TypeOK, FileOf, Results, Reading
  <2>3. out'.here /\ out'.data = Cut(out.data, n)
    BY <2>1, <2>2 DEF FileOf
  <2>4. IsPrefix(out'.data, out.data)
    BY <2>2, <2>3, PrefixOfItself
  <2>5. copyPhase = "copying" /\ copyPhase' = "failed"
    BY <1>1, <1>3, <2>2 DEF copyPhase, STATUS_OK, STATUS_ERR
  <2> QED
    BY <1>1, <2>3, <2>4, <2>5, CopyFails
<1>4. CASE epc = "END"
  <2>1. eRes # 0 /\ UNCHANGED <<out, eRes>>
    BY <1>1, <1>4 DEF Results
  <2>2. UNCHANGED copyPhase
    BY <2>1 DEF copyPhase, IInv, TypeOK, STATUS_OK, STATUS_ERR
  <2> QED
    BY <1>1, <2>1, <2>2, CopyStutters
<1> QED
  BY <1>1, <1>2, <1>3, <1>4

LEMMA ContentCopies ==
    ASSUME IInv, IInv', Storing, Content
    PROVE  CopyStep
<1>1. /\ UNCHANGED <<epc, eRes, out, dFileSize>>
      /\ cfile' = cfile \/ ~cfile.here
  BY ContentStep DEF evars
<1>2. CASE cfile' = cfile
  BY <1>1, <1>2, UnseenStep
<1>3. CASE File_Transfer_Open /\ src.here
  <2>1. cfile' = src
    BY <1>3 DEF File_Transfer_Open
  <2>2. ~cfile.here
    BY <1>3 DEF File_Transfer_Open, IInv, Serving
  <2>3. cfile' \in FileOf(DataUnit) /\ cfile'.here
    BY <1>3, <2>1 DEF IInv, TypeOK
  <2>4. UNCHANGED copyPhase
    BY <1>1 DEF copyPhase
  <2>5. ASSUME copyPhase = "copying" PROVE out.data = << >>
    <3>1. epc = "RECV"
      BY <2>5 DEF copyPhase
    <3>2. /\ out.data \in Seq(Unit) /\ dFileSize \in Nat /\ eLeft \in Int
          /\ DiskRoom \in Nat
      BY TransferAssumption DEF IInv, TypeOK, FileOf
    <3>3. ~(Stored > 0) /\ eLeft <= dFileSize
          /\ Len(out.data) = Lesser(DiskRoom, Stored)
      BY <2>2, <3>1 DEF Storing
    <3>4. Len(out.data) = 0
      BY <3>2, <3>3 DEF Stored, Lesser
    <3> QED
      BY <3>2, <3>4, EmptySeq
  <2> QED
    BY <1>1, <2>2, <2>3, <2>4, <2>5, CopyOpensSource
<1>4. (File_Transfer_Open /\ src.here) \/ cfile' = cfile
  BY DEF Content, run_ReceiveHeader, processPutFile_Receive,
         processPutFile_FileExistCheck, processPutFile_FileExistReturn,
         processPutFile_TransferReady, File_Transfer_Open, File_Transfer_Read,
         File_Transfer_Send, File_Transfer_Close, processPutFile_TransferEnd,
         run_DeleteItem
<1> QED
  BY <1>2, <1>3, <1>4

(* Every behaviour of the two workers and the connection, with short       *)
(* reads, crashes, aborts, late answers and a changing source, is one of   *)
(* the copy of FileCopy: the output is emptied once, extended in order     *)
(* with what the content daemon read, and called "ok" only when complete.  *)
(* No read may split a HEADER, and the disk has room for a request.        *)
THEOREM TransferImplementsCopy ==
    ASSUME "split_header" \notin Faults, \A n \in Sizes : n <= DiskRoom
    PROVE  Spec => ImplementsFileCopy
<1> DEFINE Inv == /\ IInv /\ Reading /\ Storing
                  /\ OutputIsPrefix /\ ResultIsHonest /\ Results
<1>1. Inv /\ Inv' /\ [Next]_vars => CopyStep
  <2> SUFFICES ASSUME Inv, Inv', [Next]_vars PROVE CopyStep
    OBVIOUS
  <2>1. CASE Encode
    BY <2>1, EncodeCopies
  <2>2. CASE Content
    BY <2>2, ContentCopies
  <2>3. CASE EncodeCrash
    BY <2>3, CrashCopies
  <2>4. CASE NetworkReset \/ SourceChange \/ UNCHANGED vars
    BY <2>4, UnseenStep DEF NetworkReset, SourceChange, vars, evars, cvars, job
  <2> QED
    BY <2>1, <2>2, <2>3, <2>4 DEF Next
<1>2. Init => Results
  BY InitResults
<1>3. IInv /\ Results /\ [Next]_vars => Results'
  BY NextResults
<1>4. /\ Spec => [](IInv /\ Reading /\ Storing)
      /\ Spec => []OutputIsPrefix
      /\ Spec => []ResultIsHonest
  BY StoringHolds, OutputIsAPrefix, OkMeansComplete
<1>5. Spec => []Inv
  BY <1>2, <1>3, <1>4, PTL DEF Spec
<1>6. Init => Copy!CopyInit
  BY InitCopies
<1> HIDE DEF Inv
<1>7. Spec => Copy!CopyInit /\ [][Copy!CopyNext]_(Copy!fcvars)
  BY <1>1, <1>5, <1>6, PTL DEF Spec, CopyStep
<1> QED
  BY <1>7 DEF ImplementsFileCopy, Copy!CopySpec
=============================================================================
