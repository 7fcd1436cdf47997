------------------------- MODULE SharedOutputProofs -------------------------
(***************************************************************************)
(* What is left of a file that several jobs write, for any number of jobs, *)
(* any sources and any sizes.                                              *)
(***************************************************************************)
EXTENDS SharedOutput, SequenceTheorems, TLAPS

LEMMA ZeroUnitType == ZeroUnit \in DataUnit
BY ZeroAssumption DEF ZeroUnit, Data, DataUnit

(* The piece of its source that a job writes next.                         *)
LEMMA PieceType ==
    ASSUME NEW s \in Seq(DataUnit), NEW m \in Nat, NEW n \in Nat,
           m + n <= Len(s)
    PROVE  LET u == SubSeq(s, m + 1, m + n)
           IN  /\ u \in Seq(DataUnit) /\ Len(u) = n
               /\ \A i \in 1 .. n : u[i] = s[m + i]
<1> DEFINE u == SubSeq(s, m + 1, m + n)
           Piece == /\ u \in Seq(DataUnit) /\ Len(u) = n
                    /\ \A i \in 1 .. n : u[i] = s[m + i]
<1> SUFFICES Piece
  OBVIOUS
<1>1. n = 0 \/ n > 0
  OBVIOUS
<1>2. CASE n = 0
  BY <1>2, SubSeqProperties
<1>3. CASE n > 0
  BY <1>3, SubSeqProperties
<1> HIDE DEF Piece
<1> QED
  BY <1>1, <1>2, <1>3

(* A write of a piece at its own place: the file covers it, has it there,  *)
(* and keeps the rest.                                                     *)
Written(res, data, m, u) ==
    /\ res \in Seq(DataUnit)
    /\ Len(res) = IF u = << >> THEN Len(data) ELSE Larger(Len(data), m + Len(u))
    /\ \A p \in 1 .. Len(res) :
          res[p] = IF p > m /\ p <= m + Len(u) THEN u[p - m]
                   ELSE IF p <= Len(data) THEN data[p] ELSE ZeroUnit

LEMMA PwriteType ==
    ASSUME NEW data \in Seq(DataUnit), NEW m \in Nat,
           NEW u \in Seq(DataUnit)
    PROVE  Written(pwrite(data, m, u), data, m, u)
<1> USE DEF Written
<1> DEFINE res == pwrite(data, m, u)
           top == Larger(Len(data), m + Len(u))
<1>1. CASE u = << >>
  BY <1>1 DEF pwrite
<1>2. CASE u # << >>
  <2>1. Len(data) \in Nat /\ Len(u) \in Nat /\ top \in Nat
    BY LenProperties DEF Larger
  <2>2. ASSUME NEW p \in 1 .. top
        PROVE  (IF p > m /\ p <= m + Len(u) THEN u[p - m]
                ELSE IF p <= Len(data) THEN data[p] ELSE ZeroUnit) \in DataUnit
    BY <2>1, ElementOfSeq, ZeroUnitType
  <2>3. res \in [1 .. top -> DataUnit]
    BY <1>2, <2>2 DEF pwrite
  <2>4. res \in Seq(DataUnit) /\ Len(res) = top
    BY <2>1, <2>3, SeqDef
  <2> QED
    BY <1>2, <2>4 DEF pwrite
<1> QED
  BY <1>1, <1>2

-----------------------------------------------------------------------------
(***************************************************************************)
(* The inductive invariant.                                                *)
(***************************************************************************)

(* Only those who had the file open when the last job opened it, and that  *)
(* job itself, can still write; a job that has not begun has nothing.      *)
Openings ==
    /\ \A j \in Job : jpc[j] = "asking" => got[j] = 0 /\ put[j] = 0
    /\ last = NoJob => /\ out = << >> /\ rivals = {}
                       /\ \A j \in Job : jpc[j] = "asking"
    /\ last # NoJob => /\ Copying \subseteq rivals \cup {last}
                       /\ jpc[last] # "asking"
    /\ \A j \in rivals : jpc[j] # "asking"

(* What the file is where nobody disagrees.                                *)
Agreed ==
    last # NoJob /\ RivalsAgree =>
        /\ put[last] <= Len(out) /\ Len(out) <= Len(Source[last])
        /\ \A p \in 1 .. put[last] : out[p] = Source[last][p]
        /\ jpc[last] = "ok" => put[last] = Len(Source[last])

IInv == TypeOK /\ Openings /\ Agreed /\ NothingOlderSurvives

LEMMA InitIInv == Init => IInv
BY SharedOutputAssumption DEF Init, IInv, TypeOK, Openings, Agreed,
   NothingOlderSurvives, Copying

LEMMA SourceType == \A j \in Job : Source[j] \in Seq(DataUnit) /\ Len(Source[j]) \in Nat
BY SharedOutputAssumption, LenProperties

LEMMA StepOpen ==
    ASSUME IInv, NEW j \in Job, FILE_TRANSFER_Open(j)
    PROVE  IInv'
<1> USE DEF IInv, FILE_TRANSFER_Open
<1>1. out' = << >>
  BY DEF fopenTruncate
<1>2. TypeOK'
  BY <1>1 DEF TypeOK, Copying
<1>3. Openings'
  BY <1>1, SharedOutputAssumption DEF Openings, TypeOK, Copying
<1>4. put'[j] = 0 /\ jpc'[j] = "copying" /\ last' = j
  BY DEF Openings, TypeOK
<1>5. Agreed'
  BY <1>1, <1>4, SourceType DEF Agreed
<1>6. NothingOlderSurvives'
  BY <1>1 DEF NothingOlderSurvives
<1> QED
  BY <1>2, <1>3, <1>5, <1>6

LEMMA StepReceive ==
    ASSUME IInv, NEW j \in Job, FILE_TRANSFER_Receive(j)
    PROVE  IInv'
<1> USE DEF IInv, FILE_TRANSFER_Receive
<1>1. PICK n \in 1 .. Lesser(FILE_BUF_SIZE, Len(Source[j]) - got[j]) :
         got' = [got EXCEPT ![j] = @ + n]
  OBVIOUS
<1>2. n \in Nat /\ got[j] + n <= Len(Source[j])
  BY <1>1, SourceType, SharedOutputAssumption DEF Lesser, TypeOK
<1>3. TypeOK'
  BY <1>1, <1>2 DEF TypeOK
<1>4. Openings'
  BY <1>1 DEF Openings, Copying
<1>5. Agreed' /\ NothingOlderSurvives'
  BY DEF Agreed, NothingOlderSurvives, RivalsAgree
<1> QED
  BY <1>3, <1>4, <1>5

(* What a write of a job's next piece does to the file.                    *)
LEMMA FlushEffect ==
    ASSUME IInv, NEW j \in Job, jpc[j] = "copying", NEW n \in Nat,
           n <= got[j] - put[j], Flush(j, n)
    PROVE  /\ put' \in [Job -> Nat] /\ put'[j] = put[j] + n
           /\ \A i \in Job \ {j} : put'[i] = put[i]
           /\ put'[j] <= got[j]
           /\ out' \in Seq(DataUnit)
           /\ Len(out') = IF n = 0 THEN Len(out)
                          ELSE Larger(Len(out), put[j] + n)
           /\ \A p \in 1 .. Len(out') :
                 out'[p] = IF p > put[j] /\ p <= put[j] + n THEN Source[j][p]
                           ELSE IF p <= Len(out) THEN out[p] ELSE ZeroUnit
<1> DEFINE u == SubSeq(Source[j], put[j] + 1, put[j] + n)
<1>1. /\ put \in [Job -> Nat] /\ got \in [Job -> Nat]
      /\ put[j] \in Nat /\ got[j] \in Nat
      /\ got[j] <= Len(Source[j]) /\ out \in Seq(DataUnit)
  BY DEF IInv, TypeOK
<1>2. put[j] + n <= Len(Source[j])
  BY <1>1, SourceType
<1>3. /\ u \in Seq(DataUnit) /\ Len(u) = n
      /\ \A i \in 1 .. n : u[i] = Source[j][put[j] + i]
  BY <1>1, <1>2, SourceType, PieceType
<1>4. u = << >> <=> n = 0
  BY <1>3, EmptySeq
<1> HIDE DEF u
<1>5. out' = pwrite(out, put[j], u)
  BY DEF Flush, u
<1>6. /\ out' \in Seq(DataUnit)
      /\ Len(out') = IF u = << >> THEN Len(out)
                     ELSE Larger(Len(out), put[j] + Len(u))
      /\ \A p \in 1 .. Len(out') :
            out'[p] = IF p > put[j] /\ p <= put[j] + Len(u) THEN u[p - put[j]]
                      ELSE IF p <= Len(out) THEN out[p] ELSE ZeroUnit
  <2>1. Written(pwrite(out, put[j], u), out, put[j], u)
    BY <1>1, <1>3, PwriteType
  <2> QED
    BY <1>5, <2>1 DEF Written
<1>7. ASSUME NEW p \in 1 .. Len(out')
      PROVE  out'[p] = IF p > put[j] /\ p <= put[j] + n THEN Source[j][p]
                       ELSE IF p <= Len(out) THEN out[p] ELSE ZeroUnit
  <2>1. Len(out') \in Nat
    BY <1>6, LenProperties
  <2>2. CASE p > put[j] /\ p <= put[j] + n
    <3>1. p - put[j] \in 1 .. n /\ put[j] + (p - put[j]) = p
      BY <1>1, <2>1, <2>2
    <3> QED
      BY <1>3, <1>6, <2>2, <3>1
  <2>3. CASE ~(p > put[j] /\ p <= put[j] + n)
    BY <1>3, <1>6, <2>3
  <2> QED
    BY <2>2, <2>3
<1>8. /\ put' \in [Job -> Nat] /\ put'[j] = put[j] + n
      /\ \A i \in Job \ {j} : put'[i] = put[i]
      /\ put'[j] <= got[j]
  BY <1>1 DEF Flush
<1> QED
  BY <1>3, <1>4, <1>6, <1>7, <1>8

(* A write keeps the file as it should be.                                 *)
LEMMA FlushKeeps ==
    ASSUME IInv, NEW j \in Job, jpc[j] = "copying", NEW n \in Nat,
           n <= got[j] - put[j], Flush(j, n),
           UNCHANGED <<got, last, rivals>>
    PROVE  /\ last # NoJob /\ last \in Job /\ j \in rivals \cup {last}
           /\ NothingOlderSurvives'
           /\ RivalsAgree =>
                 /\ put'[last] <= Len(out') /\ Len(out') <= Len(Source[last])
                 /\ \A p \in 1 .. put'[last] : out'[p] = Source[last][p]
<1> DEFINE wrote(p) == p > put[j] /\ p <= put[j] + n
<1>1. /\ put' \in [Job -> Nat] /\ put'[j] = put[j] + n
      /\ \A i \in Job \ {j} : put'[i] = put[i]
      /\ put'[j] <= got[j]
      /\ out' \in Seq(DataUnit)
      /\ Len(out') = IF n = 0 THEN Len(out) ELSE Larger(Len(out), put[j] + n)
      /\ \A p \in 1 .. Len(out') :
            out'[p] = IF wrote(p) THEN Source[j][p]
                      ELSE IF p <= Len(out) THEN out[p] ELSE ZeroUnit
  BY FlushEffect
<1>2. /\ put \in [Job -> Nat] /\ out \in Seq(DataUnit) /\ got[j] \in Nat
      /\ put[j] <= got[j] /\ got[j] <= Len(Source[j])
      /\ rivals \subseteq Job /\ Len(out) \in Nat /\ Len(out') \in Nat
  BY <1>1, LenProperties DEF IInv, TypeOK
<1>3. last # NoJob /\ last \in Job /\ j \in rivals \cup {last}
  BY DEF IInv, TypeOK, Openings, Copying
<1>4. NothingOlderSurvives'
  <2> SUFFICES ASSUME NEW p \in 1 .. Len(out'), out'[p] # ZeroUnit
               PROVE  \E i \in rivals \cup {last} :
                         p <= put'[i] /\ out'[p] = Source[i][p]
    BY <1>1, LenProperties DEF NothingOlderSurvives
  <2>1. CASE wrote(p)
    BY <1>1, <1>2, <1>3, <2>1
  <2>2. CASE ~wrote(p)
    <3>1. p \in 1 .. Len(out) /\ out'[p] = out[p]
      BY <1>1, <1>2, <2>2
    <3>2. PICK i \in rivals \cup {last} : p <= put[i] /\ out[p] = Source[i][p]
      BY <1>2, <3>1 DEF IInv, NothingOlderSurvives
    <3>3. put[i] <= put'[i] /\ put[i] \in Nat /\ put'[i] \in Nat
      <4>1. i \in Job
        BY <1>2, <1>3
      <4>2. CASE i = j
        BY <1>1, <1>2, <4>1, <4>2
      <4>3. CASE i # j
        BY <1>1, <1>2, <4>1, <4>3
      <4> QED
        BY <4>2, <4>3
    <3> QED
      BY <3>1, <3>2, <3>3
  <2> QED
    BY <2>1, <2>2
<1>5. ASSUME RivalsAgree
      PROVE  /\ put'[last] <= Len(out') /\ Len(out') <= Len(Source[last])
             /\ \A p \in 1 .. put'[last] : out'[p] = Source[last][p]
  <2>1. Source[j] = Source[last]
    BY <1>3, <1>5 DEF RivalsAgree
  <2>2. /\ put[last] <= Len(out) /\ Len(out) <= Len(Source[last])
        /\ \A p \in 1 .. put[last] : out[p] = Source[last][p]
    BY <1>3, <1>5 DEF IInv, Agreed
  <2>3. put[last] \in Nat /\ put[j] \in Nat /\ Len(Source[last]) \in Nat
    BY <1>2, <1>3, SourceType
  <2>4. put'[last] <= Len(out') /\ Len(out') <= Len(Source[last])
    <3>1. CASE j = last
      BY <1>1, <1>2, <2>1, <2>2, <2>3, <3>1 DEF Larger
    <3>2. CASE j # last
      BY <1>1, <1>2, <1>3, <2>1, <2>2, <2>3, <3>2 DEF Larger
    <3> QED
      BY <3>1, <3>2
  <2>5. ASSUME NEW p \in 1 .. put'[last]
        PROVE  out'[p] = Source[last][p]
    <3>1. put'[last] \in Nat /\ p \in 1 .. Len(out')
      BY <1>1, <1>2, <1>3, <2>4
    <3>2. CASE wrote(p)
      BY <1>1, <2>1, <3>1, <3>2
    <3>3. CASE ~wrote(p)
      <4>1. p \in 1 .. put[last]
        BY <1>1, <1>3, <2>3, <3>1, <3>3
      <4>2. p <= Len(out)
        BY <1>2, <2>2, <2>3, <4>1
      <4> QED
        BY <1>1, <2>2, <3>1, <3>3, <4>1, <4>2
    <3> QED
      BY <3>2, <3>3
  <2> QED
    BY <2>4, <2>5
<1> QED
  BY <1>3, <1>4, <1>5

LEMMA StepFlush ==
    ASSUME IInv, NEW j \in Job, fwrite_Flush(j)
    PROVE  IInv'
<1>1. /\ jpc[j] = "copying" /\ UNCHANGED <<jpc, got, last, rivals>>
      /\ \E n \in 1 .. got[j] - put[j] : Flush(j, n)
  BY DEF fwrite_Flush
<1>2. got[j] \in Nat /\ put[j] \in Nat
  BY DEF IInv, TypeOK
<1>3. PICK n \in Nat : n <= got[j] - put[j] /\ Flush(j, n)
  BY <1>1, <1>2
<1>4. /\ put' \in [Job -> Nat] /\ put'[j] <= got[j] /\ out' \in Seq(DataUnit)
      /\ \A i \in Job \ {j} : put'[i] = put[i]
  BY <1>1, <1>3, FlushEffect
<1>5. /\ last # NoJob /\ NothingOlderSurvives'
      /\ RivalsAgree =>
            /\ put'[last] <= Len(out') /\ Len(out') <= Len(Source[last])
            /\ \A p \in 1 .. put'[last] : out'[p] = Source[last][p]
  BY <1>1, <1>3, FlushKeeps
<1>6. TypeOK'
  BY <1>1, <1>4 DEF IInv, TypeOK
<1>7. Openings'
  BY <1>1, <1>4, <1>5 DEF IInv, Openings, Copying
<1>8. Agreed'
  <2>1. jpc[last] = "ok" => last # j
    BY <1>1
  <2>2. last \in Job
    BY <1>5 DEF IInv, TypeOK
  <2> QED
    BY <1>1, <1>4, <1>5, <2>1, <2>2 DEF IInv, Agreed, RivalsAgree
<1> QED
  BY <1>5, <1>6, <1>7, <1>8 DEF IInv

LEMMA StepClose ==
    ASSUME IInv, NEW j \in Job, FILE_TRANSFER_Close(j)
    PROVE  IInv'
<1>1. /\ jpc[j] = "copying" /\ UNCHANGED <<got, last, rivals>>
      /\ Flush(j, got[j] - put[j])
  BY DEF FILE_TRANSFER_Close
<1>2. PICK res \in {"ok", "failed"} :
         /\ res = "ok" <=> got[j] = Len(Source[j])
         /\ jpc' = [jpc EXCEPT ![j] = res]
  BY DEF FILE_TRANSFER_Close
<1>3. got[j] - put[j] \in Nat /\ got[j] \in Nat /\ put[j] \in Nat
  BY DEF IInv, TypeOK
<1>4. /\ put' \in [Job -> Nat] /\ put'[j] <= got[j] /\ out' \in Seq(DataUnit)
      /\ put'[j] = put[j] + (got[j] - put[j])
      /\ \A i \in Job \ {j} : put'[i] = put[i]
  BY <1>1, <1>3, FlushEffect
<1>5. /\ last # NoJob /\ last \in Job /\ NothingOlderSurvives'
      /\ RivalsAgree =>
            /\ put'[last] <= Len(out') /\ Len(out') <= Len(Source[last])
            /\ \A p \in 1 .. put'[last] : out'[p] = Source[last][p]
  BY <1>1, <1>3, FlushKeeps
<1>6. TypeOK'
  BY <1>1, <1>2, <1>4 DEF IInv, TypeOK
<1>7. Openings'
  BY <1>1, <1>2, <1>4, <1>5 DEF IInv, TypeOK, Openings, Copying
<1>8. Agreed'
  <2>1. jpc'[last] = "ok" /\ RivalsAgree => put'[last] = Len(Source[last])
    <3>1. CASE last = j
      BY <1>2, <1>3, <1>4, <3>1 DEF IInv, TypeOK
    <3>2. CASE last # j
      BY <1>2, <1>4, <1>5, <3>2 DEF IInv, TypeOK, Agreed
    <3> QED
      BY <3>1, <3>2
  <2> QED
    BY <1>1, <1>5, <2>1 DEF Agreed, RivalsAgree
<1> QED
  BY <1>5, <1>6, <1>7, <1>8 DEF IInv

LEMMA StepKilled == IInv /\ Killed => IInv'
<1> SUFFICES ASSUME IInv, Killed PROVE IInv'
  OBVIOUS
<1>1. PICK js \in SUBSET Copying :
         jpc' = [j \in Job |-> IF j \in js THEN "failed" ELSE jpc[j]]
  BY DEF Killed
<1>2. UNCHANGED <<got, put, out, last, rivals>>
  BY DEF Killed
<1>3. TypeOK'
  BY <1>1, <1>2 DEF IInv, TypeOK
<1>4. Openings'
  BY <1>1, <1>2 DEF IInv, TypeOK, Openings, Copying
<1>5. Agreed' /\ NothingOlderSurvives'
  BY <1>1, <1>2 DEF IInv, TypeOK, Agreed, NothingOlderSurvives, RivalsAgree
<1> QED
  BY <1>3, <1>4, <1>5 DEF IInv

LEMMA NextIInv == IInv /\ [Next]_vars => IInv'
<1> SUFFICES ASSUME IInv, [Next]_vars PROVE IInv'
  OBVIOUS
<1>1. ASSUME NEW j \in Job,
             \/ FILE_TRANSFER_Open(j) \/ FILE_TRANSFER_Receive(j)
             \/ fwrite_Flush(j) \/ FILE_TRANSFER_Close(j)
      PROVE  IInv'
  BY <1>1, StepOpen, StepReceive, StepFlush, StepClose
<1>2. CASE UNCHANGED vars
  BY <1>2 DEF vars, IInv, TypeOK, Openings, Agreed, NothingOlderSurvives,
     Copying, RivalsAgree
<1> QED
  BY <1>1, <1>2, StepKilled DEF Next

(* The invariant that the other theorems rest on, for any number of jobs.  *)
THEOREM InvariantHolds == Spec => []IInv
BY InitIInv, NextIInv, PTL DEF Spec

(* No job writes more than it was asked to fetch.                          *)
THEOREM TypeCorrect == Spec => []TypeOK
<1>1. IInv => TypeOK
  BY DEF IInv
<1> QED
  BY <1>1, InvariantHolds, PTL

(* The last job to open the file decides what is in it: step 10 of the     *)
(* others can neither damage what it stored nor outlast it.                *)
THEOREM LastJobDecides == Spec => []LastOkMeansComplete
<1>1. IInv => LastOkMeansComplete
  <2> SUFFICES ASSUME IInv, last # NoJob, RivalsAgree
               PROVE  /\ Len(out) >= put[last]
                      /\ \A p \in 1 .. put[last] : out[p] = Source[last][p]
                      /\ jpc[last] = "ok" => out = Source[last]
    BY DEF LastOkMeansComplete
  <2>1. /\ last \in Job /\ put[last] \in Nat
        /\ out \in Seq(DataUnit) /\ Len(out) \in Nat
        /\ Source[last] \in Seq(DataUnit) /\ Len(Source[last]) \in Nat
    BY SourceType, LenProperties DEF IInv, TypeOK
  <2>2. /\ put[last] <= Len(out) /\ Len(out) <= Len(Source[last])
        /\ \A p \in 1 .. put[last] : out[p] = Source[last][p]
        /\ jpc[last] = "ok" => put[last] = Len(Source[last])
    BY DEF IInv, Agreed
  <2>3. ASSUME jpc[last] = "ok" PROVE out = Source[last]
    <3>1. Len(out) = Len(Source[last])
      BY <2>1, <2>2, <2>3
    <3>2. \A p \in 1 .. Len(out) : out[p] = Source[last][p]
      BY <2>1, <2>2, <2>3
    <3> QED
      BY <2>1, <3>1, <3>2, SeqEqual
  <2> QED
    BY <2>1, <2>2, <2>3
<1> QED
  BY <1>1, InvariantHolds, PTL

(* Nothing that was in the file before the last opening comes back, except *)
(* from a job that had it open then.                                       *)
THEOREM OldPiecesAreGone == Spec => []NothingOlderSurvives
<1>1. IInv => NothingOlderSurvives
  BY DEF IInv
<1> QED
  BY <1>1, InvariantHolds, PTL
=============================================================================
