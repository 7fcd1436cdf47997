--------------------------- MODULE SocketFunction ---------------------------
(***************************************************************************)
(* The wire format of the transfer protocol: the HEADER and FILEINFO       *)
(* structures of inc/FDstructDefine.h, the command and status values of    *)
(* inc/FunctionNameDefine.h, and the functions of class SocketFunction     *)
(* that fill them and lay them out for one write to the socket.            *)
(*                                                                         *)
(* TCP carries bytes, not messages, and a read may return any prefix of    *)
(* what was written.  The byte stream is therefore a sequence of UNITS,    *)
(* each a run of bytes that the model never splits:                        *)
(*   - a HEADER (84 bytes) is three units: part 1 holds nCmd, part 2 what  *)
(*     completes nStatus, part 3 nDataCnt, nDataSize, nErrorCode and cMsg. *)
(*     The commands are less than 256 and the integers little-endian, so   *)
(*     that in a buffer which memset has cleared the first byte of nCmd is *)
(*     all of it, while three bytes of an nStatus of -1 are another value: *)
(*     part 1 ends anywhere before the last byte of nStatus;               *)
(*   - a FILEINFO (1696 bytes) is two units: part 1 holds every field up   *)
(*     to dFileDownSize (bytes 0-831, all that the content daemon reads),  *)
(*     part 2 the rest, the output path among it;                          *)
(*   - file contents are one unit per fixed-size piece of the file.        *)
(***************************************************************************)
EXTENDS Integers, SequencesExt

CONSTANTS Byte,   (* what one piece of a file can hold                      *)
          Zero    (* the piece of a buffer that memset cleared              *)

ASSUME ZeroAssumption == Zero \in Byte

STATUS_OK  == 1
STATUS_ERR == -1
STATUS_END == 99

FILE_TRANSFER_CMD_START          == "START"
FILE_TRANSFER_CMD_EXIST_CHECK    == "EXIST_CHECK"
FILE_TRANSFER_CMD_TRANSFER_READY == "TRANSFER_READY"
FILE_TRANSFER_CMD_TRANSFER_END   == "TRANSFER_END"

Commands == {FILE_TRANSFER_CMD_START, FILE_TRANSFER_CMD_EXIST_CHECK,
             FILE_TRANSFER_CMD_TRANSFER_READY, FILE_TRANSFER_CMD_TRANSFER_END}

HEADER_SIZE   == 3
FILEINFO_SIZE == 2

HeaderUnit == [kind : Commands, val : {STATUS_OK, STATUS_ERR}, part : {1, 2, 3}]
InfoUnit   == [kind : {"FILEINFO"}, val : Nat, part : {1, 2}]
DataUnit   == [kind : {"DATA"}, val : Byte, part : {0}]
Unit       == HeaderUnit \cup InfoUnit \cup DataUnit

Data(b)  == [kind |-> "DATA", val |-> b, part |-> 0]
ZeroUnit == Data(Zero)

(***************************************************************************)
(* makeHeader followed by makeData(send_data, header): the bytes of a      *)
(* HEADER, in the order in which they are written.                         *)
(***************************************************************************)
makeHeader(nCmd, nStatus) ==
    << [kind |-> nCmd, val |-> nStatus, part |-> 1],
       [kind |-> nCmd, val |-> nStatus, part |-> 2],
       [kind |-> nCmd, val |-> nStatus, part |-> 3] >>

(***************************************************************************)
(* makeData(send_data, header, fileinfo): a HEADER and a FILEINFO in one   *)
(* buffer.  Of FILEINFO the model keeps dFileDownSize; dFileSize is the    *)
(* parameter of the request that both sides read from the same structure.  *)
(***************************************************************************)
makeData(header, dFileDownSize) ==
    header \o << [kind |-> "FILEINFO", val |-> dFileDownSize, part |-> 1],
                 [kind |-> "FILEINFO", val |-> dFileDownSize, part |-> 2] >>
=============================================================================
