---------------------------- MODULE Lgmon3Codes ----------------------------
(***************************************************************************)
(* The integer codes cnijlgmon3 passes between its layers, with the values *)
(* the headers give them.  The values matter: several of them coincide     *)
(* (STARTJOB and IDLE, BUSY and CLOSE_HND_FAIL) and the program compares   *)
(* the numbers, not the names.                                             *)
(***************************************************************************)
EXTENDS Integers

\* cnijlgmon3.h, "Error Number"
CN_LGMON_OK                 == 0
CN_LGMON_ERROR              == -1
CN_LGMON_DYNAMID_LINK_ERROR == -4
CN_LGMON_OPEN_ERROR         == -5
CN_LGMON_RESPONSE_ERROR     == -6
CN_LGMON_WRITEDATA_ERROR    == -7
CN_LGMON_BUSY               == -8
CN_LGMON_OTHER_ERROR        == -65534

\* cnijlgmon3.h, "Parameter Id" and "Status Id"
CN_IVEC_STARTJOB         == 1
CN_IVEC_VENDERSHIFT      == 2
CN_IVEC_ENDJOB           == 3
CN_IVEC_STATUS           == 4
CN_IVEC_STATUS_IDLE      == 1
CN_IVEC_STATUS_CANCELING == 6

\* cnijlgmon3.h, the results of the status query of the second protocol
CLSS_OK                  == 0
CLSS_NOT_SUPPORT_CUSTOM  == 10
CLSS_OK_AND_IDLE         == 11
CLSS_OK_AND_CANCEL       == 12
CLSS_NOT_SUPP_AND_IDLE   == 13
CLSS_NOT_SUPP_AND_CANCEL == 14

\* cnijifnet2.h and libcnnet3_type.h
CN_NET3_FAILED             == -1
CN_NET3_READ_DATA_FAIL     == -7
CN_NET3_SEND_TIMEOUT       == -9
CNNET3_ERR_SUCCESS         == 0
CNNET3_ERR_NOCONTENT       == 1
CNNET3_ERR_FATAL           == -1
CNNET3_ERR_WRITING_TIMEOUT == -11

(***************************************************************************)
(* Status values as the printer reports them, by name.  "stopped" stands   *)
(* for STOPPED and NOTREADY, whatever the detail: the code only words its  *)
(* INFO line differently.                                                  *)
(***************************************************************************)
Statuses == {"idle", "processing", "stopped", "canceling"}

(***************************************************************************)
(* CNIF_GetResponse, second protocol: what GET_STATUS2 answered, and the   *)
(* status beside it, folded into one result.                               *)
(***************************************************************************)
Net2Result(clss, status) ==
  CASE status = "idle" ->
         IF clss = CLSS_OK THEN CLSS_OK_AND_IDLE
         ELSE IF clss = CLSS_NOT_SUPPORT_CUSTOM THEN CLSS_NOT_SUPP_AND_IDLE
         ELSE CN_IVEC_STATUS_IDLE
    [] status = "canceling" ->
         IF clss = CLSS_OK THEN CLSS_OK_AND_CANCEL
         ELSE IF clss = CLSS_NOT_SUPPORT_CUSTOM THEN CLSS_NOT_SUPP_AND_CANCEL
         ELSE CN_IVEC_STATUS_CANCELING
    [] OTHER -> clss

(***************************************************************************)
(* CNIF_GetResponse on USB and on the first network protocol: a message is *)
(* the answer to an operation of the job stream, or a status message.      *)
(***************************************************************************)
JobAnswers == {"START", "VENDER", "END"}

JobAnswerResult ==
  [op \in JobAnswers |-> CASE op = "START"  -> CN_IVEC_STARTJOB
                           [] op = "VENDER" -> CN_IVEC_VENDERSHIFT
                           [] OTHER         -> CN_IVEC_ENDJOB]

StatusResult(status) ==
  CASE status = "idle"      -> CN_IVEC_STATUS_IDLE
    [] status = "canceling" -> CN_IVEC_STATUS_CANCELING
    [] OTHER                -> CN_IVEC_STATUS

=============================================================================
