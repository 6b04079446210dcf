------------------------------ MODULE MCUartTx ------------------------------
(* A small instance of UartTx: enough packets to wrap the ring. *)
EXTENDS UartTx

MCQueueNo == 3
MCResendNum == 1
MCMaxPush == 5
=============================================================================
