----------------------------- MODULE MCScheduler -----------------------------
(***************************************************************************)
(* Small instances of Scheduler: periods 2 and 3 and a tick that wraps at  *)
(* 8, so that the wrap falls inside a period of 3 as 65536 falls inside    *)
(* the 1500 ticks of the upload request.                                   *)
(***************************************************************************)
EXTENDS Scheduler, TLC

CONSTANTS s1, s2, s3

Callbacks == (s1 :> "HID" @@ s2 :> "Client" @@ s3 :> "HID")
Periods == (s1 :> 2 @@ s2 :> 3 @@ s3 :> 1)
===============================================================================
