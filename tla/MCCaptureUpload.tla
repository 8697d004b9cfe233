---------------------------- MODULE MCCaptureUpload ----------------------------
(***************************************************************************)
(* CaptureUpload for TLC, and the faulty variants of its operations that   *)
(* its properties are known to tell from the code.                         *)
(***************************************************************************)
EXTENDS CaptureUpload
================================================================================
