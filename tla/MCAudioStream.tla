---------------------------- MODULE MCAudioStream ----------------------------
(***************************************************************************)
(* Two calls, a buffer of two frames, a queue of two, and enough sequence  *)
(* numbers for a full buffer, a skip, a late frame, one that is too late,  *)
(* and a duplicate.                                                        *)
(***************************************************************************)
EXTENDS AudioStream
Frames == 0..5
==============================================================================
