---------------------------- MODULE MCFrameCodec ----------------------------
(* Instances of FrameCodec for TLC.                                        *)
EXTENDS FrameCodec

(* The last document is longer than MAX_HDR_LEN.                           *)
Documents ==
  (<<0>> :> "Plain") @@ (<<1>> :> "Body") @@ (<<1, 0>> :> "Submit") @@ (<<0, 1, 1>> :> "Body")

(* The largest header leaves room for one octet, the shortest for two.     *)
SomeBodies == {<< >>, <<1>>, <<0, 1>>}

=============================================================================
