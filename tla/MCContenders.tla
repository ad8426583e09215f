---------------------------- MODULE MCContenders ----------------------------
(* A pool of one required and one optional contender, whose name orders first. *)
EXTENDS Contenders

LastOfPool == <<2>>
FirstOptional == <<1>>
BackAndForth == {-1, 1}
=============================================================================
