--------------------------- MODULE MCBlenderBridge ---------------------------
(* Instances of BlenderBridge for TLC. *)
EXTENDS BlenderBridge, TLC

CONSTANTS f1, f2

MCPayloads == {<<"execute", f1>>, <<"scratch", f1>>, <<"capture", f2>>,
               <<"context", f1>>}
MCExecuteOnly == {<<"execute", f1>>}
=============================================================================
