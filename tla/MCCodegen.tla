----------------------------- MODULE MCCodegen ------------------------------
(* Codegen with one file of bindgen and two of the Python program, for     *)
(* TLC.                                                                    *)
EXTENDS Codegen

MCTasks == <<"bindings", "layer_trait", "global_simple_intercept">>
=============================================================================
