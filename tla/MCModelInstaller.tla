-------------------------- MODULE MCModelInstaller --------------------------
(* An instance of ModelInstaller for TLC. *)
EXTENDS ModelInstaller

TwoFiles == <<"openvino_model.bin", "openvino_model.xml">>
=============================================================================
