---------------------------- MODULE PythonNone ----------------------------
(* Python's None, one value for the modules that are composed. *)
CONSTANT None
=============================================================================
