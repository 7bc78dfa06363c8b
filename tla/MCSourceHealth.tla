--------------------------- MODULE MCSourceHealth ---------------------------
(* OPNsense, which stands for three sources, and docker, which always counts. *)
EXTENDS SourceHealth

OpnsenseOnly == {"opnsense"}
=============================================================================
