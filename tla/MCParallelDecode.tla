--------------------------- MODULE MCParallelDecode ---------------------------
(* Two workers, up to three targets over two columns: the values are in the
   configuration, the module only gives TLC a root of its own.              *)
EXTENDS ParallelDecode
=============================================================================
