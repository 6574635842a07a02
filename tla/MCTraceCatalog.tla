--------------------------- MODULE MCTraceCatalog ---------------------------
(* TraceCatalog for TLC: see TraceCatalog.cfg. *)
EXTENDS TraceCatalog
=============================================================================
