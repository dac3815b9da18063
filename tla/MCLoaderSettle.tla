--------------------------- MODULE MCLoaderSettle ---------------------------
(* Model checking of LoaderSettle: two documents and a malformed line.     *)
EXTENDS LoaderSettle

CONSTANTS k1, k2

MCLines == <<k1, Malformed, k2>>
MCOneKey == <<k1, Malformed>>
=============================================================================
