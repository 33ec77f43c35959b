--------------------------- MODULE MCLifecycle ---------------------------
(* A small instance of Lifecycle: the requests are model values.           *)
EXTENDS Lifecycle
=============================================================================
