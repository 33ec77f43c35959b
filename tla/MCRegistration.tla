-------------------------- MODULE MCRegistration --------------------------
(* Small instances of Registration: requests and emails are model values.  *)
EXTENDS Registration
=============================================================================
