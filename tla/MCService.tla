----------------------------- MODULE MCService -----------------------------
(* Service with two sessions, two threads and two rounds of maintenance.     *)
EXTENDS Service
=============================================================================
