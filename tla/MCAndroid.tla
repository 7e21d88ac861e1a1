------------------------------ MODULE MCAndroid ------------------------------
(* Android with a bounded number of starts. *)
EXTENDS Android
=============================================================================
