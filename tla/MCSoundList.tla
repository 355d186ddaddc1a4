---------------------------- MODULE MCSoundList ----------------------------
(* SoundList with the phone's two lines; no bound but the one of MaxId. *)
EXTENDS SoundList
=============================================================================
