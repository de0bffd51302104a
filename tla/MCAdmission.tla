---------------------------- MODULE MCAdmission ----------------------------
(* Admission for two torrents of which one fits. *)
EXTENDS Admission

MCSize == [t \in Torrent |-> 1]
=============================================================================
