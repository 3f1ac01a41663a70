---------------------------- MODULE MCVoiceCalls ----------------------------
(* Model values for VoiceCalls.                                            *)
EXTENDS VoiceCalls

MCEndings == {"completed", "busy"}
=============================================================================
