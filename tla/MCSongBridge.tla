---------------------------- MODULE MCSongBridge ----------------------------
(* A song an effect waits for, one it does not, an SNDH, and frames that    *)
(* carry an effect, a sample and an effect, or a song image.                *)
EXTENDS SongBridge

MCMods == {"a.mod"}
MCSndhs == {"b.sndh"}
MCOthers == {"c.hip"}
MCBatches == {<<"effect">>, <<"sample", "effect">>, <<"song">>}
=============================================================================
