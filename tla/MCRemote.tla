------------------------------- MODULE MCRemote -------------------------------
(***************************************************************************)
(* Small instances of RemotePhases for TLC.                                *)
(***************************************************************************)
EXTENDS RemotePhases

CONSTANTS a, b

MCObjects == {a, b}
TwoPhases == <<<<a>>, <<b>>>>

\* the layouts: which phase another process reconciles
RemoteThenLocal == {<<"hosted", Local>>}
LocalThenRemote == {<<Local, "hosted">>}
Both == RemoteThenLocal \union LocalThenRemote

=============================================================================
