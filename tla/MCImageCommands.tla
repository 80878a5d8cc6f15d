---------------------------- MODULE MCImageCommands ----------------------------
(* Finite instances of ImageCommands.                                       *)
EXTENDS ImageCommands

CONSTANTS ubuntu, app, latest, v1, os

HubAndPrivate == {<<ubuntu, v1>>, <<app, latest>>, <<app, v1>>}
OneRepository == {<<app, v1>>, <<app, latest>>}
=============================================================================
