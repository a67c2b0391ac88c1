---------------------------- MODULE MCBrowserNode ----------------------------
(* A node with two sessions and at most one admitted connection. *)
EXTENDS BrowserNode, TLC

CONSTANTS k1, k2

MCKeys == {k1, k2}
MCDialIntents == Intents
MCMaxConnections == 1

MCSymmetry == Permutations(MCKeys)
=============================================================================
