-------------------------- MODULE MCWorkspaceFiles --------------------------
(* Two builder sessions of an app, a playground session of it, and a session *)
(* without an app that works in the playground session's workspace.          *)
EXTENDS WorkspaceFiles, TLC

CONSTANTS b1, b2, play, guest, app, none

MCApp == [s \in Sessions |-> IF s = guest THEN none ELSE app]

MCWorkspace == [s \in Sessions |-> IF s \in {b1, b2} THEN app ELSE play]

\* Every name under /workspace/, and those outside .global/ in the home too.
MCFiles == {AgentPath(n) : n \in Names} \cup {<<"/home/ubuntu/", n>> : n \in Paths}

\* The builder sessions differ in nothing.
Symmetry == Permutations({b1, b2})
=============================================================================
