----------------------------- MODULE MCSandbox -----------------------------
(* Sandbox for TLC: each part with the configuration that exercises it. *)
EXTENDS Sandbox

CONSTANTS r1, r2, skill

Configured(computer, rewind, s, writes) ==
    [computer |-> computer, rewind |-> rewind, skills |-> s, writes |-> writes]

MCConfigurations ==
    {Configured(TRUE, FALSE, {}, FALSE), Configured(FALSE, TRUE, {}, TRUE),
     Configured(FALSE, TRUE, {skill}, FALSE)}
=============================================================================
