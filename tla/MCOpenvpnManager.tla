-------------------------- MODULE MCOpenvpnManager --------------------------
(* Small instances of OpenvpnManager for TLC.                              *)
EXTENDS OpenvpnManager, TLC

\* Servers are interchangeable.
Symmetry == Permutations(Hosts)

\* What the state properties and the actions read: the output and the history
\* variables that belong to other runs are left out of the fingerprint.
SafetyView == <<managerVars, pendingVars, todo, openvpn, leaving, polls, log, reported, intent,
                commands, crashes>>
ServersView == <<managerVars, pendingVars, todo, outsideVars, mixed,
                 commands, crashes>>
=============================================================================
