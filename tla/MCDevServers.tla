---------------------------- MODULE MCDevServers ----------------------------
(***************************************************************************)
(* Values for the instances of DevServers: one or two scopes on two ports. *)
(***************************************************************************)
EXTENDS DevServers, TLC

CONSTANTS s1, s2

OneScope == {s1}
TwoScopes == {s1, s2}

\* Both would like to have the first port.
TheFirst == s1 :> 3000
BothTheFirst == s1 :> 3000 @@ s2 :> 3000

TwoPorts == {3000, 3001}

NoAutoStart == {{}}
OneAutoStart == {{s1}}

AnyEnding == {"shutdown", "crash"}
Killed == {"crash"}

=============================================================================
