---------------------------- MODULE MCDecisionGate ----------------------------
EXTENDS GateProperties, TLC

CONSTANTS a1, a2, e1, e2, e3, e4, ProfilesUnderTest

Claim(profile, cites, says) ==
    [profile |-> profile, version |-> 0, atoms |-> {a1, a2}, cites |-> cites, says |-> says,
     evidence |-> {e1, e2, e3}]

\* Two atoms that share e2; e4 is in the universe and not in the claim.
Distinct == a1 :> "s1" @@ a2 :> "s2"
Shared   == a1 :> {e1, e2} @@ a2 :> {e2, e3}

MCClaims == { Claim(p, Shared, Distinct) : p \in ProfilesUnderTest }

MCGroup  == e1 :> "g1" @@ e2 :> "g2" @@ e3 :> "g1" @@ e4 :> "g2"
MCOrigin == e1 :> "o1" @@ e2 :> "o2" @@ e3 :> "o1" @@ e4 :> "o2"
MCReferences == { {}, {e1}, {e2}, {e4} }
===============================================================================
