---------------------------- MODULE MCIdentities ----------------------------
(* Small sets of provider subjects for Identities.                         *)
EXTENDS Identities, TLC

CONSTANTS GitHub, Orcid

MCIdentities == GitHub \cup Orcid
MCProviderOf == [i \in MCIdentities |-> IF i \in GitHub THEN "github" ELSE "orcid"]
MCSymmetry == {f @@ g @@ h : f \in Permutations(Accounts), g \in Permutations(Requests),
                             h \in {p \in Permutations(MCIdentities) :
                                      \A i \in MCIdentities : MCProviderOf[p[i]] = MCProviderOf[i]}}
=============================================================================
