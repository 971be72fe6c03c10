------------------------------ MODULE MCFleet ------------------------------
(***************************************************************************)
(* An instance of Fleet for TLC, with names at the limits of the code.     *)
(***************************************************************************)
EXTENDS Fleet, TLC

Repeat(char, n) == [i \in 1 .. n |-> char]

(* "ab" and "a.b" are the same once cleared; 59 characters are the most     *)
(* that are not hashed.                                                    *)
MCClusterNames ==
    {<<"a", "b">>, <<"a", ".", "b">>, Repeat("a", 60), Repeat("a", 59) \o <<"b">>}

(* A given name may be one that is generated for the Cluster "ab". *)
MCGivenNames == {<< >>, <<"a", "b", "-", "a", "p", "i">>}

(* 57 characters are the most a template may have. *)
MCTemplateNames == {<<"a">>, Repeat("a", 57), Repeat("a", 58), <<"a", "-">>, <<"1", "a">>}
MCMachineNames == {<<"b">>, Repeat("b", 64)}

MCAddrType == [h \in Hosts |-> CASE h \in {"ip1", "ip2"} -> "IPV4"
                                 [] h = "ip6"            -> "IPV6"
                                 [] OTHER                -> "Unknown"]

Symmetry == Permutations(Clusters) \cup Permutations(Folders)
=============================================================================
