----------------------------- MODULE MCKeyStore -----------------------------
(* Profiles of two and three shapes that differ in order and in a size, and *)
(* two that are refused.                                                    *)
EXTENDS KeyStore

A == [tier |-> 1, users |-> 2]
B == [tier |-> 5, users |-> 2]
B2 == [tier |-> 5, users |-> 1]
C == [tier |-> 9, users |-> 1]

MCProfiles == {<<B, A>>, <<A, B2, C>>, <<B, B2>>, <<>>}
==============================================================================
