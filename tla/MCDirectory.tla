----------------------------- MODULE MCDirectory -----------------------------
(***************************************************************************)
(* Instances of Directory for TLC.                                          *)
(***************************************************************************)
EXTENDS Directory, TLC

CONSTANTS r1, r2, r3, u1, m1, c1

\* The fields are given one by one; a user is created with an e-mail, and a
\* picture given is one of the start.
MCCompanyBodies == [email : Emails] \cup [logo : {c1}]
MCUserBodies ==
    [email : Emails] \cup [companyIds : {{}}] \cup [avatar : {u1}]
    \cup [reset : Requests, expired : {FALSE}]

MCCompanyEmail == [c \in EarlierCompanies |-> m1]
MCAccountEmail == [u \in EarlierAccounts |-> m1]
MCArrivalBound == [s \in Scopes |-> IF s = "accounts" THEN 2 ELSE 3]
MCSymmetry == Permutations(Requests)
=============================================================================
