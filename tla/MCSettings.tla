----------------------------- MODULE MCSettings -----------------------------
EXTENDS Settings, TLC

\* Administrators, names and users are interchangeable.
Symmetry ==
    Permutations(Admins) \cup Permutations(Names) \cup Permutations(Categories)
        \cup Permutations(Users)

===========================================================================
