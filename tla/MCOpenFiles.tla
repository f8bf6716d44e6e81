---------------------------- MODULE MCOpenFiles -----------------------------
(* OpenFiles for TLC: two files with backups, or one file in the list next *)
(* to one outside.  Files, descriptors and items are interchangeable.      *)
EXTENDS OpenFiles, TLC

MCConfigurations == {k \in [Files -> Kinds] :
                       {k[f] : f \in Files} \in {{"backup"}, {"blacklisted", "default"},
                                                 {"unlisted", "readonly"}}}

MCSymmetry == Permutations(Files) \cup Permutations(Fds) \cup Permutations(Items)

=============================================================================
