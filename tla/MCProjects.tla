----------------------------- MODULE MCProjects -----------------------------
\* The project registry on small sets: see README, "Runs and bounds".
EXTENDS Projects, TLC

SourcePerms == Permutations(Sources)
Perms == Permutations(Ids) \cup SourcePerms
=============================================================================
