------------------------------- MODULE MCVfs -------------------------------
\* Two file systems, mounted at the root and at one directory.
EXTENDS Vfs, TLC

CONSTANTS A, B

TwoFileSystems == {A, B}
EitherOrder == Permutations(TwoFileSystems)

SomePaths == {<<"d">>, <<"f">>, <<"d", "f">>}
SomeMountPoints == {<<>>, <<"d">>}
SomeFlags == {{"READ"}, {"WRITE", "CREATE", "TRUNC"}}
SomePerms == {{"READ"}}
SomeTexts == {<<1>>}
=============================================================================
