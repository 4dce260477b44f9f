------------------------- MODULE MCStorageServices -------------------------
\* Two names, one of them a setting kept open by a reader, and room for two entries.
EXTENDS StorageServices

SomePaths == {<<"settings", "k">>}
SomeMountPoints == {}
SomeFlags == {{"READ"}}
SomePerms == {}
SomeTexts == {<<1>>, <<2, 2>>, <<3, 3, 3>>}
=============================================================================
