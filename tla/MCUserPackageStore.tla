------------------------ MODULE MCUserPackageStore ------------------------
\* Three components: two releases of one of them, the first of them built
\* twice with different bytes, a package that depends on it, and one more to
\* exceed the room in the catalog.
EXTENDS UserPackageStore

CONSTANTS base, leaf, other

MCComponent == {base, leaf, other}
MCVersion == {1, 2}
Release(id, version, digest) ==
    [id |-> id, version |-> version, digest |-> digest]
MCPackage ==
    {Release(base, 1, 1), Release(base, 1, 2), Release(base, 2, 3),
     Release(leaf, 1, 4), Release(other, 1, 5)}
MCNeeds == [p \in MCPackage |-> IF p.id = leaf THEN {base} ELSE {}]
=============================================================================
