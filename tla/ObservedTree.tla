---------------------------- MODULE ObservedTree ----------------------------
(***************************************************************************)
(* A part of the file system that others change while it is observed: what *)
(* the captures of the version 2 authority read with openat(2), fstat(2)   *)
(* and fstatat(2), one call in a step.  Every change of a file or a        *)
(* directory gives it a change time of its own (clock); a file system that *)
(* does not is outside of what the captures promise                        *)
(* (dormant_v2_generation_tree_capture.h).                                 *)
(***************************************************************************)
EXTENDS Naturals, Sequences, FiniteSets, SequencesExt

CONSTANTS
    None,
    Nodes,          \* files and directories, numbers
    Directories,    \* those of Nodes that are directories
    Places,         \* pairs of a directory and a name in it
    Own,            \* the node that is first at each place, as its writer left it
    Bytes,          \* what a file may hold, a sequence of the blocks read(2) returns
    MaxMutations    \* bound on what others change

VARIABLES
    volume,         \* node: contents and metadata; name: the node at a place
    clock,
    observer,       \* the call that captures
    between         \* what was on disk between the two passes of the call

vars == <<volume, clock, observer, between>>

Files == Nodes \ Directories

\* The places that name a node (st_nlink of a file).
PlacesOf(id) == {p \in Places : volume.name[p] = id}

\* stat(2); exact: type, owner and mode are what the writers of this program
\* give such a node.
Stat(id) ==
    [id |-> id, stamp |-> volume.node[id].stamp, exact |-> volume.node[id].exact,
     links |-> IF id \in Files THEN Cardinality(PlacesOf(id)) ELSE 1,
     size |-> Len(volume.node[id].bytes)]

\* fstatat(2), and what openat(2) opens.
Named(p) == volume.name[p]
StatAt(p) == IF Named(p) = None THEN None ELSE Stat(Named(p))

Stamped(ids, d) ==
    [d EXCEPT !.node = [id \in Nodes |-> IF id \in ids THEN [@[id] EXCEPT !.stamp = clock + 1]
                                         ELSE @[id]]]

Edit ==
    \E id \in Files, bytes \in Bytes :
        /\ bytes # volume.node[id].bytes
        /\ volume' = Stamped({id}, [volume EXCEPT !.node[id].bytes = bytes])

Chmod ==
    \E id \in Nodes :
        volume' = Stamped({id}, [volume EXCEPT !.node[id].exact = ~@])

Unlink ==
    \E p \in Places :
        /\ Named(p) # None
        /\ volume' = Stamped({p[1], Named(p)}, [volume EXCEPT !.name[p] = None])

\* rename(2) of a node that has no name here; a directory returns to its place.
MoveIn ==
    \E p \in Places, id \in Nodes :
        /\ PlacesOf(id) = {}
        /\ id \in Directories => Own[p] = id /\ Named(p) = None
        /\ volume' = Stamped({p[1], id}, [volume EXCEPT !.name[p] = id])

Mutate ==
    /\ clock < MaxMutations
    /\ clock' = clock + 1
    /\ Edit \/ Chmod \/ Unlink \/ MoveIn
    /\ UNCHANGED <<observer, between>>

\* What the writers of this program left, but for some places.
Left(absent) ==
    [node |-> [id \in Nodes |->
                  [bytes |-> IF id \in Files THEN CHOOSE b \in Bytes : TRUE ELSE <<>>,
                   stamp |-> 0, exact |-> TRUE]],
     name |-> [p \in Places |-> IF p \in absent THEN None ELSE Own[p]]]

=============================================================================
