----------------------- MODULE RevisionedAuthority -----------------------
(***************************************************************************)
(* What the compositor configuration authority promises, whatever crashes  *)
(* and storage faults happen: one desired snapshot whose revision only     *)
(* grows, one applied transaction, at most one prepared transaction, every *)
(* change atomic, and a power loss that undoes at most the one change no   *)
(* caller was told had succeeded.                                          *)
(***************************************************************************)
EXTENDS Naturals

CONSTANTS
    Content,
    DefaultContent,
    MaxRevision,
    MaxNonce,
    None

VARIABLES
    value,      \* [desired, applied, prepared]
    fallback    \* the values a power loss may leave

vars == <<value, fallback>>

Version == [revision: 0..MaxRevision, content: Content]
Transaction == [version: Version, nonce: 1..MaxNonce]
Value ==
    [desired: Version \cup {None},
     applied: Transaction \cup {None},
     prepared: Transaction \cup {None}]

\* An atomic change: durable at once, or only once it is settled.
Change(next) ==
    /\ value' = next
    /\ \/ fallback' = {next}
       \/ fallback' = fallback \cup {next}

\* First start on an empty store.
Default ==
    /\ value.desired = None
    /\ Change([value EXCEPT !.desired =
                  [revision |-> 0, content |-> DefaultContent]])

\* Compare-and-swap on the revision.
Replace(content) ==
    /\ value.desired # None
    /\ value.prepared = None
    /\ value.desired.revision < MaxRevision
    /\ content # value.desired.content
    /\ Change([value EXCEPT !.desired =
                  [revision |-> @.revision + 1, content |-> content]])

\* An Apply prepares the desired version, a recovery or a display preview its
\* successor.  A nonce is never prepared a second time after it was applied.
Prepare(version, nonce) ==
    /\ value.desired # None
    /\ value.prepared = None
    /\ \/ version = value.desired
       \/ version.revision = value.desired.revision + 1
    /\ value.applied # None => nonce > value.applied.nonce
    /\ Change([value EXCEPT !.prepared = [version |-> version, nonce |-> nonce]])

\* The commit decision installs desired and applied state in one step.
Decide ==
    /\ value.prepared # None
    /\ Change([desired |-> value.prepared.version,
               applied |-> value.prepared, prepared |-> None])

Abandon ==
    /\ value.prepared # None
    /\ Change([value EXCEPT !.prepared = None])

Settle ==
    /\ fallback' = {value}
    /\ UNCHANGED value

PowerLoss ==
    /\ value' \in fallback
    /\ fallback' = {value'}

Init ==
    /\ value \in [desired: {None} \cup [revision: {0}, content: Content],
                  applied: {None}, prepared: {None}]
    /\ fallback = {value}

Next ==
    \/ Default
    \/ \E content \in Content : Replace(content)
    \/ \E version \in Version, nonce \in 1..MaxNonce : Prepare(version, nonce)
    \/ Decide
    \/ Abandon
    \/ Settle
    \/ PowerLoss

Spec == Init /\ [][Next]_vars

=============================================================================
