---------------------------- MODULE SessionParts ----------------------------
(***************************************************************************)
(* The parts of a session that share nothing but the bus, side by side: in *)
(* a behaviour one of them runs and the others rest where they start.      *)
(***************************************************************************)
EXTENDS Naturals, Sequences

CONSTANTS
    None,
    MaxGeneration,                                      \* display
    MaxOperation, MaxDisturbance                        \* client

\* An empty optional is not a confirmation.
ASSUME DisplayAssumption ==
    /\ MaxGeneration \in Nat
    /\ None \notin [token: Nat, terminating: BOOLEAN, rolledBack: BOOLEAN]

VARIABLES
    subject,        \* the part that runs
    confirmation, state, terminal, timer, watch, available, step, ending,
    authority, authorityFailed, live, generations, deadline, ownerPresent,
    ownerLost, topologyExact, targetExact, terminated, decided, outcomes,
    service, requests, inbox, client, operations, disturbances

display ==
    <<confirmation, state, terminal, timer, watch, available, step, ending,
      authority, authorityFailed, live, generations, deadline, ownerPresent,
      ownerLost, topologyExact, targetExact, terminated, decided, outcomes>>
compositorClient == <<service, requests, inbox, client, operations, disturbances>>
vars == <<subject, display, compositorClient>>

Display == INSTANCE DisplayConfirmation
Client == INSTANCE CompositorClient

\* Nor is it an operation of the client's.
ASSUME ClientAssumption ==
    /\ MaxOperation \in Nat /\ MaxDisturbance \in Nat
    /\ None \notin [step: Client!Steps]
    /\ None \notin [step: Client!Steps, retry: BOOLEAN, expected: Nat, digest: Nat,
                    content: Client!Authors \X Nat]
    /\ None \notin [step: Client!Steps, retry: BOOLEAN, expected: Nat, digest: Nat,
                    content: Client!Authors \X Nat, base: Client!Authors \X Nat]

\* Those that rest do so in one of their initial states.
Init ==
    /\ subject \in {"display", "client"}
    /\ Display!Init
    /\ Client!Init
    /\ subject # "client" => ~service.managed

OnlyDisplay ==
    /\ subject = "display"
    /\ UNCHANGED <<subject, compositorClient>>

OnlyClient ==
    /\ subject = "client"
    /\ UNCHANGED <<subject, display>>

Next ==
    \/ OnlyDisplay /\ Display!Next
    \/ OnlyClient /\ Client!Next

\* What each part is sure of, as its own specification states it.
LiveSpec ==
    /\ Init
    /\ [][Next]_vars
    /\ \A s \in Display!Certain : WF_vars(OnlyDisplay /\ Display!CertainStep(s))
    /\ \A s \in Client!Certain : WF_vars(OnlyClient /\ Client!CertainStep(s))

-----------------------------------------------------------------------------

(* The properties of each part, stated and explained in its module.        *)

\* A preview on offer is guarded, a service that takes mutations is settled,
\* no preview is both kept and taken back, and what was answered stays true.
PreviewIsSafe == subject = "display" => Display!PreviewIsSafe

\* A preview nobody answers ends.
PreviewEnds == Display!PreviewEnds

\* What the user was told of a save is true.
ToldIsTrue == subject = "client" => Client!ToldIsTrue

\* No operation starts from a configuration the user has not seen.
ActsOnWhatWasShown == Client!ActsOnWhatWasShown

\* A client that is left alone ends up showing what the service has.
ClientConverges == subject = "client" => Client!ClientConverges

=============================================================================
