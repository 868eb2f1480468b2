-------------------- MODULE MCConfigurationTransaction --------------------
(***************************************************************************)
(* Small instances of ConfigurationTransaction for TLC.  Contents: the     *)
(* built-in default, another safe one, one that fails the activation       *)
(* safety check and one this release only preserves read-only.             *)
(***************************************************************************)
EXTENDS TransactionPreflight

CONSTANTS default, other, unsafe, preserved

MCContent == {default, other, unsafe, preserved}
MCReadOnlyContent == {preserved}
MCUnsafeContent == {unsafe}

=============================================================================
