-------------------------- MODULE MCPairingPasskey -------------------------
(***************************************************************************)
(* Two passkeys, so that one follows another: all zeros, which is also what     *)
(* stands in last_pairing_passkey_ without a passkey, and one that is longer   *)
(* than a passkey may be.  The counter wraps after a few times the two units    *)
(* that a passkey is up.                                                       *)
(***************************************************************************)
EXTENDS PairingPasskey

MCPasskeys == {0, 4}
=============================================================================
