-------------------------------- MODULE MCAtm --------------------------------
(***************************************************************************)
(* A PIN of one digit, three cards, money for two withdrawals.             *)
(***************************************************************************)
EXTENDS Atm

OneDigit == <<5>>
=============================================================================
