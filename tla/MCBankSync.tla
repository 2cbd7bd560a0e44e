------------------------------ MODULE MCBankSync ------------------------------
(* Two requests at a time; two accounts of one bank, one with a purchase. *)
EXTENDS BankSync, TLC

CONSTANTS checking, card, coffee

MCAccountOf == coffee :> checking
MCAlike == Permutations(Workers)
=============================================================================
