------------------------------ MODULE MCDoors ------------------------------
(***************************************************************************)
(* Three tokens that verify, two of listed accounts, expiring one after    *)
(* another, fill a table that is cleaned past one; a fourth is not         *)
(* Google's; one is also a shared key.                                     *)
(***************************************************************************)
EXTENDS Doors

MCAccountOf == [ta |-> "a", tb |-> "b", tc |-> "c", forged |-> None]
MCExpOf     == [ta |-> 1, tb |-> 2, tc |-> 2, forged |-> 2]

=============================================================================
