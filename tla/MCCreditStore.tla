---------------------------- MODULE MCCreditStore ----------------------------
(* Small instance of CreditStore: every method called in every order. *)
EXTENDS CreditStore, TLC

(* A negative amount, zero, and two positive ones. *)
SignedAmounts == {-1, 0, 1, 2}

(* Users are interchangeable. *)
Symm == Permutations(Users)
=============================================================================
