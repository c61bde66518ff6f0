------------------------------ MODULE MC_Accounts ------------------------------
(* Model-checking instance of Accounts: two user names, two passwords.     *)
EXTENDS Accounts

CONSTANTS u1, u2, pw1, pw2

MC_Names == {u1, u2}
MC_Passwords == {pw1, pw2}

(* pw2 holds a quote: the INSERT that carries it is refused.              *)
MC_Unstorable == {pw2}

(* Both passwords are plain: only a lost connection fails the INSERT.     *)
MC_NoUnstorable == {}
=============================================================================
