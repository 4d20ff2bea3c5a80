---- MODULE MCUserStore ----
(* Instances of UserStore for TLC: the requests are interchangeable, and so  *)
(* are the passwords.  Only RegistrationChoiceHolds depends on the choice    *)
(* made at registration, so the other run makes one.                         *)
EXTENDS UserStore, TLC

MCAnyChoice == [Channels -> BOOLEAN]
MCOneChoice == {[channel \in Channels |-> FALSE]}

Symmetry == Permutations(Requests) \cup Permutations(Passwords)
====
