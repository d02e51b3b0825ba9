----------------------------- MODULE MCConnection -----------------------------
(* Instances of Connection for TLC: two profiles that lead to two radios. *)
EXTENDS Connection, TLC

CONSTANTS wifi, usb, base, car

TwoRadios == (wifi :> base) @@ (usb :> car)
OneRadio == (wifi :> base) @@ (usb :> base)
SameRoles == Permutations(Client) \cup Permutations(Profile)
Unfiled == <<store, service, at, open, connects>>
====
