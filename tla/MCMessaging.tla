---------------------------- MODULE MCMessaging ----------------------------
(* Instances of Messaging. *)
EXTENDS Messaging, TLC

\* Which handler takes a delivery makes no difference.
HandlerSymmetry == Permutations(Handlers)
=============================================================================
