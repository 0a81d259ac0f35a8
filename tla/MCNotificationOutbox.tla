------------------------ MODULE MCNotificationOutbox ------------------------
(***************************************************************************)
(* Small instances of NotificationOutbox.                                  *)
(***************************************************************************)
EXTENDS NotificationOutbox, TLC

Symmetry == Permutations(Pollers) \cup Permutations(Attempts)
            \cup Permutations(Tokens)
=============================================================================
