--------------------------- MODULE MCNotifications ---------------------------
(***************************************************************************)
(* The instance of Notifications for TLC takes all constants from its      *)
(* configuration.                                                          *)
(***************************************************************************)
EXTENDS Notifications

\* A notification is tried no more often than its attempts and its resends allow.
SendsBounded == TypeOK /\ TriesBounded
=============================================================================
