--------------------------- MODULE MCNotifications ---------------------------
(* Instance of Notifications for TLC. *)
EXTENDS Notifications

CONSTANTS p1, p2, k1

\* Two role changes of one recipient, one behind the other in the page, or a finished
\* run and an approval notice.
MCEvents == 1..2
MCRecipients == 1..1
MCRecipientOf == <<1, 1>>
MCConsumers == <<"completed", "c9">>
MCAssignments == {<<"c9", "c9">>, <<"completed", "notice">>}
=============================================================================
