-------------------------- MODULE MCNotifications --------------------------
(* One target and two types of events: COMMBAD, which is withheld when it  *)
(* is repeated, and ONBATT, which never is.                                *)
EXTENDS Notifications

(* Nothing is dropped, one channel's table alone, or mail's with the   *)
(* routes.                                                             *)
SomeLosses == {{}, {"ntfy"}, {"mail", "routes"}}

NoneOrAll == {{}, Channels}
=============================================================================
