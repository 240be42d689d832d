------------------------------ MODULE MCRelay ------------------------------
(* Relay with two handlers and the URLs its README documents: a service    *)
(* that posts to ?ack=1&retract=1, or one that posts to the plain URL and  *)
(* to ?channels=notification.                                              *)
EXTENDS Relay

MCHandlers == {1, 2}
Url(channels, asks) == [channels |-> channels, ack |-> asks, retract |-> asks]
Plain == Url({"activity", "notification"}, FALSE)
Asking == Url({"activity", "notification"}, TRUE)
PushOnly == Url({"notification"}, FALSE)
MCUrlSets == {{Asking}, {Plain, PushOnly}}
============================================================================
