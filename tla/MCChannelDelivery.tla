------------------------- MODULE MCChannelDelivery -------------------------
(* Instances of ChannelDelivery.                                           *)
EXTENDS ChannelDelivery

None == {}
Second == {2}
============================================================================
