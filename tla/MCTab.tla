-------------------------------- MODULE MCTab --------------------------------
(* PluginTab with two insertion points and arrays of two slots.              *)
EXTENDS PluginTab

AtPoint(p) == [point : {p}, anchor : Anchor \cup {"other"}]

SpfCalc      == {"SPF_CALC"}
SendPacket   == {"SEND_PACKET"}
AllRequests  == AtPoint("SPF_CALC") \cup AtPoint("SEND_PACKET") \cup
                {[point |-> "none", anchor |-> "PRE"]}
=============================================================================
