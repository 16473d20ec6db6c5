--------------------------- MODULE MCMatterBridge ---------------------------
(***************************************************************************)
(* Instances of MatterBridge for TLC: a home whose ids are apart, and the  *)
(* home of default_config, where contact 1 is the front door of zone 1 and *)
(* zone 1 has a water sensor.  Zone 4 is beyond the monitor's table.       *)
(***************************************************************************)
EXTENDS MatterBridge, HubConfig

MCWater == <<1, 2, 4>>
MCApart == 11 :> 3 @@ 12 :> 3
MCMeters == {[endpoint |-> 1, kinds |-> <<"Temperature">>],
             [endpoint |-> 3, kinds |-> <<"Co2", "Voc">>]}
MCMeasured == {-3, 1, 3}
MCInt16Min == -2

MCDefault == ConfigOf(DefaultHome)
MCDefaultWater == MCDefault.water
MCDefaultDoors ==
    [id \in {c.contact_id : c \in ToSet(MCDefault.contacts)} |->
        (CHOOSE c \in ToSet(MCDefault.contacts) : c.contact_id = id).zone_id]
MCNoMeters == {}

=============================================================================
