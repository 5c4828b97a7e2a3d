---------------------------- MODULE MCGnssConfig ----------------------------
(* An instance of GnssConfig for TLC.                                      *)
EXTENDS GnssConfig

SomeConfigs ==
    {[lock |-> {"NI"}],
     [lock |-> {}, server |-> "supl"],
     [version |-> 2, blacklist |-> {<<"glo", 1>>, <<"glo", 65>>, <<"sbas", 190>>}, extension |-> 1]}

SomeSvConfigs == {[masks |-> [NoMasks EXCEPT !["sbas"] = {38, 40}, !["gal"] = Bits], types |-> Unset]}

SomeTypes == {{"bds"}}
=============================================================================
