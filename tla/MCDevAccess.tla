----------------------------- MODULE MCDevAccess -----------------------------
(* The instance of DevAccess that TLC checks: two fields, one of them a    *)
(* status; the shipped kind of configuration (a XinJie, an unsupported and *)
(* a Fx3u device), two Fx3u devices, and files with a section missing.     *)
EXTENDS DevAccess

Config(devices) ==
    [plc |-> devices, hasRoot |-> TRUE, hasPlc |-> TRUE, hasSql |-> TRUE, hasSvr |-> TRUE]

Shipped == Config(<<"XinJie", "Q03UDV", "FX3U">>)
TwoFx3u == Config(<<"FX3U", "FX3U", "Q02U">>)

MCFiles ==
    {Shipped, TwoFx3u,
     [Shipped EXCEPT !.hasRoot = FALSE], [Shipped EXCEPT !.hasPlc = FALSE],
     [Shipped EXCEPT !.hasSql = FALSE], [Shipped EXCEPT !.hasSvr = FALSE]}

MCStatusFields == {1}
MCVals == {0, 1}
MCStatuses == {0}
MCGarbage == 99
==============================================================================
