------------------------------ MODULE MCProbe ------------------------------
(***************************************************************************)
(* Two probes that exchange SFU traffic, or pings on their connection.     *)
(***************************************************************************)
EXTENDS Probe

ConstProbes == {1, 2}
Load(ticks, pings, leavers) == [ticks |-> ticks, pings |-> pings, leavers |-> leavers]

ConstLoads ==
  {Load(<<0, 2>>, 0, {}), Load(<<1, 0>>, 0, {1, 2}), Load(<<0, 1>>, 0, {1, 2}), Load(<<0, 0>>, 2, {1, 2})}
=============================================================================
