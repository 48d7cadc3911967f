----------------------------- MODULE MCHadLink -----------------------------
(***************************************************************************)
(* Two profiles: the first has a bridge of two ports as downlink and the   *)
(* plain interface x as uplink; the second has x as downlink, and one of   *)
(* the ports, which the bridge of the first profile hides from             *)
(* had_set_link_state, as gateway; a layer-2 uplink is the bridge.         *)
(***************************************************************************)
EXTENDS HadLink

CONSTANTS x, p, q, b

MCIface == {x, p, q, b}
MCMember == [i \in {b} |-> {p, q}]
MCUplinkPort == [i \in {b} |-> {p}]
At(n, kind, i) == [prof |-> n, kind |-> kind, ifname |-> i]
MCSlot ==
    <<At(1, "uplink", x), At(1, "downlink", b),
      At(2, "l2_uplink", b), At(2, "downlink", x), At(2, "vgateway", p)>>
=============================================================================
