---------------------------- MODULE MCAksDeploy ----------------------------
(* Small instance of AksDeploy.  The add-ons and the WireGuard gateway have *)
(* nothing in common but the order of the steps: one operator uses every    *)
(* combination of the flags of the gateway, the other those of the add-ons. *)
EXTENDS AksDeploy

CONSTANTS ip1, ip2

MCIPs == {ip1, ip2}

WireguardUsage == {{}, {"wireguard"}, {"wireguard", "cilium"}, {"wireguard", "skipARM"}}

AddonUsage ==
    {{"cilium", "gpuOperator"}, {"unboundedCNI"}, {"unboundedCNI", "elsewhere", "skipARM"},
     Charts, {"draDriver", "elsewhere"}}

MCUsages == {WireguardUsage, AddonUsage}
=============================================================================
