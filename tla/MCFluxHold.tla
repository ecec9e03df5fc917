------------------------------ MODULE MCFluxHold ------------------------------
(* Two runs of the playbooks that hold Flux.                                *)
EXTENDS FluxHold, TLC

CONSTANTS r1, r2

BothTalos == (r1 :> "talos") @@ (r2 :> "talos")
OneProxmox == (r1 :> "proxmox")
=============================================================================
