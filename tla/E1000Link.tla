------------------------------ MODULE E1000Link ------------------------------
(***************************************************************************)
(* Link management as a state machine: the guest's MDIC accesses and       *)
(* interrupt acknowledgement, the auto-negotiation timer, the host's       *)
(* set_link command, system reset, savevm and migration.                   *)
(***************************************************************************)
EXTENDS E1000Phy

VARIABLES
    nic,        \* the link part of E1000State and its NetClientState
    wish,       \* history: the last set_link took the link down
    stranded    \* history: migrated while negotiating without a trace of it

vars == <<nic, wish, stranded>>

Init == nic = ResetLink(FALSE) /\ wish = FALSE /\ stranded = FALSE

(* Guest: a write of MDIC, for this PHY or another, and the registers that *)
(* acknowledge and unmask the causes.                                      *)
WriteMDIC ==
    \E phy1 \in BOOLEAN, op \in {"READ", "WRITE", "NONE"}, addr \in PhyRegs,
       data \in SUBSET CtrlBits, inten \in BOOLEAN :
        /\ nic' = set_mdic(nic, phy1, op, addr, data, inten)
        /\ UNCHANGED <<wish, stranded>>

ReadICR ==
    nic' = [nic EXCEPT !.irq = mac_icr_read(@)] /\ UNCHANGED <<wish, stranded>>

WriteIMS ==
    /\ \E val \in SUBSET Causes : nic' = [nic EXCEPT !.irq = set_ims(@, val)]
    /\ UNCHANGED <<wish, stranded>>

WriteIMC ==
    /\ \E val \in SUBSET Causes : nic' = [nic EXCEPT !.irq = set_imc(@, val)]
    /\ UNCHANGED <<wish, stranded>>

(* The main loop runs the expired timer.                                   *)
AutonegTimer ==
    /\ nic.autoneg_timer
    /\ nic' = e1000_autoneg_timer([nic EXCEPT !.autoneg_timer = FALSE])
    /\ UNCHANGED <<wish, stranded>>

(* qmp_set_link stores nc->link_down and calls link_status_changed.  It is *)
(* the only action that says what the host wants.                          *)
SetLink ==
    \E up \in BOOLEAN :
        /\ nic' = e1000_set_link_status([nic EXCEPT !.link_down = ~up])
        /\ wish' = ~up /\ stranded' = FALSE

Reset  == nic' = ResetLink(nic.link_down) /\ UNCHANGED <<wish, stranded>>
Savevm == nic' = PreSaveLink(nic) /\ UNCHANGED <<wish, stranded>>

(* A negotiation runs, but the guest has written PHY_CTRL since and        *)
(* cleared the restart bit.  The timer is not saved, so nothing that is    *)
(* saved shows the negotiation.                                            *)
HiddenNegotiation ==
    /\ ~nic.LU /\ ~wish /\ nic.autoneg_timer
    /\ ~Restarts(nic.phy_reg["PHY_CTRL"])

Migrate ==
    /\ nic' = PostLoadLink(PreSaveLink(nic))
    /\ stranded' = (stranded \/ HiddenNegotiation)
    /\ wish' = wish

Next ==
    \/ WriteMDIC \/ ReadICR \/ WriteIMS \/ WriteIMC
    \/ AutonegTimer \/ SetLink \/ Reset \/ Savevm \/ Migrate

(* The virtual clock reaches the 500 ms of the timer: the guest does not   *)
(* restart negotiation for ever in shorter intervals.                      *)
Fairness == WF_vars(AutonegTimer)

Spec     == Init /\ [][Next]_vars
FairSpec == Spec /\ Fairness

-----------------------------------------------------------------------------
(* The MAC's and the PHY's view of the link never disagree, whatever the   *)
(* guest writes through MDIC.                                              *)
LinkBitsAgree == nic.LU <=> "LINK_STATUS" \in nic.phy_reg["PHY_STATUS"]

(* A link the host took down stays down for the guest: no negotiation      *)
(* timer started before or after, no reset and no migration brings it up.  *)
AdminDownHolds == wish => ~nic.LU

(* A link that is down although the host wants it up is being negotiated:  *)
(* the timer that will bring it up is armed, and the host's wish is known, *)
(* so that the timer's guard lets it (e1000.c:189-217, 1301-1331).  The    *)
(* one exception is a migration during a negotiation whose restart bit the *)
(* guest has cleared: e1000_post_load takes the link for one the host took *)
(* down, against its comment that a negotiation in progress is restarted   *)
(* (e1000.c:1314-1316), until the next set_link.                           *)
DownOnlyWhileNegotiating ==
    ~nic.LU /\ ~wish /\ ~stranded => nic.autoneg_timer /\ ~nic.link_down

(* Migration never forgets that the host took the link down, whatever the  *)
(* guest wrote to the PHY: the destination, told nothing, infers it.       *)
MigrationKeepsDown == [][Migrate /\ wish => nic'.link_down]_vars

(* Negotiation ends: the link comes back unless the host takes it down or  *)
(* a migration strands it in the way described above.                      *)
LinkComesBack == (~nic.LU /\ ~wish) ~> (nic.LU \/ wish \/ stranded)
=============================================================================
