---------------------------- MODULE AutoPowerOff ----------------------------
(***************************************************************************)
(* The headset that switches itself off (power/app_auto_power_off.c), on    *)
(* top of the connection policy: a countdown that every part of the program *)
(* can hold back under a mask of its own, and that starts when the last     *)
(* hold is released.                                                        *)
(*                                                                          *)
(* The holds of four parts are modelled: pairing mode, linkback and phones  *)
(* (the policy's indications, app_device_link_policy_ind), LE links         *)
(* (app_ble_gap.c) and the power-down that follows a switch-off             *)
(* (app_dlps.c).  The product sets timer_auto_power_off, which enables the  *)
(* countdown, and leaves the one for a connected phone at zero.  Every step *)
(* of BtPolicy is a step here, with what the countdown makes of it.         *)
(***************************************************************************)
EXTENDS BtPolicy

CONSTANTS
    LeConns,    \* connection identifiers of LE links
    LeStates    \* bound: the states of the policy in which LE links come up

VARIABLES
    auto,   \* poweroff_flag, its timer, and the two flags of app_device.c
    le,     \* app_db.le_link: the state of every LE link
    authed  \* acl.authed of the used entries of app_db.br_link

headsetVars == <<vars, auto, le, authed>>

Holds == {"pairing", "linkback", "source_link", "ble_link", "already_off"}

(* app_auto_power_off_init, and the statics of app_device.c *)
BootAuto == [holds |-> {}, timer |-> FALSE, pairing |-> FALSE, linkback |-> FALSE]

NoLe == [c \in LeConns |-> "free"]

HeadsetInit == Init /\ auto = BootAuto /\ le = NoLe /\ authed = {}

-----------------------------------------------------------------------------
(* app_auto_power_off_disable *)
Held(m, h) == [m EXCEPT !.holds = @ \cup {h}, !.timer = FALSE]

(* app_auto_power_off_enable: the countdown starts, or starts anew, when    *)
(* the last hold goes.                                                      *)
Released(m, H) ==
    [m EXCEPT !.holds = @ \ H, !.timer = IF m.holds \subseteq H THEN TRUE ELSE @]

(* BP_EVENT_STATE_CHANGED in app_device_link_policy_ind.  Entering linkback *)
(* and leaving it within one handler of the policy, or a state entered      *)
(* twice, only starts the countdown anew.                                   *)
PairingInd(m, s) ==
    IF s = "pairing" THEN [Held(m, "pairing") EXCEPT !.pairing = TRUE]
    ELSE IF m.pairing THEN [Released(m, {"pairing"}) EXCEPT !.pairing = FALSE]
    ELSE m

(* Faulty: the flag goes and the hold stays. *)
BadLinkbackInd(m, s) ==
    IF s = "linkback" THEN Held(m, "linkback") ELSE m

LinkbackInd(m, s) ==
    IF s = "linkback" THEN [Held(m, "linkback") EXCEPT !.linkback = TRUE]
    ELSE IF m.linkback THEN [Released(m, {"linkback"}) EXCEPT !.linkback = FALSE]
    ELSE m

StateInd(m, s) ==
    IF s = "shutdown" THEN m ELSE LinkbackInd(PairingInd(m, s), s)

(* BP_EVENT_SRC_AUTH_SUC, which event_ind swallows from STATE_SHUTDOWN_STEP *)
(* on.  BP_EVENT_SRC_DISCONN_..., which would release this hold, is never   *)
(* raised.                                                                  *)
AuthInd(m, s) ==
    IF s \in {"shutdown_step", "shutdown", "stop"} THEN m ELSE Held(m, "source_link")

(* SYS_EVENT_POWER_ON: app_dlps_enable_auto_poweroff_stop_wdg_timer *)
SwitchedOn(m) ==
    Released([m EXCEPT !.pairing = FALSE, !.linkback = FALSE], {"already_off"})

(* SYS_EVENT_POWER_OFF: every hold but one is released, the policy leaves   *)
(* its state for s, and app_dlps_power_off holds the countdown for good.    *)
SwitchedOff(m, s) ==
    Held(StateInd(Released(m, Holds \ {"already_off"}), s), "already_off")

-----------------------------------------------------------------------------
(* app_auto_power_off_timeout_cb: MMI_DEV_POWER_OFF *)
AutoTimeout ==
    /\ auto.timer
    /\ PowerOff
    /\ auto' = SwitchedOff([auto EXCEPT !.timer = FALSE], bp'.state)
    /\ UNCHANGED <<le, authed>>

Switch ==
    \/ PowerOn /\ auto' = SwitchedOn(auto) /\ authed' = {} /\ UNCHANGED le
    \/ PowerOff /\ auto' = SwitchedOff(auto, bp'.state) /\ UNCHANGED <<le, authed>>
    \/ Reboot /\ auto' = BootAuto /\ le' = NoLe /\ authed' = {}

(* connected_node_auth_suc, then the indication, then the policy's state. *)
Authenticated(a) ==
    /\ AclAuthenSuccess(a)
    /\ authed' = authed \cup ({a} \cap links.on)
    /\ auto' = StateInd(AuthInd(auto, bp.state), bp'.state)
    /\ UNCHANGED le

(* The steps of the policy that the countdown hears of by its state only. *)
Indicated ==
    /\ \/ StepTimeout \/ PowerOnTimeout \/ LinkbackTimeout \/ Host
       \/ \E a \in Addrs :
             \/ AclConnInd(a) \/ AclConnSuccess(a) \/ PageTimeout(a)
             \/ AclCancelled(a) \/ AclConnDisconn(a)
             \/ SdpAttrInfo(a) \/ SdpDiscovCmpl(a)
       \/ \E a \in Addrs, p \in Profs :
             ProfConnCmpl(a, p) \/ ProfConnFail(a, p) \/ ProfDisconnCmpl(a, p)
    /\ auto' = StateInd(auto, bp'.state)
    /\ authed' = authed \cap links'.on
    /\ UNCHANGED le

(* GAP_CONN_STATE_CONNECTING, GAP_CONN_STATE_CONNECTED and                  *)
(* GAP_CONN_STATE_DISCONNECTED: the hold goes with the last LE link, which  *)
(* may be one that never was connected.                                     *)
LeConnecting(c) ==
    /\ device = "on" /\ bp.state \in LeStates
    /\ le[c] = "free"
    /\ le' = [le EXCEPT ![c] = "connecting"]
    /\ UNCHANGED <<vars, auto, authed>>

LeConnected(c) ==
    /\ le[c] = "connecting"
    /\ le' = [le EXCEPT ![c] = "connected"]
    /\ auto' = Held(auto, "ble_link")
    /\ UNCHANGED <<vars, authed>>

(* Faulty: nobody counts the links that remain. *)
BadLeDisconnected(c) ==
    /\ le[c] # "free"
    /\ le' = [le EXCEPT ![c] = "free"]
    /\ auto' = Released(auto, {"ble_link"})
    /\ UNCHANGED <<vars, authed>>

LeDisconnected(c) ==
    /\ le[c] # "free"
    /\ le' = [le EXCEPT ![c] = "free"]
    /\ auto' = IF le' = NoLe THEN Released(auto, {"ble_link"}) ELSE auto
    /\ UNCHANGED <<vars, authed>>

HeadsetNext ==
    \/ AutoTimeout \/ Switch \/ Indicated
    \/ \E a \in Addrs : Authenticated(a)
    \/ \E c \in LeConns : LeConnecting(c) \/ LeConnected(c) \/ LeDisconnected(c)

HeadsetSpec == HeadsetInit /\ [][HeadsetNext]_headsetVars

(* The countdown, as any started timer, runs out. *)
HeadsetFairSpec == HeadsetSpec /\ Fairness /\ WF_headsetVars(AutoTimeout)

-----------------------------------------------------------------------------
(* In use: nobody wants the headset to switch itself off. *)
InUse ==
    \/ bp.state \in {"pairing", "linkback"}
    \/ \E c \in LeConns : le[c] = "connected"
    \/ authed # {}

(* The holds are kept by different parts, under masks that are set and      *)
(* cleared on different events: the countdown never runs while one of these *)
(* parts works, and it does run when none of them does and no phone was     *)
(* connected before, whatever order their events came in and however the    *)
(* device got here.                                                         *)
CountdownWhenIdle ==
    /\ auto.holds \subseteq Holds
    /\ auto.timer => device = "on" /\ ~InUse
    /\ device = "on" /\ ~InUse /\ le = NoLe /\ "source_link" \notin auto.holds
          => auto.timer

(* A headset that no phone comes to, and that nobody puts into pairing      *)
(* mode, switches itself off, whatever linkback tries before.               *)
ForgottenTurnsOff ==
    device = "on"
        ~> \/ device # "on" \/ bp.state = "pairing"
           \/ "source_link" \in auto.holds \/ le # NoLe
=============================================================================
