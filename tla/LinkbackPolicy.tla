--------------------------- MODULE LinkbackPolicy ---------------------------
(***************************************************************************)
(* The decisions of bredr/app_bt_policy.c and bredr/app_linkback.c as       *)
(* functions.  A policy b is the record of the static variables of the two  *)
(* files, a link table l the record of b2s_connected and of the used        *)
(* entries of app_db.br_link; each function returns the policy that the C   *)
(* function of about the same name leaves behind.  BtPolicy calls them from *)
(* its event handlers.                                                      *)
(*                                                                          *)
(* The build modelled: enable_power_on_linkback and enable_multi_link are   *)
(* 1, the other options of app_bt_policy_cfg.c as that file sets them,      *)
(* APP_DASHBOARD_DEMO_SUPPORT is not defined.  No call is in progress.      *)
(* Left out because no code reachable in that build reads or sets them:     *)
(* is_exit, after_stop_sdp_todo_linkback_run_flag (only EVENT_SRC_CONN_FAIL *)
(* and the EVENT_SRC_DISCONN_* events look at them, and nothing sends       *)
(* those), disconnect_for_pairing_mode, bond_list_load_flag (its only       *)
(* reader runs once per power-on) and the delay timer.                      *)
(***************************************************************************)
EXTENDS LinkbackNodes

CONSTANTS
    MaxLinks,   \* b2s_connected.num_max
    Rank,       \* position of a profile in prof_arr
    Related,    \* prof_relation: the profiles that fail with a profile
    Bonds,      \* the bonded sources as [addr, profs], by priority
    NoAddr,     \* a zeroed bd_addr
    NoProf      \* doing_prof = 0

ASSUME MaxLinksAssumption == MaxLinks \in Nat \ {0}
ASSUME RankAssumption ==
    /\ Rank \in [Profs -> Nat]
    /\ \A p, q \in Profs : Rank[p] = Rank[q] => p = q
ASSUME RelatedAssumption == Related \in [Profs -> SUBSET Profs]
ASSUME BondsAssumption ==
    /\ Bonds \in Seq([addr : Addrs, profs : SUBSET Profs])
    /\ Len(Bonds) <= NodeNum
    /\ \A i, j \in DOMAIN Bonds : Bonds[i].addr = Bonds[j].addr => i = j
ASSUME NoAssumption == NoAddr \notin Addrs /\ NoProf \notin Profs

Stable == {"connected", "pairing", "standby"}
States == Stable \cup {"startup", "stop", "linkback", "shutdown_step", "shutdown"}
Radios == {"idle", "connectable", "discoverable"}

(* linkback_active_node; force and member are those of the loaded node. *)
ActiveNode ==
    [valid : BOOLEAN, addr : Addrs \cup {NoAddr}, plan : SUBSET Profs,
     remain : SUBSET Profs, doing : Profs \cup {NoProf}, sdpOk : BOOLEAN,
     retry : 0..2, force : BOOLEAN, member : BOOLEAN]

NoActive ==
    [valid |-> FALSE, addr |-> NoAddr, plan |-> {}, remain |-> {},
     doing |-> NoProf, sdpOk |-> FALSE, retry |-> 0, force |-> FALSE,
     member |-> FALSE]

Full(l) == l.num >= MaxLinks
Over(l) == l.num > MaxLinks

-----------------------------------------------------------------------------
(* app_linkback.c: the active node. *)

(* linkback_active_node_load_doing_prof *)
FirstProf(R) ==
    IF R = {} THEN NoProf ELSE CHOOSE p \in R : \A q \in R : Rank[p] <= Rank[q]

(* linkback_active_node_load *)
Load(n) ==
    IF n.profs = {} THEN NoActive
    ELSE [valid |-> TRUE, addr |-> n.addr, plan |-> n.profs, remain |-> n.profs,
          doing |-> FirstProf(n.profs), sdpOk |-> FALSE, retry |-> 0,
          force |-> n.force, member |-> n.member]

(* linkback_active_node_step_suc_adjust_remain_profs *)
StepSuc(act) ==
    LET R == act.remain \ {act.doing}
    IN  [act EXCEPT !.remain = R, !.doing = FirstProf(R), !.sdpOk = FALSE,
                    !.retry = 0]

(* Faulty variants, named Bad..., show that the properties can fail: here   *)
(* the third failure keeps the profile.                                     *)
BadStepFailKeeps(act) ==
    [act EXCEPT !.sdpOk = FALSE, !.retry = IF @ < 2 THEN @ + 1 ELSE 0]

(* Faulty: no limit. *)
BadStepFailForever(act) == [act EXCEPT !.sdpOk = FALSE, !.retry = @ + 1]

(* linkback_active_node_step_fail_adjust_remain_profs: the third failure    *)
(* gives the profile up, and those that make no sense without it.           *)
StepFail(act) ==
    LET gone == IF act.doing = NoProf THEN {}
                ELSE {act.doing} \cup Related[act.doing]
        R == act.remain \ gone
    IN  IF act.retry < 2
        THEN [act EXCEPT !.sdpOk = FALSE, !.retry = @ + 1]
        ELSE [act EXCEPT !.sdpOk = FALSE, !.retry = 0, !.remain = R,
                         !.doing = FirstProf(R)]

(* linkback_active_node_judge_cur_conn_addr and _prof *)
IsActive(b, a) == b.active.valid /\ b.active.addr = a
IsDoing(b, a, p) == IsActive(b, a) /\ b.active.doing = p /\ b.active.sdpOk

(* linkback_active_node_use_left_time_insert_to_queue_again(false): left    *)
(* says whether the timeout of the node is not used up.                     *)
UseLeftTime(b, left) ==
    LET act == b.active
    IN  IF left
        THEN [b EXCEPT !.todo = InsertForce(@, act.addr, act.plan, act.member)]
        ELSE IF act.member THEN [b EXCEPT !.todo = DeleteGroup(@)] ELSE b

(* linkback_load_bond_list *)
BondQueue ==
    [i \in DOMAIN Bonds |-> [addr |-> Bonds[i].addr, profs |-> Bonds[i].profs,
                             force |-> FALSE, member |-> TRUE]]

-----------------------------------------------------------------------------
(* app_bt_policy.c: states and radio mode. *)

(* enter_state: during linkback the device is discoverable in any case. *)
EnterState(b, s, r) ==
    [b EXCEPT !.state = s, !.radio = IF s = "linkback" THEN "discoverable" ELSE r]

(* Faulty: the linkback timer runs on. *)
BadStableEntry(b) == [b EXCEPT !.startupDone = TRUE]

(* stable_sched, up to its switch *)
StableEntry(b) == [b EXCEPT !.timers = @ \ {"linkback"}, !.startupDone = TRUE]

EnterConnected(b, l) ==
    EnterState(b, "connected", IF Full(l) THEN "idle" ELSE "connectable")

(* STABLE_ENTER_MODE_NORMAL *)
StableNormal(b, l) ==
    LET e == StableEntry(b)
        s == IF l.num # 0 THEN EnterConnected(e, l)
             ELSE IF b.linkbackFlag THEN EnterState(e, "standby", "connectable")
             ELSE EnterState(e, "pairing", "discoverable")
    IN  [s EXCEPT !.linkbackFlag = FALSE]

(* STABLE_ENTER_MODE_AGAIN, for EVENT_SRC_AUTH_SUC *)
StableAgain(b, l) ==
    LET e == StableEntry(b)
    IN  IF l.num # 0 THEN EnterConnected(e, l)
        ELSE IF b.state = "pairing" THEN EnterState(e, "pairing", "discoverable")
        ELSE EnterState(e, "standby", "connectable")

(* STABLE_ENTER_MODE_DEDICATED_PAIRING, visible as all callers want it *)
StablePairing(b) == EnterState(StableEntry(b), "pairing", "discoverable")

(* STABLE_ENTER_MODE_NOT_PAIRING *)
StableNotPairing(b, l) ==
    IF l.num # 0 THEN EnterConnected(StableEntry(b), l)
    ELSE EnterState(StableEntry(b), "standby", "connectable")

-----------------------------------------------------------------------------
(***************************************************************************)
(* linkback_run.  Its loop drops from the active node the leading profiles  *)
(* that are connected already; when nothing remains, or the device is new   *)
(* and there is no room for it, it takes the next queued node, until one    *)
(* gives it something to do.                                                *)
(***************************************************************************)
Advanced(act, l) ==
    LET R == act.remain \ {act.doing}
        p == FirstProf(R \ l.profs[act.addr])
    IN  IF act.addr \notin l.on \/ act.doing \notin l.profs[act.addr] THEN act
        ELSE [act EXCEPT !.remain = IF p = NoProf THEN {}
                                    ELSE {q \in R : Rank[q] >= Rank[p]},
                         !.doing = p, !.sdpOk = FALSE, !.retry = 0]

(* Faulty: nobody asks whether there is room. *)
BadHasWork(act, l) ==
    /\ act.remain # {}
    /\ act.addr \in l.on => Advanced(act, l).remain # {}

HasWork(act, l) ==
    /\ act.remain # {}
    /\ IF act.addr \in l.on THEN Advanced(act, l).remain # {}
       ELSE act.force \/ ~Full(l)

Spent(act, l) ==
    IF act.remain = {} THEN [act EXCEPT !.valid = FALSE]
    ELSE [Advanced(act, l) EXCEPT !.valid = FALSE]

(* Nodes the loop takes and leaves behind; an empty plan ends the loop. *)
Skipped(n, l) == n.profs # {} /\ ~HasWork(Load(n), l)

SkipCount(q, l) ==
    CHOOSE k \in 0..Len(q) :
       /\ \A i \in 1..k : Skipped(q[i], l)
       /\ k < Len(q) => ~Skipped(q[k + 1], l)

TakeNext(b, l) ==
    LET q == b.todo
        k == SkipCount(q, l)
        n == q[k + 1]
    IN  IF k = Len(q)
        THEN StableNormal([b EXCEPT !.todo = <<>>,
                !.active = IF k = 0 THEN @ ELSE Spent(Load(q[k]), l)], l)
        ELSE LET t == [b EXCEPT !.todo = SubSeq(q, k + 2, Len(q))]
             IN  IF n.profs = {}
                 THEN StableNormal([t EXCEPT !.active = NoActive], l)
                 ELSE [t EXCEPT !.active = Advanced(Load(n), l),
                                !.timers = @ \cup {"linkback"},
                                !.linkbackFlag = TRUE]

LinkbackRun(b, l) ==
    IF b.active.valid
    THEN IF HasWork(b.active, l)
         THEN [b EXCEPT !.active = Advanced(@, l), !.linkbackFlag = TRUE]
         ELSE TakeNext([b EXCEPT !.active = Spent(@, l)], l)
    ELSE TakeNext(b, l)

(* The device a run leaves the active node valid for is being searched. *)
Wanted(b) == IF b.active.valid THEN {b.active.addr} ELSE {}

-----------------------------------------------------------------------------
(* linkback_sched, once the wish for pairing mode is settled *)
LinkbackSched(b, l) ==
    LET c == IF b.startupDone THEN b ELSE [b EXCEPT !.todo = BondQueue]
    IN  IF c.todo # <<>> \/ c.active.valid
        THEN IF c.state = "linkback" THEN c
             ELSE LinkbackRun(EnterState(c, "linkback", "connectable"), l)
        ELSE StableNormal(c, l)

(* Faulty: the node in work stays in work. *)
BadStopAll(b, left) ==
    LET c == [b EXCEPT !.timers = @ \ {"linkback"}]
    IN  IF b.active.valid THEN UseLeftTime(c, left) ELSE c

(* stop_all_active_action *)
StopAll(b, left) ==
    LET c == [b EXCEPT !.timers = @ \ {"linkback"}]
    IN  IF b.active.valid
        THEN [UseLeftTime(c, left) EXCEPT !.active.valid = FALSE]
        ELSE c

(* dedicated_connect_event_handle: in a stable state the node only waits. *)
DedicatedConnect(b, a, P) ==
    IF b.state = "linkback" /\ IsActive(b, a)
    THEN [b EXCEPT !.active.plan = @ \cup P, !.active.remain = @ \cup P,
                   !.active.member = FALSE, !.timers = @ \cup {"linkback"}]
    ELSE IF b.state \in Stable \cup {"linkback"}
         THEN [b EXCEPT !.todo = InsertForce(@, a, P, FALSE)]
         ELSE b

(* dedicated_disconnect_event_handle, its half about linkback: the profile  *)
(* being connected stays in doing even when it is no longer to be.          *)
DedicatedDisconnect(b, a, P) ==
    LET c == [b EXCEPT !.todo = RemoveProfs(@, a, P)]
    IN  IF IsActive(b, a)
        THEN [c EXCEPT !.active.plan = @ \ P, !.active.remain = @ \ P]
        ELSE c

(* EVENT_SRC_CONN_TIMEOUT in bt_event_pre_handle, and in the linkback state *)
(* only: a connected device loses its plan, one that is not is given up     *)
(* with GivenUp, and the node stays valid until an event that never comes.  *)
ConnTimeout(b, l) ==
    LET act == b.active
        t == [b EXCEPT !.timers = @ \ {"linkback"},
                       !.todo = IF act.valid /\ act.member THEN DeleteGroup(@)
                                ELSE @]
    IN  IF b.state # "linkback" THEN [t EXCEPT !.active.valid = FALSE]
        ELSE IF ~act.valid THEN LinkbackRun(t, l)
        ELSE IF act.addr \in l.on THEN [t EXCEPT !.active.plan = {}]
        ELSE t

GivenUp(b, l) ==
    {a \in Wanted(b) : b.state = "linkback" /\ a \notin l.on}
=============================================================================
