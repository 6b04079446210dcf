------------------------------ MODULE BtPolicy ------------------------------
(***************************************************************************)
(* The BR/EDR connection policy of the headset (bredr/app_bt_policy.c): it  *)
(* calls the bonded devices back after power-on (linkback), keeps at most   *)
(* MaxLinks of them connected, answers the host's connect and disconnect    *)
(* commands, and takes every link down before the chip is switched off.     *)
(*                                                                          *)
(* The Bluetooth stack below it is external: acl, closing, search, conns    *)
(* and discs hold what was asked of it, and its events arrive one by one,   *)
(* in any order, between the handlers of the application task.  Inputs      *)
(* names the events of the outside world that an instance admits.           *)
(***************************************************************************)
EXTENDS LinkbackPolicy, FiniteSets

CONSTANTS
    LinkNum,    \* MAX_BR_LINK_NUM: entries of app_db.br_link
    ProfWaits,  \* DISCONN_B2S_PROFILE_WAIT_TIMES
    LinkWaits,  \* DISCONN_B2S_LINK_WAIT_TIMES_MAX
    Plans,      \* bound: the profile sets the host asks for
    PeerOpens,  \* bound: the profiles that devices open by themselves
    Inputs,     \* bound: the events of the environment
    StableOnly  \* bound: those that come in a stable state only

AllInputs ==
    {"incoming", "page_timeout", "late_page_timeout", "lost", "prof_lost",
     "timeout", "refuse", "conn_fail", "create", "connect", "disconnect",
     "partial", "disconnect_all", "pairing", "power_off", "peer_race"}

ASSUME LinkNumAssumption == LinkNum \in Nat \ {0}
ASSUME WaitsAssumption == ProfWaits \in Nat \ {0} /\ LinkWaits \in Nat \ {0}
ASSUME PlansAssumption == Plans \subseteq SUBSET Profs
ASSUME PeerOpensAssumption == PeerOpens \subseteq Addrs \X Profs
ASSUME InputsAssumption == Inputs \subseteq AllInputs /\ StableOnly \subseteq Inputs

VARIABLES
    device,     \* app_db.device_state: "off", "on" or "off_ing"
    bp,         \* the static variables of the policy (see LinkbackPolicy)
    links,      \* b2s_connected.num and the used entries of app_db.br_link
    step,       \* shutdown_step and shutdown_step_retry_cnt
    lastPlan,   \* profiles_to_connect of cmd/app_cmd_br.c
    acl,        \* stack: the state of the ACL to each device
    closing,    \* stack: devices whose ACL was asked to be closed
    search,     \* stack: devices with an SDP search under way
    conns,      \* stack: profile connections being set up
    discs       \* stack: profile connections being taken down

stack == <<acl, closing, search, conns, discs>>
vars == <<device, bp, links, step, lastPlan, stack>>

Steps == {"none", "wait_prof", "start_link", "wait_link"}
Timers == {"linkback", "power_on", "step"}

BootPolicy ==
    [state |-> "startup", radio |-> "idle", active |-> NoActive, todo |-> <<>>,
     timers |-> {}, startupDone |-> FALSE, linkbackFlag |-> FALSE,
     enterPairing |-> FALSE, forced |-> FALSE]

NoLinks == [on |-> {}, profs |-> [a \in Addrs |-> {}], leaving |-> {}, num |-> 0]

Init ==
    /\ device = "off"
    /\ bp = BootPolicy
    /\ links = NoLinks
    /\ step = [at |-> "none", cnt |-> 0]
    /\ lastPlan = {}
    /\ acl = [a \in Addrs |-> "down"]
    /\ closing = {}
    /\ search = {}
    /\ conns = {}
    /\ discs = {}

Admitted(i) == i \in Inputs /\ (i \in StableOnly => bp.state \in Stable)

-----------------------------------------------------------------------------
(* Requests to the stack: gap_br_start_sdp_discov pages a device that is    *)
(* not connected; gap_br_send_acl_disconn_req also cancels a page.          *)
Paged(al, A) == [a \in Addrs |-> IF a \in A /\ al[a] = "down" THEN "paging" ELSE al[a]]

(* Faulty: the search goes on. *)
BadStopped(sr) == sr

(* gap_br_stop_sdp_discov for the device in work. *)
Stopped(sr) == sr \ Wanted(bp)

Closed(cl, A) == cl \cup {a \in A : acl[a] # "down"}

(* linkback_run, then the search it starts; sr are the searches going on.   *)
RunAndSearch(b, l, al, sr) ==
    /\ bp' = LinkbackRun(b, l)
    /\ acl' = Paged(al, Wanted(bp'))
    /\ search' = sr \cup Wanted(bp')

(* dedicated_disconnect_event_handle, its half about the links l: a plan    *)
(* that holds every connected profile takes the ACL down after the last of  *)
(* them; one that holds none takes it down at once.                         *)
ToDrop(l, a, P) == l.profs[a] \cap P

(* Faulty variants, named Bad..., show that the properties can fail: here   *)
(* only a device without profiles is marked.                                *)
BadMarked(l, a, P) ==
    [l EXCEPT !.leaving = IF ToDrop(l, a, P) = {} THEN @ \cup {a} ELSE @ \ {a}]

Marked(l, a, P) ==
    [l EXCEPT !.leaving = IF ToDrop(l, a, P) = l.profs[a] THEN @ \cup {a}
                          ELSE @ \ {a}]

(* Faulty: a device without profiles waits for the last of them. *)
BadDisconnectLink(l, a, P, cl) ==
    /\ links' = Marked(l, a, P)
    /\ discs' = discs \cup {<<a, p>> : p \in ToDrop(l, a, P)}
    /\ closing' = cl

DisconnectLink(l, a, P, cl) ==
    /\ links' = Marked(l, a, P)
    /\ discs' = discs \cup {<<a, p>> : p \in ToDrop(l, a, P)}
    /\ closing' = IF ToDrop(l, a, P) = {} THEN cl \cup {a} ELSE cl

-----------------------------------------------------------------------------
(* The life of the device. *)

(* SYS_EVENT_POWER_ON: app_bt_policy_startup, _stop and _restore in a row.  *)
PowerOn ==
    /\ device = "off"
    /\ device' = "on"
    /\ bp' = [BootPolicy EXCEPT !.state = "stop", !.timers = {"power_on"}]
    /\ links' = NoLinks
    /\ UNCHANGED <<step, lastPlan, stack>>

(* SHUTDOWN_STEP_START_DISCONN_B2S_PROFILE *)
DropProfiles ==
    /\ discs' = discs \cup {d \in Addrs \X Profs :
                               d[1] \in links.on /\ d[2] \in links.profs[d[1]]}
    /\ links' = [links EXCEPT !.leaving = {}]

(* SYS_EVENT_POWER_OFF: shutdown_event_handle and its first step. *)
PowerOff ==
    /\ device = "on"
    /\ Admitted("power_off")
    /\ device' = "off_ing"
    /\ \E left \in BOOLEAN :
          LET b == StopAll(bp, left)
          IN  bp' = IF links.num = 0 THEN EnterState(b, "shutdown", "idle")
                    ELSE EnterState([b EXCEPT !.timers = @ \cup {"step"}],
                                    "shutdown_step", "idle")
    /\ search' = Stopped(search)
    /\ LET given == Closed(closing, Wanted(bp) \ links.on)
       IN  IF links.num = 0
           THEN closing' = given /\ UNCHANGED <<step, links, discs>>
           ELSE /\ step' = [at |-> "wait_prof", cnt |-> 0]
                /\ DropProfiles
                /\ closing' = given \cup {a \in links.on : links.profs[a] = {}}
    /\ UNCHANGED <<lastPlan, acl, conns>>

(* APP_TIMER_SHUTDOWN_STEP: ignored in any state but shutdown_step. *)
StepIgnored ==
    /\ bp.state # "shutdown_step"
    /\ bp' = [bp EXCEPT !.timers = @ \ {"step"}]
    /\ UNCHANGED <<step, closing>>

(* Faulty: every tick starts the count anew. *)
BadWaitForProfiles ==
    /\ step.at = "wait_prof"
    /\ step' = [at |-> IF step.cnt + 1 >= ProfWaits THEN "start_link" ELSE "wait_prof",
                cnt |-> 0]
    /\ UNCHANGED <<bp, closing>>

WaitForProfiles ==
    /\ step.at = "wait_prof"
    /\ step' = [at |-> IF step.cnt + 1 >= ProfWaits THEN "start_link" ELSE "wait_prof",
                cnt |-> step.cnt + 1]
    /\ UNCHANGED <<bp, closing>>

CloseLinks ==
    /\ step.at = "start_link"
    /\ closing' = Closed(closing, links.on)
    /\ step' = [at |-> "wait_link", cnt |-> 0]
    /\ UNCHANGED bp

WaitForLinks ==
    /\ step.at = "wait_link"
    /\ IF links.num = 0 \/ step.cnt + 1 >= LinkWaits
       THEN /\ bp' = EnterState([bp EXCEPT !.timers = @ \ {"step"}], "shutdown", "idle")
            /\ step' = [at |-> "none", cnt |-> 0]
       ELSE /\ step' = [step EXCEPT !.cnt = @ + 1]
            /\ UNCHANGED bp
    /\ UNCHANGED closing

StepTimeout ==
    /\ "step" \in bp.timers
    /\ \/ StepIgnored
       \/ /\ bp.state = "shutdown_step"
          /\ WaitForProfiles \/ CloseLinks \/ WaitForLinks
    /\ UNCHANGED <<device, links, lastPlan, acl, search, conns, discs>>

(* app_mmi_reboot_check: the chip resets, and with it the stack, when no    *)
(* link is counted, or after 56 checks, which outlast the shutdown steps.   *)
Reboot ==
    /\ device = "off_ing"
    /\ links.num = 0 \/ "step" \notin bp.timers
    /\ device' = "off"
    /\ bp' = BootPolicy
    /\ links' = NoLinks
    /\ step' = [at |-> "none", cnt |-> 0]
    /\ lastPlan' = {}
    /\ acl' = [a \in Addrs |-> "down"]
    /\ closing' = {}
    /\ search' = {}
    /\ conns' = {}
    /\ discs' = {}

-----------------------------------------------------------------------------
(* Timers of the policy. *)

(* Faulty: a forced request does not wait for a place. *)
BadPreparePairing(b, sr, cl) ==
    /\ b.forced \/ ~Full(links)
    /\ bp' = [StablePairing(b) EXCEPT !.forced = FALSE]
    /\ search' = sr
    /\ closing' = cl
    /\ UNCHANGED <<links, discs>>

(* prepare_for_dedicated_enter_pairing_mode: with every place taken, a      *)
(* forced request disconnects one device, which of them depends on what is  *)
(* played, and pairing mode is not entered; nothing happens if neither      *)
(* place is the older one.                                                  *)
PreparePairing(b, sr, cl) ==
    /\ search' = sr
    /\ IF ~Full(links)
       THEN /\ bp' = [StablePairing(b) EXCEPT !.forced = FALSE]
            /\ closing' = cl
            /\ UNCHANGED <<links, discs>>
       ELSE \/ /\ bp' = [b EXCEPT !.forced = FALSE]
               /\ closing' = cl
               /\ UNCHANGED <<links, discs>>
            \/ \E v \in links.on :
                  /\ b.forced
                  /\ bp' = [DedicatedDisconnect(b, v, Profs) EXCEPT !.forced = FALSE]
                  /\ DisconnectLink(links, v, Profs, cl)

MayPair(b) == b.forced \/ ~Full(links)

(* APP_TIMER_LINKBACK_POWER_ON: linkback_sched *)
PowerOnTimeout ==
    /\ "power_on" \in bp.timers
    /\ LET b == [bp EXCEPT !.timers = @ \ {"power_on"}, !.linkbackFlag = FALSE,
                           !.enterPairing = FALSE]
           c == LinkbackSched(b, links)
       IN  IF bp.enterPairing /\ MayPair(b)
           THEN PreparePairing(b, search, closing) /\ UNCHANGED acl
           ELSE /\ bp' = c
                /\ acl' = Paged(acl, Wanted(c))
                /\ search' = search \cup Wanted(c)
                /\ UNCHANGED <<links, closing, discs>>
    /\ UNCHANGED <<device, step, lastPlan, conns>>

(* timer_cback(APP_TIMER_LINKBACK): what it does to the policy and stack *)
TimeoutNow ==
    LET b == ConnTimeout(bp, links)
    IN  /\ bp' = b
        /\ IF bp.state = "linkback" /\ ~bp.active.valid
           THEN /\ acl' = Paged(acl, Wanted(b))
                /\ search' = search \cup Wanted(b)
                /\ UNCHANGED closing
           ELSE /\ search' = search \ GivenUp(bp, links)
                /\ closing' = Closed(closing, GivenUp(bp, links))
                /\ UNCHANGED acl

LinkbackTimeout ==
    /\ "linkback" \in bp.timers
    /\ Admitted("timeout")
    /\ TimeoutNow
    /\ UNCHANGED <<device, links, step, lastPlan, conns, discs>>

-----------------------------------------------------------------------------
(* The user and the host. *)

(* dedicated_enter_pairing_mode_event_handle; in linkback state the node in *)
(* work is given up, or, when its device is connected, only a flag is set.  *)
EnterPairing ==
    \E force \in BOOLEAN :
       LET b == [bp EXCEPT !.forced = force]
           idle == [b EXCEPT !.timers = @ \ {"linkback"}, !.todo = <<>>,
                             !.active = NoActive]
           given == Wanted(bp)
       IN  /\ device = "on"
           /\ Admitted("pairing")
           /\ IF bp.state = "stop" \/ (/\ bp.state = "linkback"
                                       /\ MayPair(b)
                                       /\ bp.active.addr \in links.on)
              THEN /\ bp' = [b EXCEPT !.enterPairing = TRUE]
                   /\ UNCHANGED <<links, search, closing, discs>>
              ELSE IF ~MayPair(b)
              THEN bp' = b /\ UNCHANGED <<links, search, closing, discs>>
              ELSE IF bp.state = "linkback"
              THEN PreparePairing(idle, Stopped(search), Closed(closing, given))
              ELSE PreparePairing(b, search, closing)
           /\ UNCHANGED <<device, step, lastPlan, acl, conns>>

(* dedicated_exit_pairing_mode_event_handle *)
ExitPairing ==
    /\ device = "on"
    /\ Admitted("pairing")
    /\ LET b == [bp EXCEPT !.enterPairing = FALSE]
       IN  bp' = IF b.state \in Stable THEN StableNotPairing(b, links) ELSE b
    /\ UNCHANGED <<device, links, step, lastPlan, stack>>

(* CMD_BT_CREATE_CONNECTION: throws the queue away and runs linkback in     *)
(* whatever state the policy is.                                            *)
CreateConnection(a, P) ==
    /\ device = "on"
    /\ Admitted("create")
    /\ lastPlan' = P
    /\ RunAndSearch([bp EXCEPT !.todo = InsertNormal(<<>>, a, P, FALSE)],
                    links, acl, search)
    /\ UNCHANGED <<device, links, step, closing, conns, discs>>

(* app_bt_policy_default_connect *)
DefaultConnect(a, P) ==
    /\ device = "on"
    /\ Admitted("connect")
    /\ bp' = DedicatedConnect(bp, a, P)
    /\ UNCHANGED <<device, links, step, lastPlan, stack>>

(* CMD_BT_DISCONNECT, refused for a device that is not connected. *)
Disconnect(a, P) ==
    /\ device = "on"
    /\ Admitted("partial") \/ (Admitted("disconnect") /\ P = Profs)
    /\ a \in links.on
    /\ bp' = DedicatedDisconnect(bp, a, P)
    /\ DisconnectLink(links, a, P, closing)
    /\ UNCHANGED <<device, step, lastPlan, acl, search, conns>>

(* disconnect_all_event_handle *)
DisconnectAll ==
    /\ device = "on"
    /\ Admitted("disconnect_all")
    /\ closing' = Closed(closing, links.on)
    /\ UNCHANGED <<device, bp, links, step, lastPlan, acl, search, conns, discs>>

-----------------------------------------------------------------------------
(* Events of the stack: app_bt_policy_cback. *)

(* BT_EVENT_ACL_CONN_IND: taken only when there is room. *)
AclConnInd(a) ==
    /\ Admitted("incoming")
    /\ bp.radio # "idle"
    /\ acl[a] = "down"
    /\ a \notin links.on /\ ~Full(links)
    /\ acl' = [acl EXCEPT ![a] = "incoming"]
    /\ UNCHANGED <<device, bp, links, step, lastPlan, closing, search, conns, discs>>

(* b2s_connected_add_node *)
Added(a) ==
    IF a \notin links.on /\ Cardinality(links.on) < LinkNum
    THEN [links EXCEPT !.on = @ \cup {a}, !.num = @ + 1]
    ELSE links

(* BT_EVENT_ACL_CONN_SUCCESS: one device too many, and                      *)
(* app_multi_disc_inactive_link asks another one, the one of the lowest     *)
(* priority, to leave.                                                      *)
AclConnSuccess(a) ==
    /\ acl[a] \in {"paging", "incoming"}
    /\ acl' = [acl EXCEPT ![a] = "up"]
    /\ IF Over(Added(a)) /\ a \in Added(a).on
       THEN \E v \in Added(a).on \ {a} :
               /\ bp' = DedicatedDisconnect(bp, v, Profs)
               /\ DisconnectLink(Added(a), v, Profs, closing)
       ELSE links' = Added(a) /\ UNCHANGED <<bp, closing, discs>>
    /\ UNCHANGED <<device, step, lastPlan, search, conns>>

(* BT_EVENT_ACL_CONN_FAIL with HCI_ERR_PAGE_TIMEOUT: the queue is replaced  *)
(* by this device with the profiles of the last CMD_BT_CREATE_CONNECTION.   *)
(* "late": the event was under way when the page was cancelled.             *)
PageTimeout(a) ==
    /\ acl[a] = "paging"
    /\ \/ Admitted("page_timeout") /\ a \notin closing
       \/ Admitted("late_page_timeout") /\ a \in closing
    /\ closing' = closing \ {a}
    /\ RunAndSearch([bp EXCEPT !.todo = InsertNormal(<<>>, a, lastPlan, FALSE)],
                    links, [acl EXCEPT ![a] = "down"], search \ {a})
    /\ UNCHANGED <<device, links, step, lastPlan, conns, discs>>

(* BT_EVENT_ACL_CONN_FAIL with any other cause: nothing looks at it. *)
AclCancelled(a) ==
    /\ acl[a] \in {"paging", "incoming"}
    /\ a \in closing
    /\ acl' = [acl EXCEPT ![a] = "down"]
    /\ closing' = closing \ {a}
    /\ search' = search \ {a}
    /\ UNCHANGED <<device, bp, links, step, lastPlan, conns, discs>>

(* BT_EVENT_ACL_AUTHEN_SUCCESS: when another device took the last place,    *)
(* the one being paged is given up as if its time were over.                *)
AclAuthenSuccess(a) ==
    /\ acl[a] = "up"
    /\ IF bp.state \in Stable
       THEN bp' = StableAgain(bp, links) /\ UNCHANGED <<acl, closing, search>>
       ELSE IF /\ bp.state = "linkback" /\ Full(links) /\ bp.active.valid
               /\ ~IsActive(bp, a) /\ bp.active.addr \notin links.on
            THEN TimeoutNow
            ELSE UNCHANGED <<bp, acl, closing, search>>
    /\ UNCHANGED <<device, links, step, lastPlan, conns, discs>>

(* Faulty: the count of links is not lowered. *)
BadDeletedCount(a) ==
    [links EXCEPT !.on = @ \ {a}, !.profs[a] = {}, !.leaving = @ \ {a}]

(* BT_EVENT_ACL_CONN_DISCONN: b2s_connected_del_node and nothing else. *)
Deleted(a) ==
    IF a \in links.on
    THEN [on |-> links.on \ {a}, profs |-> [links.profs EXCEPT ![a] = {}],
          leaving |-> links.leaving \ {a},
          num |-> IF links.num > 0 THEN links.num - 1 ELSE 0]
    ELSE links

AclConnDisconn(a) ==
    /\ acl[a] = "up"
    /\ a \in closing \/ Admitted("lost")
    /\ acl' = [acl EXCEPT ![a] = "down"]
    /\ links' = Deleted(a)
    /\ closing' = closing \ {a}
    /\ search' = search \ {a}
    /\ conns' = {c \in conns : c[1] # a}
    /\ discs' = {d \in discs : d[1] # a}
    /\ UNCHANGED <<device, bp, step, lastPlan>>

(* BT_EVENT_SDP_ATTR_INFO of a service that fits: whoever it comes from,    *)
(* the active node takes it for its own.                                    *)
SdpAttrInfo(a) ==
    /\ a \in search /\ acl[a] = "up"
    /\ bp' = [bp EXCEPT !.active.sdpOk = TRUE]
    /\ UNCHANGED <<device, links, step, lastPlan, stack>>

(* linkback_profile_connect_start for the active node; the request may be   *)
(* refused, also when the device opened the profile itself in the meantime, *)
(* and is when there is nothing to ask for or nobody to ask.                *)
CanConnect ==
    bp.active.doing # NoProf /\ bp.active.addr \in Addrs
        /\ acl[bp.active.addr] = "up"

OpenAlready ==
    \E b \in links.on : b = bp.active.addr /\ bp.active.doing \in links.profs[b]

MayRefuse == ~CanConnect \/ OpenAlready \/ Admitted("refuse")

(* BT_EVENT_SDP_DISCOV_CMPL: nothing is done for a device that is not       *)
(* linked, nor when the search ended because the ACL is going, by request   *)
(* or by itself.                                                            *)
SdpDiscovCmpl(a) ==
    /\ a \in search /\ acl[a] = "up"
    /\ \/ /\ a \notin links.on \/ a \in closing \/ Admitted("lost")
          /\ search' = search \ {a}
          /\ UNCHANGED <<bp, acl, conns>>
       \/ /\ a \in links.on
          /\ bp.active.sdpOk /\ CanConnect
          /\ conns' = conns \cup {<<bp.active.addr, bp.active.doing>>}
          /\ search' = search \ {a}
          /\ UNCHANGED <<bp, acl>>
       \/ /\ a \in links.on
          /\ ~bp.active.sdpOk \/ MayRefuse
          /\ RunAndSearch([bp EXCEPT !.active = StepFail(@)], links, acl,
                          search \ {a})
          /\ UNCHANGED conns
    /\ UNCHANGED <<device, links, step, lastPlan, closing, discs>>

(* A linked device may open a profile itself: BT_EVENT_..._CONN_IND is       *)
(* always confirmed.  "peer_race": and that while the search for this very  *)
(* profile has found it and has not ended.                                  *)
OpensItself(a, p) ==
    /\ <<a, p>> \in PeerOpens
    /\ a \in links.on /\ p \notin links.profs[a]
    /\ (a \in search /\ IsDoing(bp, a, p)) => Admitted("peer_race")

(* BT_EVENT_A2DP_CONN_CMPL, _AVRCP_, _HFP_, _HFP_AG_, _SPP_, _IAP_, for a    *)
(* request of linkback or of the device itself: the profile is entered, and *)
(* if it is the one linkback waits for, linkback goes on, in whatever state *)
(* the policy is and whatever search is under way.                          *)
ProfConnCmpl(a, p) ==
    /\ <<a, p>> \in conns \/ OpensItself(a, p)
    /\ conns' = conns \ {<<a, p>>}
    /\ links' = IF a \in links.on
                THEN [links EXCEPT !.profs[a] = @ \cup {p}] ELSE links
    /\ IF a \in links.on /\ IsDoing(bp, a, p)
       THEN RunAndSearch([bp EXCEPT !.active = StepSuc(@)], links', acl, search)
       ELSE UNCHANGED <<bp, acl, search>>
    /\ UNCHANGED <<device, step, lastPlan, closing, discs>>

(* The BT_EVENT_..._CONN_FAIL events: nothing looks at them. *)
ProfConnFail(a, p) ==
    /\ Admitted("conn_fail")
    /\ <<a, p>> \in conns
    /\ conns' = conns \ {<<a, p>>}
    /\ UNCHANGED <<device, bp, links, step, lastPlan, acl, closing, search, discs>>

(* Faulty: the last profile leaves the ACL up. *)
BadProfDisconnCmpl(a, p) ==
    /\ p \in links.profs[a]
    /\ <<a, p>> \in discs \/ Admitted("prof_lost")
    /\ discs' = discs \ {<<a, p>>}
    /\ links' = [links EXCEPT !.profs[a] = @ \ {p},
                              !.leaving = IF links.profs[a] = {p} THEN @ \ {a} ELSE @]
    /\ UNCHANGED <<device, bp, step, lastPlan, acl, closing, search, conns>>

(* BT_EVENT_..._DISCONN_CMPL: the last profile of a device that is to leave *)
(* takes its ACL with it.                                                   *)
ProfDisconnCmpl(a, p) ==
    /\ p \in links.profs[a]
    /\ <<a, p>> \in discs \/ Admitted("prof_lost")
    /\ discs' = discs \ {<<a, p>>}
    /\ LET l == [links EXCEPT !.profs[a] = @ \ {p}]
       IN  IF l.profs[a] = {} /\ a \in l.leaving
           THEN /\ links' = [l EXCEPT !.leaving = @ \ {a}]
                /\ closing' = closing \cup {a}
           ELSE links' = l /\ UNCHANGED closing
    /\ UNCHANGED <<device, bp, step, lastPlan, acl, search, conns>>

-----------------------------------------------------------------------------
Device ==
    PowerOn \/ PowerOff \/ StepTimeout \/ Reboot \/ PowerOnTimeout \/ LinkbackTimeout

Host ==
    \/ EnterPairing \/ ExitPairing \/ DisconnectAll
    \/ \E a \in Addrs, P \in Plans :
          CreateConnection(a, P) \/ DefaultConnect(a, P) \/ Disconnect(a, P)

StackEvent ==
    \/ \E a \in Addrs :
          \/ AclConnInd(a) \/ AclConnSuccess(a) \/ PageTimeout(a)
          \/ AclCancelled(a) \/ AclAuthenSuccess(a) \/ AclConnDisconn(a)
          \/ SdpAttrInfo(a) \/ SdpDiscovCmpl(a)
    \/ \E a \in Addrs, p \in Profs :
          ProfConnCmpl(a, p) \/ ProfConnFail(a, p) \/ ProfDisconnCmpl(a, p)

Next == Device \/ Host \/ StackEvent

Spec == Init /\ [][Next]_vars
(***************************************************************************)
(* A started timer fires, the stack answers every request, and a chip that  *)
(* may reset does.  Nothing is assumed of what a device does by itself.     *)
(***************************************************************************)
Fairness ==
    /\ WF_vars(PowerOnTimeout)
    /\ WF_vars(StepTimeout)
    /\ WF_vars(Reboot)
    /\ \A a \in Addrs :
          /\ WF_vars(AclConnSuccess(a))
          /\ WF_vars(AclCancelled(a))
          /\ WF_vars(a \in closing /\ AclConnDisconn(a))
          /\ WF_vars(SdpDiscovCmpl(a))
    /\ \A a \in Addrs, p \in Profs :
          /\ WF_vars(<<a, p>> \in conns /\ ProfConnCmpl(a, p))
          /\ WF_vars(<<a, p>> \in discs /\ ProfDisconnCmpl(a, p))

FairSpec == Spec /\ Fairness

-----------------------------------------------------------------------------
Policy ==
    [state : States, radio : Radios, active : ActiveNode, todo : Seq(Node),
     timers : SUBSET Timers, startupDone : BOOLEAN, linkbackFlag : BOOLEAN,
     enterPairing : BOOLEAN, forced : BOOLEAN]

LinkTable ==
    [on : SUBSET Addrs, profs : [Addrs -> SUBSET Profs], leaving : SUBSET Addrs,
     num : 0..LinkNum]

(* Types of the variables: every count within its limit, the queue no       *)
(* longer than its pool.                                                    *)
TypeOK ==
    /\ device \in {"off", "on", "off_ing"}
    /\ bp \in Policy /\ Len(bp.todo) <= NodeNum
    /\ links \in LinkTable
    /\ step \in [at : Steps, cnt : 0..ProfWaits + LinkWaits]
    /\ lastPlan \in SUBSET Profs
    /\ acl \in [Addrs -> {"down", "paging", "incoming", "up"}]
    /\ closing \in SUBSET Addrs
    /\ search \in SUBSET Addrs
    /\ conns \in SUBSET (Addrs \X Profs)
    /\ discs \in SUBSET (Addrs \X Profs)

(* b2s_connected.num, on which the limit and the pairing decisions rest,    *)
(* counts the used entries of app_db.br_link; an entry is used only while   *)
(* the ACL is up, and a free one keeps no profile and no request to leave   *)
(* for the next device.                                                     *)
LinkTableInv ==
    /\ links.num = Cardinality(links.on)
    /\ \A a \in Addrs :
          IF a \in links.on THEN acl[a] = "up"
          ELSE links.profs[a] = {} /\ a \notin links.leaving

(* With one device too many connected, one of them was asked to leave and   *)
(* is still marked or its ACL closing: no order of pages, incoming          *)
(* connections and disconnections forgets whom to send away.  That it does  *)
(* go is LeaversLeave, with the exception named there.                      *)
OverLimitLeaves ==
    device = "on" /\ Over(links) => \E a \in links.on : a \in links.leaving \cup closing

(* The stack never searches a device other than the one in work: a search   *)
(* that outlives its node would have its result taken for another device's, *)
(* since SdpAttrInfo and SdpDiscovCmpl do not ask whose it is.  Devices may *)
(* open any profile themselves but the one just found ("peer_race"): then   *)
(* ProfConnCmpl leaves the node and stops no search.                        *)
OneSearch == search \subseteq Wanted(bp)

(* In a stable state linkback has nothing to do and its timer is off. *)
StableIsIdle ==
    bp.state \in Stable =>
       ~bp.active.valid /\ bp.todo = <<>> /\ "linkback" \notin bp.timers

(* Pairing mode is entered only with a place to spare, also when the wish   *)
(* waited in a flag for linkback to start or was forced.                    *)
PairingNeedsRoom ==
    [][bp.state # "pairing" /\ bp'.state = "pairing" => ~Full(links)]_vars

(* A device is paged only with a place to spare for it, or by a node that   *)
(* the host forced into the queue; page timeouts, failures and commands     *)
(* that run linkback in any state do not go round the limit.                *)
PagesRespectLimit ==
    [][\A a \in Addrs :
          acl[a] = "down" /\ acl'[a] = "paging"
             => ~Full(links') \/ bp'.active.force]_vars

(* Linkback ends, however many profiles of however many bonded devices      *)
(* cannot be found: retries are bounded and every node is passed.           *)
LinkbackEnds == bp.state = "linkback" ~> bp.state # "linkback"

(* The device has a profile that nobody asked it to take down. *)
KeepsProfile(a) == \E p \in links.profs[a] : <<a, p>> \notin discs

(* A device asked to leave altogether does leave, unless it opened one more *)
(* profile after it was asked: app_bt_policy.c:2133 takes the ACL down with *)
(* the last profile, and that one was never asked to go.                    *)
LeaversLeave ==
    \A a \in Addrs :
       a \in links.leaving ~> a \notin links.on \/ KeepsProfile(a)

(* Switching off ends with the chip reset. *)
PowerOffEnds == device = "off_ing" ~> device = "off"

(* Once the shutdown steps began they run to their end: SHUTDOWN after at   *)
(* most ProfWaits and LinkWaits ticks, or the reset of the chip.  A search  *)
(* that "peer_race" left behind would run linkback out of them.             *)
ShutdownRunsOut ==
    [][bp.state = "shutdown_step"
         => bp'.state \in {"shutdown_step", "shutdown", "startup"}]_vars
=============================================================================
