------------------------- MODULE AutoPowerOffProofs -------------------------
(***************************************************************************)
(* The headset with its countdown behaves like the policy alone, so that    *)
(* what is proved of the policy holds for it; and the countdown runs when   *)
(* the headset is idle and never while it is in use, for every number of    *)
(* devices, places and LE links and whatever the environment does, short of *)
(* CMD_BT_CREATE_CONNECTION.                                                *)
(*                                                                          *)
(* The inductive invariant has two parts.  SleepInv, of BtPolicyProofs, is   *)
(* about the policy: in the states in which event_ind swallows the          *)
(* indication of a new phone there is none.  AutoInv ties the holds to what *)
(* they stand for.                                                          *)
(***************************************************************************)
EXTENDS AutoPowerOff, BtPolicyProofs

-----------------------------------------------------------------------------
(* Every step of the headset is one of the policy, or none.                 *)
LEMMA HeadsetStep == [HeadsetNext]_headsetVars => [Next]_vars
<1> SUFFICES ASSUME [HeadsetNext]_headsetVars PROVE [Next]_vars
  OBVIOUS
<1>1. CASE UNCHANGED headsetVars
  BY <1>1 DEF headsetVars
<1>2. CASE AutoTimeout \/ Switch
  BY <1>2 DEF AutoTimeout, Switch, Next, Device
<1>3. CASE Indicated
  BY <1>3 DEF Indicated, Next, Device, StackEvent
<1>4. CASE \E a \in Addrs : Authenticated(a)
  BY <1>4 DEF Authenticated, Next, StackEvent
<1>5. CASE \E c \in LeConns : LeConnecting(c) \/ LeConnected(c) \/ LeDisconnected(c)
  BY <1>5 DEF LeConnecting, LeConnected, LeDisconnected
<1> QED
  BY <1>1, <1>2, <1>3, <1>4, <1>5 DEF HeadsetNext

(***************************************************************************)
(* The headset implements the policy: the countdown adds the key press that *)
(* switches off at an hour of its own, and otherwise watches.               *)
(***************************************************************************)
THEOREM HeadsetIsPolicy == HeadsetSpec => Spec
<1>1. HeadsetInit => Init
  BY DEF HeadsetInit
<1> QED
  BY <1>1, HeadsetStep, PTL DEF HeadsetSpec, Spec

(* So its link table is sound as well.                                      *)
THEOREM HeadsetTableSound == HeadsetSpec => []LinkTableInv
BY HeadsetIsPolicy, LinkTableSound, PTL

-----------------------------------------------------------------------------
(* The holds and what they stand for. *)

AutoType == [holds : SUBSET Holds, timer : BOOLEAN, pairing : BOOLEAN, linkback : BOOLEAN]

(* The two flags tell which of the policy's holds are set, ...              *)
FlagsHold(m) ==
    /\ m.pairing <=> "pairing" \in m.holds
    /\ m.linkback <=> "linkback" \in m.holds

(* ... and follow its state.                                                *)
Follows(m, s) ==
    /\ m.pairing <=> s = "pairing"
    /\ m.linkback <=> s = "linkback"

Runs(m) == m.timer <=> m.holds = {}

AwakeInv ==
    /\ FlagsHold(auto) /\ Follows(auto, bp.state) /\ Runs(auto)
    /\ "already_off" \notin auto.holds
    /\ (\E c \in LeConns : le[c] = "connected") => "ble_link" \in auto.holds
    /\ "ble_link" \in auto.holds => le # NoLe
    /\ authed # {} => "source_link" \in auto.holds

AutoInv ==
    /\ auto \in AutoType
    /\ le \in [LeConns -> {"free", "connecting", "connected"}]
    /\ device = "off" => auto = BootAuto /\ le = NoLe /\ authed = {}
    /\ device = "off_ing" => "already_off" \in auto.holds /\ ~auto.timer
    /\ device = "on" => AwakeInv

(* Setting a hold stops the timer and leaves the flags.                     *)
LEMMA HeldFlags ==
    ASSUME NEW m \in AutoType, NEW h \in Holds
    PROVE  LET n == Held(m, h)
           IN  /\ n \in AutoType
               /\ n.holds = m.holds \cup {h} /\ ~n.timer
               /\ n.pairing = m.pairing /\ n.linkback = m.linkback
BY DEF Held, AutoType

(* Releasing the last hold starts the timer.                                *)
LEMMA ReleasedFlags ==
    ASSUME NEW m \in AutoType, NEW H
    PROVE  LET n == Released(m, H)
           IN  /\ n \in AutoType
               /\ n.holds = m.holds \ H
               /\ n.timer <=> m.holds \subseteq H \/ m.timer
               /\ n.pairing = m.pairing /\ n.linkback = m.linkback
BY DEF Released, AutoType

(* An indication of the policy's state sets its two holds accordingly and   *)
(* touches no other.                                                        *)
LEMMA PairingIndFlags ==
    ASSUME NEW m \in AutoType, NEW s
    PROVE  LET n == PairingInd(m, s)
           IN  /\ n \in AutoType
               /\ n.linkback = m.linkback
               /\ n.pairing <=> s = "pairing"
               /\ FlagsHold(m) => FlagsHold(n)
               /\ n.holds \ {"pairing"} = m.holds \ {"pairing"}
               /\ Runs(m) => Runs(n)
               /\ ~m.timer /\ "already_off" \in m.holds => ~n.timer
<1> DEFINE h == Held(m, "pairing")
           r == Released(m, {"pairing"})
<1>1. /\ h \in AutoType
      /\ h.holds = m.holds \cup {"pairing"} /\ ~h.timer /\ h.linkback = m.linkback
  BY HeldFlags DEF Holds
<1>2. /\ r \in AutoType
      /\ r.holds = m.holds \ {"pairing"} /\ r.linkback = m.linkback
      /\ r.timer <=> m.holds \subseteq {"pairing"} \/ m.timer
  BY ReleasedFlags
<1>3. PairingInd(m, s) = IF s = "pairing" THEN [h EXCEPT !.pairing = TRUE]
                         ELSE IF m.pairing THEN [r EXCEPT !.pairing = FALSE] ELSE m
  BY DEF PairingInd
<1> HIDE DEF h, r
<1>4. CASE s = "pairing"
  BY <1>1, <1>3, <1>4 DEF AutoType, FlagsHold, Runs
<1>5. CASE s # "pairing" /\ m.pairing
  BY <1>2, <1>3, <1>5 DEF AutoType, FlagsHold, Runs
<1>6. CASE s # "pairing" /\ ~m.pairing
  BY <1>3, <1>6 DEF AutoType
<1> QED
  BY <1>4, <1>5, <1>6

(* The indication of the linkback state sets its flag and hold together.    *)
LEMMA LinkbackIndFlags ==
    ASSUME NEW m \in AutoType, NEW s
    PROVE  LET n == LinkbackInd(m, s)
           IN  /\ n \in AutoType
               /\ n.pairing = m.pairing
               /\ n.linkback <=> s = "linkback"
               /\ FlagsHold(m) => FlagsHold(n)
               /\ n.holds \ {"linkback"} = m.holds \ {"linkback"}
               /\ Runs(m) => Runs(n)
               /\ ~m.timer /\ "already_off" \in m.holds => ~n.timer
<1> DEFINE h == Held(m, "linkback")
           r == Released(m, {"linkback"})
<1>1. /\ h \in AutoType
      /\ h.holds = m.holds \cup {"linkback"} /\ ~h.timer /\ h.pairing = m.pairing
  BY HeldFlags DEF Holds
<1>2. /\ r \in AutoType
      /\ r.holds = m.holds \ {"linkback"} /\ r.pairing = m.pairing
      /\ r.timer <=> m.holds \subseteq {"linkback"} \/ m.timer
  BY ReleasedFlags
<1>3. LinkbackInd(m, s) = IF s = "linkback" THEN [h EXCEPT !.linkback = TRUE]
                          ELSE IF m.linkback THEN [r EXCEPT !.linkback = FALSE] ELSE m
  BY DEF LinkbackInd
<1> HIDE DEF h, r
<1>4. CASE s = "linkback"
  BY <1>1, <1>3, <1>4 DEF AutoType, FlagsHold, Runs
<1>5. CASE s # "linkback" /\ m.linkback
  BY <1>2, <1>3, <1>5 DEF AutoType, FlagsHold, Runs
<1>6. CASE s # "linkback" /\ ~m.linkback
  BY <1>3, <1>6 DEF AutoType
<1> QED
  BY <1>4, <1>5, <1>6

(* After the indication of a state the flags say what it is.                *)
LEMMA StateIndFlags ==
    ASSUME NEW m \in AutoType, NEW s
    PROVE  LET n == StateInd(m, s)
           IN  /\ n \in AutoType
               /\ n.holds \ {"pairing", "linkback"} = m.holds \ {"pairing", "linkback"}
               /\ ~m.timer /\ "already_off" \in m.holds
                     => ~n.timer /\ "already_off" \in n.holds
               /\ s # "shutdown" => Follows(n, s)
               /\ FlagsHold(m) => FlagsHold(n)
               /\ Runs(m) => Runs(n)
<1> DEFINE p == PairingInd(m, s)
           n == LinkbackInd(p, s)
<1>1. StateInd(m, s) = IF s = "shutdown" THEN m ELSE n
  BY DEF StateInd
<1>2. /\ p \in AutoType
      /\ p.linkback = m.linkback
      /\ p.pairing <=> s = "pairing"
      /\ FlagsHold(m) => FlagsHold(p)
      /\ p.holds \ {"pairing"} = m.holds \ {"pairing"}
      /\ Runs(m) => Runs(p)
      /\ ~m.timer /\ "already_off" \in m.holds => ~p.timer
  BY PairingIndFlags
<1> HIDE DEF p
<1>3. /\ n \in AutoType
      /\ n.pairing = p.pairing
      /\ n.linkback <=> s = "linkback"
      /\ FlagsHold(p) => FlagsHold(n)
      /\ n.holds \ {"linkback"} = p.holds \ {"linkback"}
      /\ Runs(p) => Runs(n)
      /\ ~p.timer /\ "already_off" \in p.holds => ~n.timer
  BY <1>2, LinkbackIndFlags
<1> HIDE DEF n
<1>4. n.holds \ {"pairing", "linkback"} = m.holds \ {"pairing", "linkback"}
  BY <1>2, <1>3
<1>5. "already_off" \in m.holds => "already_off" \in p.holds /\ "already_off" \in n.holds
  BY <1>2, <1>3
<1>6. Follows(n, s)
  BY <1>2, <1>3 DEF Follows
<1> QED
  BY <1>1, <1>2, <1>3, <1>4, <1>5, <1>6

-----------------------------------------------------------------------------
(* The steps. *)

(* The headset starts with every flag, hold and timer off.                  *)
LEMMA AutoInit == HeadsetInit => AutoInv
BY DEF HeadsetInit, Init, AutoInv, AutoType, BootAuto, NoLe

(* An indication of a state the awake policy can be in, after a hold for a  *)
(* phone or none.                                                           *)
LEMMA AwakeInd ==
    ASSUME NEW m \in AutoType, NEW s, s # "shutdown", FlagsHold(m), Runs(m)
    PROVE  LET n == StateInd(m, s)
           IN  /\ n \in AutoType /\ FlagsHold(n) /\ Follows(n, s) /\ Runs(n)
               /\ \A h \in {"already_off", "ble_link", "source_link"} :
                     h \in n.holds <=> h \in m.holds
<1> DEFINE n == StateInd(m, s)
<1>1. /\ n \in AutoType /\ FlagsHold(n) /\ Follows(n, s) /\ Runs(n)
      /\ n.holds \ {"pairing", "linkback"} = m.holds \ {"pairing", "linkback"}
  BY StateIndFlags
<1> HIDE DEF n
<1>2. \A h \in {"already_off", "ble_link", "source_link"} : h \in n.holds <=> h \in m.holds
  BY <1>1
<1> QED
  BY <1>1, <1>2 DEF n

(* A switch-off, in whatever state, holds the countdown.                    *)
LEMMA OffHolds ==
    ASSUME NEW m \in AutoType, NEW s
    PROVE  LET n == SwitchedOff(m, s)
           IN  n \in AutoType /\ "already_off" \in n.holds /\ ~n.timer
<1> DEFINE r == Released(m, Holds \ {"already_off"})
           i == StateInd(r, s)
<1>1. r \in AutoType
  BY ReleasedFlags
<1> HIDE DEF r
<1>2. i \in AutoType
  BY <1>1, StateIndFlags
<1> HIDE DEF i
<1>3. SwitchedOff(m, s) = Held(i, "already_off")
  BY DEF SwitchedOff, i, r
<1> QED
  BY <1>2, <1>3, HeldFlags DEF Holds

(* Switched on, the countdown starts.                                       *)
LEMMA OnCounts ==
    LET n == SwitchedOn(BootAuto)
    IN  n \in AutoType /\ n.holds = {} /\ n.timer /\ ~n.pairing /\ ~n.linkback
<1> DEFINE b == [BootAuto EXCEPT !.pairing = FALSE, !.linkback = FALSE]
<1>1. b \in AutoType /\ b.holds = {} /\ ~b.pairing /\ ~b.linkback
  BY DEF BootAuto, AutoType
<1>2. SwitchedOn(BootAuto) = Released(b, {"already_off"})
  BY DEF SwitchedOn
<1> HIDE DEF b
<1> QED
  BY <1>1, <1>2, ReleasedFlags

(* Switching on and off, by the key or by the countdown.                    *)
LEMMA AutoSwitch ==
    ASSUME AutoInv, AutoTimeout \/ Switch
    PROVE  AutoInv'
<1>1. CASE AutoTimeout
  <2> DEFINE m == [auto EXCEPT !.timer = FALSE]
  <2>1. m \in AutoType
    BY DEF AutoInv, AutoType
  <2>2. auto' = SwitchedOff(m, bp'.state)
    BY <1>1 DEF AutoTimeout
  <2> HIDE DEF m
  <2> QED
    BY <1>1, <2>1, <2>2, OffHolds DEF AutoTimeout, PowerOff, AutoInv
<1>2. CASE PowerOff /\ auto' = SwitchedOff(auto, bp'.state) /\ UNCHANGED <<le, authed>>
  BY <1>2, OffHolds DEF PowerOff, AutoInv
<1>3. CASE PowerOn /\ auto' = SwitchedOn(auto) /\ authed' = {} /\ UNCHANGED le
  <2>1. bp' = [BootPolicy EXCEPT !.state = "stop", !.timers = {"power_on"}]
        /\ device = "off" /\ device' = "on"
    BY <1>3 DEF PowerOn
  <2>2. bp'.state = "stop"
    BY <2>1 DEF BootPolicy
  <2>3. auto = BootAuto /\ le = NoLe
    BY <2>1 DEF AutoInv
  <2>4. /\ auto' \in AutoType /\ auto'.holds = {} /\ auto'.timer
        /\ ~auto'.pairing /\ ~auto'.linkback
    BY <1>3, <2>3, OnCounts
  <2>5. AwakeInv'
    BY <1>3, <2>2, <2>3, <2>4 DEF AwakeInv, FlagsHold, Follows, Runs, NoLe
  <2> QED
    BY <1>3, <2>1, <2>4, <2>5 DEF AutoInv
<1>4. CASE Reboot /\ auto' = BootAuto /\ le' = NoLe /\ authed' = {}
  BY <1>4, AutoInit DEF Reboot, AutoInv, AutoType, BootAuto, NoLe
<1> QED
  BY <1>1, <1>2, <1>3, <1>4 DEF Switch

(* While the chip is off nobody is there to authenticate or to indicate.    *)
LEMMA AutoIndicated ==
    ASSUME AutoInv, SleepInv, SleepInv', Indicated
    PROVE  AutoInv'
<1>1. device' = device /\ device # "off"
  <2>1. CASE StepTimeout
    BY <2>1 DEF StepTimeout, SleepInv
  <2>2. CASE PowerOnTimeout
    BY <2>2 DEF PowerOnTimeout, SleepInv
  <2>3. CASE LinkbackTimeout
    BY <2>3 DEF LinkbackTimeout, SleepInv
  <2>4. CASE Host
    BY <2>4, HostWorks DEF Host, EnterPairing, ExitPairing, DisconnectAll,
                           CreateConnection, DefaultConnect, Disconnect
  <2>5. CASE StackEvent
    BY <2>5, StackWorks, QuietStack DEF SleepInv
  <2> QED
    BY <2>1, <2>2, <2>3, <2>4, <2>5 DEF Indicated, StackEvent
<1>2. auto' = StateInd(auto, bp'.state) /\ le' = le /\ (authed = {} => authed' = {})
  BY DEF Indicated
<1>3. auto \in AutoType /\ auto' \in AutoType
  BY <1>2, StateIndFlags DEF AutoInv
<1>4. CASE device = "on"
  <2>1. bp'.state # "shutdown"
    BY <1>1, <1>4 DEF SleepInv
  <2>2. /\ FlagsHold(auto') /\ Follows(auto', bp'.state) /\ Runs(auto')
        /\ \A h \in {"already_off", "ble_link", "source_link"} :
              h \in auto'.holds <=> h \in auto.holds
    BY <1>2, <1>3, <1>4, <2>1, AwakeInd DEF AutoInv, AwakeInv
  <2>3. AwakeInv'
    BY <1>2, <1>4, <2>2 DEF AutoInv, AwakeInv, NoLe
  <2> QED
    BY <1>1, <1>2, <1>3, <1>4, <2>3 DEF AutoInv
<1>5. CASE device = "off_ing"
  <2>1. "already_off" \in auto'.holds /\ ~auto'.timer
    BY <1>2, <1>3, <1>5, StateIndFlags DEF AutoInv
  <2> QED
    BY <1>1, <1>2, <1>3, <1>5, <2>1 DEF AutoInv
<1> QED
  BY <1>1, <1>4, <1>5 DEF SleepInv

(* A phone that authenticates holds the countdown.                          *)
LEMMA AutoAuthenticated ==
    ASSUME AutoInv, SleepInv, SleepInv', NEW a \in Addrs, Authenticated(a)
    PROVE  AutoInv'
<1> DEFINE m == AuthInd(auto, bp.state)
<1>1. StackEvent
  BY DEF Authenticated, StackEvent
<1>2. device' = device /\ device # "off" /\ ~Quiet
  BY <1>1, StackWorks, QuietStack DEF SleepInv
<1>3. auto' = StateInd(m, bp'.state) /\ le' = le
  BY DEF Authenticated
<1>4. m = auto \/ m = Held(auto, "source_link")
  BY DEF AuthInd
<1>5. m \in AutoType
  BY <1>4, HeldFlags DEF AutoInv, Holds
<1>6. CASE device = "on"
  <2>1. bp'.state # "shutdown" /\ m = Held(auto, "source_link")
    BY <1>2, <1>6 DEF SleepInv, AuthInd
  <2>2. /\ m.holds = auto.holds \cup {"source_link"} /\ ~m.timer
        /\ m.pairing = auto.pairing /\ m.linkback = auto.linkback
    BY <2>1, HeldFlags DEF AutoInv, Holds
  <2> HIDE DEF m
  <2>3. FlagsHold(m) /\ Runs(m)
    BY <1>6, <2>2 DEF AutoInv, AwakeInv, FlagsHold, Runs
  <2>4. /\ auto' \in AutoType
        /\ FlagsHold(auto') /\ Follows(auto', bp'.state) /\ Runs(auto')
        /\ \A h \in {"already_off", "ble_link", "source_link"} :
              h \in auto'.holds <=> h \in m.holds
    BY <1>3, <1>5, <2>1, <2>3, AwakeInd
  <2>5. AwakeInv'
    BY <1>3, <1>6, <2>2, <2>4 DEF AutoInv, AwakeInv, NoLe
  <2> QED
    BY <1>2, <1>3, <1>6, <2>4, <2>5 DEF AutoInv
<1>7. CASE device = "off_ing"
  <2>1. "already_off" \in m.holds /\ ~m.timer
    BY <1>4, <1>7, HeldFlags DEF AutoInv, Holds
  <2> HIDE DEF m
  <2>2. auto' \in AutoType /\ "already_off" \in auto'.holds /\ ~auto'.timer
    BY <1>3, <1>5, <2>1, StateIndFlags
  <2> QED
    BY <1>2, <1>3, <1>7, <2>2 DEF AutoInv
<1> QED
  BY <1>2, <1>6, <1>7 DEF SleepInv

(* The hold for LE links comes with the first one connected and goes with   *)
(* the last one.                                                            *)
LEMMA AutoLe ==
    ASSUME AutoInv, NEW c \in LeConns,
           LeConnecting(c) \/ LeConnected(c) \/ LeDisconnected(c)
    PROVE  AutoInv'
<1>1. CASE LeConnecting(c)
  <2>1. /\ le'[c] = "connecting" /\ le' \in [LeConns -> {"free", "connecting", "connected"}]
        /\ \A d \in LeConns : le'[d] = "connected" => le[d] = "connected"
    BY <1>1 DEF LeConnecting, AutoInv
  <2>2. le' # NoLe
    BY <2>1 DEF NoLe
  <2> QED
    BY <1>1, <2>1, <2>2 DEF LeConnecting, vars, AutoInv, AwakeInv
<1>2. CASE LeConnected(c)
  <2>1. /\ le'[c] = "connected" /\ le' \in [LeConns -> {"free", "connecting", "connected"}]
        /\ le # NoLe
    BY <1>2 DEF LeConnected, AutoInv, NoLe
  <2>2. le' # NoLe
    BY <2>1 DEF NoLe
  <2>3. /\ auto' \in AutoType
        /\ auto'.holds = auto.holds \cup {"ble_link"} /\ ~auto'.timer
        /\ auto'.pairing = auto.pairing /\ auto'.linkback = auto.linkback
    BY <1>2, HeldFlags DEF LeConnected, AutoInv, Holds
  <2>4. AwakeInv => AwakeInv'
    BY <1>2, <2>2, <2>3 DEF LeConnected, vars, AwakeInv, FlagsHold, Follows, Runs
  <2> QED
    BY <1>2, <2>1, <2>3, <2>4 DEF LeConnected, vars, AutoInv
<1>3. CASE LeDisconnected(c)
  <2>1. /\ le' \in [LeConns -> {"free", "connecting", "connected"}]
        /\ \A d \in LeConns : le'[d] = "connected" => le[d] = "connected"
        /\ le # NoLe
    BY <1>3 DEF LeDisconnected, AutoInv, NoLe
  <2>2. CASE le' = NoLe
    <3>1. /\ auto' \in AutoType
          /\ auto'.holds = auto.holds \ {"ble_link"}
          /\ auto'.timer <=> auto.holds \subseteq {"ble_link"} \/ auto.timer
          /\ auto'.pairing = auto.pairing /\ auto'.linkback = auto.linkback
      BY <1>3, <2>2, ReleasedFlags DEF LeDisconnected, AutoInv
    <3>2. \A d \in LeConns : le'[d] # "connected"
      BY <2>2 DEF NoLe
    <3>3. AwakeInv => AwakeInv'
      BY <1>3, <3>1, <3>2 DEF LeDisconnected, vars, AwakeInv, FlagsHold, Follows, Runs
    <3> QED
      BY <1>3, <2>1, <3>1, <3>3 DEF LeDisconnected, vars, AutoInv
  <2>3. CASE le' # NoLe
    BY <1>3, <2>1, <2>3 DEF LeDisconnected, vars, AutoInv, AwakeInv, NoLe
  <2> QED
    BY <2>2, <2>3
<1> QED
  BY <1>1, <1>2, <1>3

(* Every step of the headset, given where the policy was and is.            *)
LEMMA AutoStep ==
    ASSUME AutoInv, SleepInv, SleepInv', [HeadsetNext]_headsetVars
    PROVE  AutoInv'
<1>1. CASE UNCHANGED headsetVars
  BY <1>1 DEF headsetVars, vars, AutoInv, AwakeInv, NoLe
<1>2. CASE HeadsetNext
  BY <1>2, AutoSwitch, AutoIndicated, AutoAuthenticated, AutoLe DEF HeadsetNext
<1> QED
  BY <1>1, <1>2

(* What the invariant says of the countdown.                                *)
LEMMA AutoImplies == SleepInv /\ AutoInv => CountdownWhenIdle
<1> SUFFICES ASSUME SleepInv, AutoInv PROVE CountdownWhenIdle
  OBVIOUS
<1>1. auto.holds \subseteq Holds
  BY DEF AutoInv, AutoType
<1>2. CASE device = "on"
  <2>1. auto.timer => ~InUse
    BY <1>2 DEF AutoInv, AwakeInv, FlagsHold, Follows, Runs, InUse
  <2>2. ASSUME ~InUse, le = NoLe, "source_link" \notin auto.holds
        PROVE  auto.timer
    <3>1. \A h \in Holds : h \notin auto.holds
      BY <1>2, <2>2 DEF AutoInv, AwakeInv, FlagsHold, Follows, InUse, Holds
    <3> QED
      BY <1>1, <1>2, <3>1 DEF AutoInv, AwakeInv, Runs
  <2> QED
    BY <1>1, <1>2, <2>1, <2>2 DEF CountdownWhenIdle
<1>3. CASE device # "on"
  BY <1>1, <1>3 DEF SleepInv, AutoInv, BootAuto, CountdownWhenIdle
<1> QED
  BY <1>2, <1>3

(***************************************************************************)
(* However pairing mode, linkback, phones, LE links and the switch follow   *)
(* on each other, the headset counts down to its power-off when it is idle  *)
(* and no phone was there, and never while it is in use.  The condition is  *)
(* needed: CMD_BT_CREATE_CONNECTION pages from STATE_STOP, where event_ind  *)
(* swallows the indication of the phone that then comes.                    *)
(***************************************************************************)
THEOREM CountdownSound ==
    ASSUME "create" \notin Inputs
    PROVE  HeadsetSpec => []CountdownWhenIdle
<1>1. HeadsetInit => SleepInv /\ AutoInv
  BY SleepInit, AutoInit DEF HeadsetInit
<1>2. SleepInv /\ AutoInv /\ [HeadsetNext]_headsetVars => SleepInv' /\ AutoInv'
  BY HeadsetStep, SleepStep, AutoStep
<1> QED
  BY <1>1, <1>2, AutoImplies, PTL DEF HeadsetSpec
=============================================================================
