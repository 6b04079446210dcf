--------------------------- MODULE BtPolicyProofs ---------------------------
(***************************************************************************)
(* What holds of the policy for every number of devices, profiles, places   *)
(* and entries.  Whatever events the environment admits: the link table is  *)
(* sound, every variable keeps its type, pairing mode is entered with room  *)
(* only, and no device is paged beyond the limit.  A device over the limit  *)
(* is on its way out if there can be one only.  While nothing runs linkback *)
(* from outside (NobodyRuns) there is one search, of the node in work, and  *)
(* a shutdown runs out; while nothing is queued from outside either         *)
(* (NobodyQueues), a stable state has nothing left to do.                   *)
(*                                                                          *)
(* TableInv speaks of links and acl alone: what the policy decides          *)
(* (LinkbackRun and the functions it calls) matters to it through Paged,    *)
(* which never takes an ACL that is up.  PolicyInv are the types and that   *)
(* whoever is in work has an address.  SleepInv, SearchInv and PlanInv rest *)
(* on both.  Each function of the policy has one lemma about the policy it  *)
(* leaves (RunOK, SchedOK, TimeoutOK and the like), cited by every handler  *)
(* that calls it.                                                           *)
(***************************************************************************)
EXTENDS BtPolicy, FiniteSetTheorems, SequenceTheorems, WellFoundedInduction, TLAPS

(* What the stack knows of an ACL.                                          *)
AclStates == {"down", "paging", "incoming", "up"}

(* The link table agrees with the ACLs, and can be counted.                 *)
TableInv ==
    /\ links \in LinkTable
    /\ IsFiniteSet(links.on)
    /\ acl \in [Addrs -> AclStates]
    /\ LinkTableInv

(* The parts of a step that leave the entries of the link table in use.     *)
KeepsUp ==
    /\ acl' \in [Addrs -> AclStates]
    /\ \A a \in Addrs : acl[a] = "up" => acl'[a] = "up"

-----------------------------------------------------------------------------
(* The rows of the table that a step can write.                             *)

(* Paging devices leaves every ACL that is up as it is.                     *)
LEMMA PagedKeepsUp ==
    ASSUME NEW al \in [Addrs -> AclStates], NEW A
    PROVE  /\ Paged(al, A) \in [Addrs -> AclStates]
           /\ \A a \in Addrs : al[a] = "up" => Paged(al, A)[a] = "up"
BY DEF Paged, AclStates

(* A step that leaves the table alone and no used entry without ACL.        *)
LEMMA TableKept ==
    ASSUME TableInv, links' = links, KeepsUp
    PROVE  TableInv'
BY DEF TableInv, LinkTableInv, KeepsUp

(* Marking a used entry to leave, or no longer to leave, writes nothing     *)
(* else of the table.                                                       *)
LEMMA MarkedTable ==
    ASSUME NEW l \in LinkTable, NEW v \in l.on, NEW P
    PROVE  /\ Marked(l, v, P) \in LinkTable
           /\ Marked(l, v, P).on = l.on
           /\ Marked(l, v, P).num = l.num
           /\ Marked(l, v, P).profs = l.profs
           /\ Marked(l, v, P).leaving \subseteq l.leaving \cup {v}
BY DEF LinkTable, Marked

(* A step that marks a used entry.                                          *)
LEMMA TableMarked ==
    ASSUME TableInv, KeepsUp, NEW v \in links.on, NEW P, links' = Marked(links, v, P)
    PROVE  TableInv'
<1>1. /\ links' \in LinkTable
      /\ links'.on = links.on /\ links'.num = links.num /\ links'.profs = links.profs
      /\ links'.leaving \subseteq links.leaving \cup {v}
  BY MarkedTable DEF TableInv
<1>2. v \in Addrs
  BY DEF TableInv, LinkTable
<1>3. LinkTableInv'
  BY <1>1, <1>2 DEF TableInv, LinkTableInv, KeepsUp, LinkTable
<1> QED
  BY <1>1, <1>3 DEF TableInv, KeepsUp

(* The table with an entry for a device whose ACL comes up.                 *)
LEMMA AddedTable ==
    ASSUME TableInv, NEW a \in Addrs, acl[a] # "up"
    PROVE  /\ Added(a) \in LinkTable
           /\ IsFiniteSet(Added(a).on)
           /\ Added(a).num = Cardinality(Added(a).on)
           /\ Added(a).on \subseteq links.on \cup {a}
           /\ \A c \in Addrs :
                 c \notin Added(a).on =>
                    Added(a).profs[c] = {} /\ c \notin Added(a).leaving
<1>1. a \notin links.on
  BY DEF TableInv, LinkTableInv
<1>2. /\ links \in LinkTable /\ IsFiniteSet(links.on)
      /\ links.num = Cardinality(links.on)
      /\ \A c \in Addrs : c \notin links.on =>
            links.profs[c] = {} /\ c \notin links.leaving
  BY DEF TableInv, LinkTableInv
<1>3. CASE Cardinality(links.on) < LinkNum
  <2>1. Added(a) = [links EXCEPT !.on = @ \cup {a}, !.num = @ + 1]
    BY <1>1, <1>3 DEF Added
  <2>2. /\ IsFiniteSet(links.on \cup {a})
        /\ Cardinality(links.on \cup {a}) = Cardinality(links.on) + 1
    BY <1>1, <1>2, FS_AddElement
  <2>3. links.num + 1 \in 0..LinkNum
    BY <1>2, <1>3, LinkNumAssumption DEF LinkTable
  <2>4. /\ Added(a).on = links.on \cup {a} /\ Added(a).num = links.num + 1
        /\ Added(a).profs = links.profs /\ Added(a).leaving = links.leaving
    BY <1>2, <2>1 DEF LinkTable
  <2>5. Added(a) = [on |-> links.on \cup {a}, profs |-> links.profs,
                    leaving |-> links.leaving, num |-> links.num + 1]
    BY <1>2, <2>1 DEF LinkTable
  <2>6. Added(a) \in LinkTable
    BY <1>2, <2>3, <2>5 DEF LinkTable
  <2> QED
    BY <1>2, <2>2, <2>4, <2>6
<1>4. CASE ~(Cardinality(links.on) < LinkNum)
  <2>1. Added(a) = links
    BY <1>4 DEF Added
  <2> QED
    BY <1>2, <2>1
<1> QED
  BY <1>3, <1>4

(* The entry of a device whose ACL went down is freed.                      *)
LEMMA TableFreed ==
    ASSUME TableInv, NEW a \in Addrs, links' = Deleted(a),
           acl' = [acl EXCEPT ![a] = "down"]
    PROVE  TableInv'
<1>1. /\ links \in LinkTable /\ IsFiniteSet(links.on)
      /\ acl \in [Addrs -> AclStates]
      /\ links.num = Cardinality(links.on)
      /\ \A c \in Addrs : IF c \in links.on THEN acl[c] = "up"
            ELSE links.profs[c] = {} /\ c \notin links.leaving
  BY DEF TableInv, LinkTableInv
<1>2. acl' \in [Addrs -> AclStates]
  BY <1>1 DEF AclStates
<1>3. CASE a \in links.on
  <2>1. /\ IsFiniteSet(links.on \ {a})
        /\ Cardinality(links.on \ {a}) = Cardinality(links.on) - 1
    BY <1>1, <1>3, FS_RemoveElement
  <2>2. Cardinality(links.on) \in Nat /\ Cardinality(links.on \ {a}) \in Nat
    BY <1>1, <2>1, FS_CardinalityType
  <2>3. links.num > 0 /\ links.num - 1 \in 0..LinkNum
    BY <1>1, <2>1, <2>2, LinkNumAssumption DEF LinkTable
  <2>4. links' = [on |-> links.on \ {a}, profs |-> [links.profs EXCEPT ![a] = {}],
                  leaving |-> links.leaving \ {a}, num |-> links.num - 1]
    BY <1>3, <2>3 DEF Deleted
  <2>5. links' \in LinkTable
    BY <1>1, <2>3, <2>4 DEF LinkTable
  <2>6. \A c \in Addrs : IF c \in links'.on THEN acl'[c] = "up"
            ELSE links'.profs[c] = {} /\ c \notin links'.leaving
    BY <1>1, <2>4 DEF LinkTable
  <2>7. links'.num = Cardinality(links'.on) /\ IsFiniteSet(links'.on)
    BY <1>1, <2>1, <2>4
  <2> QED
    BY <1>2, <2>5, <2>6, <2>7 DEF TableInv, LinkTableInv
<1>4. CASE a \notin links.on
  <2>1. links' = links
    BY <1>4 DEF Deleted
  <2> QED
    BY <1>1, <1>2, <1>4, <2>1 DEF TableInv, LinkTableInv
<1> QED
  BY <1>3, <1>4

(* prepare_for_dedicated_enter_pairing_mode marks at most one entry.        *)
LEMMA PreparedTable ==
    ASSUME TableInv, KeepsUp, NEW b, NEW sr, NEW cl, PreparePairing(b, sr, cl)
    PROVE  TableInv'
<1>1. CASE links' = links
  BY <1>1, TableKept
<1>2. CASE \E v \in links.on : links' = Marked(links, v, Profs)
  BY <1>2, TableMarked
<1> QED
  BY <1>1, <1>2 DEF PreparePairing, DisconnectLink

-----------------------------------------------------------------------------
(* The inductive invariant, one step per action. *)

(* The table is empty at first.                                             *)
LEMMA TableInit == Init => TableInv
<1> SUFFICES ASSUME Init PROVE TableInv
  OBVIOUS
<1>1. /\ links.on = {} /\ links.leaving = {} /\ links.num = 0
      /\ links.profs = [a \in Addrs |-> {}]
      /\ links \in LinkTable
  BY LinkNumAssumption DEF Init, NoLinks, LinkTable
<1>2. IsFiniteSet(links.on) /\ Cardinality(links.on) = 0
  BY <1>1, FS_EmptySet
<1>3. acl \in [Addrs -> AclStates]
  BY DEF Init, AclStates
<1> QED
  BY <1>1, <1>2, <1>3 DEF TableInv, LinkTableInv

(* Device: power, the shutdown steps and the timers.                        *)
LEMMA TableDevice == TableInv /\ Device => TableInv'
<1> SUFFICES ASSUME TableInv, Device PROVE TableInv'
  OBVIOUS
<1>0. acl \in [Addrs -> AclStates] /\ links \in LinkTable
  BY DEF TableInv
<1>1. CASE links' = NoLinks /\ acl' \in [Addrs -> AclStates]
  <2>1. /\ links'.on = {} /\ links'.leaving = {} /\ links'.num = 0
        /\ links'.profs = [a \in Addrs |-> {}]
        /\ links' \in LinkTable
    BY <1>1, LinkNumAssumption DEF NoLinks, LinkTable
  <2>2. IsFiniteSet(links'.on) /\ Cardinality(links'.on) = 0
    BY <2>1, FS_EmptySet
  <2> QED
    BY <1>1, <2>1, <2>2 DEF TableInv, LinkTableInv
<1>2. CASE PowerOn
  <2>1. links' = NoLinks /\ acl' = acl
    BY <1>2 DEF PowerOn, stack
  <2> QED
    BY <1>0, <1>1, <2>1
<1>3. CASE Reboot
  <2>1. links' = NoLinks /\ acl' \in [Addrs -> AclStates]
    BY <1>3 DEF Reboot, AclStates
  <2> QED
    BY <1>1, <2>1
<1>4. CASE PowerOff
  <2>1. KeepsUp
    BY <1>0, <1>4 DEF PowerOff, KeepsUp
  <2>2. CASE links' = links
    BY <2>1, <2>2, TableKept
  <2>3. CASE DropProfiles
    <3>1. /\ links' \in LinkTable /\ links'.leaving = {} /\ links'.on = links.on
          /\ links'.num = links.num /\ links'.profs = links.profs
      BY <1>0, <2>3 DEF DropProfiles, LinkTable
    <3> QED
      BY <2>1, <3>1 DEF TableInv, LinkTableInv, KeepsUp
  <2> QED
    BY <1>4, <2>2, <2>3 DEF PowerOff
<1>5. CASE StepTimeout
  BY <1>0, <1>5, TableKept DEF StepTimeout, KeepsUp
<1>6. CASE PowerOnTimeout
  <2>1. CASE links' = links /\ \E A : acl' = Paged(acl, A)
    BY <1>0, <2>1, PagedKeepsUp, TableKept DEF KeepsUp
  <2>2. CASE UNCHANGED acl /\ \E b : PreparePairing(b, search, closing)
    BY <1>0, <2>2, PreparedTable DEF KeepsUp
  <2> QED
    BY <1>6, <2>1, <2>2 DEF PowerOnTimeout
<1>7. CASE LinkbackTimeout
  BY <1>0, <1>7, PagedKeepsUp, TableKept DEF LinkbackTimeout, TimeoutNow, KeepsUp
<1> QED
  BY <1>2, <1>3, <1>4, <1>5, <1>6, <1>7 DEF Device

(* Host: the commands.                                                      *)
LEMMA TableHost == TableInv /\ Host => TableInv'
<1> SUFFICES ASSUME TableInv, Host PROVE TableInv'
  OBVIOUS
<1>0. acl \in [Addrs -> AclStates]
  BY DEF TableInv
<1>1. CASE EnterPairing
  <2>1. KeepsUp
    BY <1>0, <1>1 DEF EnterPairing, KeepsUp
  <2>2. links' = links \/ \E b, sr, cl : PreparePairing(b, sr, cl)
    BY <1>1 DEF EnterPairing
  <2> QED
    BY <2>1, <2>2, TableKept, PreparedTable
<1>2. CASE ExitPairing \/ DisconnectAll \/ \E a \in Addrs, P \in Plans : DefaultConnect(a, P)
  BY <1>0, <1>2, TableKept DEF ExitPairing, DisconnectAll, DefaultConnect, KeepsUp, stack
<1>3. ASSUME NEW a \in Addrs, NEW P \in Plans, CreateConnection(a, P) PROVE TableInv'
  BY <1>0, <1>3, PagedKeepsUp, TableKept DEF CreateConnection, RunAndSearch, KeepsUp
<1>4. ASSUME NEW a \in Addrs, NEW P \in Plans, Disconnect(a, P) PROVE TableInv'
  BY <1>0, <1>4, TableMarked DEF Disconnect, DisconnectLink, KeepsUp
<1> QED
  BY <1>1, <1>2, <1>3, <1>4 DEF Host

(* StackEvent: only an ACL that comes up or goes down adds or frees a row.  *)
LEMMA TableStack == TableInv /\ StackEvent => TableInv'
<1> SUFFICES ASSUME TableInv, StackEvent PROVE TableInv'
  OBVIOUS
<1>0. acl \in [Addrs -> AclStates] /\ links \in LinkTable
  BY DEF TableInv
<1>1. ASSUME NEW a \in Addrs, AclConnInd(a) PROVE TableInv'
  BY <1>0, <1>1, TableKept DEF AclConnInd, KeepsUp, AclStates
<1>2. ASSUME NEW a \in Addrs, AclConnSuccess(a) PROVE TableInv'
  <2>1. acl[a] # "up" /\ acl' = [acl EXCEPT ![a] = "up"]
    BY <1>2 DEF AclConnSuccess
  <2>2. /\ Added(a) \in LinkTable
        /\ IsFiniteSet(Added(a).on)
        /\ Added(a).num = Cardinality(Added(a).on)
        /\ Added(a).on \subseteq links.on \cup {a}
        /\ \A c \in Addrs : c \notin Added(a).on =>
              Added(a).profs[c] = {} /\ c \notin Added(a).leaving
    BY <2>1, AddedTable
  <2>3. \A c \in Added(a).on : c \in Addrs /\ acl'[c] = "up"
    BY <1>0, <2>1, <2>2 DEF TableInv, LinkTableInv, LinkTable
  <2>4. acl' \in [Addrs -> AclStates]
    BY <1>0, <2>1 DEF AclStates
  <2>5. CASE links' = Added(a)
    BY <2>2, <2>3, <2>4, <2>5 DEF TableInv, LinkTableInv
  <2>6. ASSUME NEW v \in Added(a).on, links' = Marked(Added(a), v, Profs)
        PROVE  TableInv'
    <3>1. /\ links' \in LinkTable /\ links'.on = Added(a).on
          /\ links'.num = Added(a).num /\ links'.profs = Added(a).profs
          /\ links'.leaving \subseteq Added(a).leaving \cup {v}
      BY <2>2, <2>6, MarkedTable
    <3> QED
      BY <2>2, <2>3, <2>4, <3>1 DEF TableInv, LinkTableInv
  <2> QED
    BY <1>2, <2>5, <2>6 DEF AclConnSuccess, DisconnectLink
<1>3. ASSUME NEW a \in Addrs, PageTimeout(a) PROVE TableInv'
  <2>1. /\ [acl EXCEPT ![a] = "down"] \in [Addrs -> AclStates]
        /\ \A c \in Addrs : acl[c] = "up" => [acl EXCEPT ![a] = "down"][c] = "up"
    BY <1>0, <1>3 DEF PageTimeout, AclStates
  <2>2. KeepsUp
    BY <1>3, <2>1, PagedKeepsUp DEF PageTimeout, RunAndSearch, KeepsUp
  <2> QED
    BY <1>3, <2>2, TableKept DEF PageTimeout
<1>4. ASSUME NEW a \in Addrs, AclCancelled(a) PROVE TableInv'
  BY <1>0, <1>4, TableKept DEF AclCancelled, KeepsUp, AclStates
<1>5. ASSUME NEW a \in Addrs, AclAuthenSuccess(a) PROVE TableInv'
  BY <1>0, <1>5, PagedKeepsUp, TableKept DEF AclAuthenSuccess, TimeoutNow, KeepsUp
<1>6. ASSUME NEW a \in Addrs, AclConnDisconn(a) PROVE TableInv'
  BY <1>6, TableFreed DEF AclConnDisconn
<1>7. ASSUME NEW a \in Addrs, SdpAttrInfo(a) \/ SdpDiscovCmpl(a) PROVE TableInv'
  BY <1>0, <1>7, PagedKeepsUp, TableKept
     DEF SdpAttrInfo, SdpDiscovCmpl, RunAndSearch, KeepsUp, stack
<1>8. ASSUME NEW a \in Addrs, NEW p \in Profs, ProfConnCmpl(a, p) PROVE TableInv'
  <2>1. KeepsUp
    BY <1>0, <1>8, PagedKeepsUp DEF ProfConnCmpl, RunAndSearch, KeepsUp
  <2>2. CASE a \in links.on
    <3>1. links' = [links EXCEPT !.profs[a] = @ \cup {p}]
      BY <1>8, <2>2 DEF ProfConnCmpl
    <3>2. /\ links' \in LinkTable /\ links'.on = links.on /\ links'.num = links.num
          /\ links'.leaving = links.leaving
          /\ \A c \in Addrs \ {a} : links'.profs[c] = links.profs[c]
      BY <1>0, <3>1 DEF LinkTable
    <3> QED
      BY <2>1, <2>2, <3>2 DEF TableInv, LinkTableInv, KeepsUp, LinkTable
  <2>3. CASE a \notin links.on
    BY <1>8, <2>1, <2>3, TableKept DEF ProfConnCmpl
  <2> QED
    BY <2>2, <2>3
<1>9. ASSUME NEW a \in Addrs, NEW p \in Profs, ProfConnFail(a, p) PROVE TableInv'
  BY <1>0, <1>9, TableKept DEF ProfConnFail, KeepsUp
<1>10. ASSUME NEW a \in Addrs, NEW p \in Profs, ProfDisconnCmpl(a, p) PROVE TableInv'
  <2>1. KeepsUp
    BY <1>0, <1>10 DEF ProfDisconnCmpl, KeepsUp
  <2>2. /\ links' \in LinkTable /\ links'.on = links.on /\ links'.num = links.num
        /\ links'.leaving \subseteq links.leaving
        /\ \A c \in Addrs : links'.profs[c] \subseteq links.profs[c]
    <3> DEFINE l == [links EXCEPT !.profs[a] = @ \ {p}]
    <3>1. /\ l \in LinkTable /\ l.on = links.on /\ l.num = links.num
          /\ l.leaving = links.leaving
          /\ \A c \in Addrs : l.profs[c] \subseteq links.profs[c]
      BY <1>0 DEF LinkTable
    <3>2. links' = l \/ links' = [l EXCEPT !.leaving = @ \ {a}]
      BY <1>10 DEF ProfDisconnCmpl
    <3> HIDE DEF l
    <3>3. CASE links' = l
      BY <3>1, <3>3
    <3>4. CASE links' = [l EXCEPT !.leaving = @ \ {a}]
      <4>1. links' = [on |-> l.on, profs |-> l.profs, leaving |-> l.leaving \ {a},
                      num |-> l.num]
        BY <3>1, <3>4 DEF LinkTable
      <4>2. links' \in LinkTable
        BY <3>1, <4>1 DEF LinkTable
      <4> QED
        BY <3>1, <4>1, <4>2
    <3> QED
      BY <3>2, <3>3, <3>4
  <2> QED
    BY <2>1, <2>2 DEF TableInv, LinkTableInv, KeepsUp, LinkTable
<1> QED
  BY <1>1, <1>2, <1>3, <1>4, <1>5, <1>6, <1>7, <1>8, <1>9, <1>10 DEF StackEvent

(***************************************************************************)
(* b2s_connected.num counts the used entries, an entry is used only while   *)
(* the ACL is up, and a free one keeps nothing for the next device.         *)
(***************************************************************************)
THEOREM TableInductive == Spec => []TableInv
<1>1. Init => TableInv
  BY TableInit
<1>2. TableInv /\ [Next]_vars => TableInv'
  <2>1. TableInv /\ UNCHANGED vars => TableInv'
    BY TableKept DEF vars, stack, KeepsUp, TableInv
  <2> QED
    BY <2>1, TableDevice, TableHost, TableStack DEF Next
<1> QED
  BY <1>1, <1>2, PTL DEF Spec

(* b2s_connected.num counts the used entries of app_db.br_link, an entry is *)
(* used only while its ACL is up, and a freed one keeps nothing.            *)
THEOREM LinkTableSound == Spec => []LinkTableInv
BY TableInductive, PTL DEF TableInv

-----------------------------------------------------------------------------
(* Over the limit: OverLimitLeaves is inductive next to TableInv.           *)

Limited == LinkNum <= MaxLinks + 1 /\ "partial" \notin Inputs

(* A step that withdraws no request of a connected device to leave.         *)
LEMMA LeaverKept ==
    ASSUME TableInv, OverLimitLeaves, device' = "on" => device = "on",
           links' = links, closing \cap links.on \subseteq closing'
    PROVE  OverLimitLeaves'
BY DEF OverLimitLeaves, Over

(* A connected device that is asked to drop every profile is to leave.      *)
LEMMA LeaverMarked ==
    ASSUME NEW l \in LinkTable, NEW v \in l.on, links' = Marked(l, v, Profs)
    PROVE  OverLimitLeaves'
<1>1. v \in Addrs /\ l.profs[v] \subseteq Profs
  BY DEF LinkTable
<1>2. ToDrop(l, v, Profs) = l.profs[v]
  BY <1>1 DEF ToDrop
<1>3. v \in links'.leaving /\ links'.on = l.on
  BY <1>2 DEF Marked, LinkTable
<1> QED
  BY <1>3 DEF OverLimitLeaves

(* Preparing pairing mode makes a device leave or withdraws nothing.        *)
LEMMA LeaverPrepared ==
    ASSUME TableInv, OverLimitLeaves, device' = device,
           NEW b, NEW sr, NEW cl, closing \subseteq cl, PreparePairing(b, sr, cl)
    PROVE  OverLimitLeaves'
<1>1. CASE links' = links /\ closing' = cl
  BY <1>1, LeaverKept
<1>2. CASE \E v \in links.on : links' = Marked(links, v, Profs)
  BY <1>2, LeaverMarked DEF TableInv
<1> QED
  BY <1>1, <1>2 DEF PreparePairing, DisconnectLink

(* Power, the shutdown steps and the timers.                                *)
LEMMA OverDevice == TableInv /\ OverLimitLeaves /\ Device => OverLimitLeaves'
<1> SUFFICES ASSUME TableInv, OverLimitLeaves, Device PROVE OverLimitLeaves'
  OBVIOUS
<1>1. CASE PowerOn
  <2>1. links'.num = 0
    BY <1>1 DEF PowerOn, NoLinks
  <2> QED
    BY <2>1, MaxLinksAssumption DEF OverLimitLeaves, Over
<1>2. CASE PowerOff \/ Reboot
  <2>1. device' # "on"
    BY <1>2 DEF PowerOff, Reboot
  <2> QED
    BY <2>1 DEF OverLimitLeaves
<1>3. CASE StepTimeout
  <2>1. closing \subseteq closing'
    BY <1>3 DEF StepTimeout, StepIgnored, WaitForProfiles, CloseLinks, WaitForLinks, Closed
  <2> QED
    BY <1>3, <2>1, LeaverKept DEF StepTimeout
<1>4. CASE PowerOnTimeout
  <2>1. CASE UNCHANGED <<links, closing>>
    BY <1>4, <2>1, LeaverKept DEF PowerOnTimeout
  <2>2. CASE \E b : PreparePairing(b, search, closing)
    BY <1>4, <2>2, LeaverPrepared DEF PowerOnTimeout
  <2> QED
    BY <1>4, <2>1, <2>2 DEF PowerOnTimeout
<1>5. CASE LinkbackTimeout
  <2>1. closing \subseteq closing'
    BY <1>5 DEF LinkbackTimeout, TimeoutNow, Closed
  <2> QED
    BY <1>5, <2>1, LeaverKept DEF LinkbackTimeout
<1> QED
  BY <1>1, <1>2, <1>3, <1>4, <1>5 DEF Device

(* The commands.                                                            *)
LEMMA OverHost ==
    ASSUME Limited
    PROVE  TableInv /\ OverLimitLeaves /\ Host => OverLimitLeaves'
<1> SUFFICES ASSUME TableInv, OverLimitLeaves, Host PROVE OverLimitLeaves'
  OBVIOUS
<1>1. CASE EnterPairing
  <2>1. CASE links' = links /\ closing' = closing
    BY <1>1, <2>1, LeaverKept DEF EnterPairing
  <2>2. CASE \E b, sr, cl : closing \subseteq cl /\ PreparePairing(b, sr, cl)
    BY <1>1, <2>2, LeaverPrepared DEF EnterPairing
  <2> QED
    BY <1>1, <2>1, <2>2 DEF EnterPairing, Closed
<1>2. CASE ExitPairing \/ DisconnectAll
  BY <1>2, LeaverKept DEF ExitPairing, DisconnectAll, Closed, stack
<1>3. ASSUME NEW a \in Addrs, NEW P \in Plans, CreateConnection(a, P) \/ DefaultConnect(a, P)
      PROVE  OverLimitLeaves'
  BY <1>3, LeaverKept DEF CreateConnection, DefaultConnect, stack
<1>4. ASSUME NEW a \in Addrs, NEW P \in Plans, Disconnect(a, P) PROVE OverLimitLeaves'
  <2>1. P = Profs /\ a \in links.on
    BY <1>4 DEF Disconnect, Limited, Admitted
  <2> QED
    BY <1>4, <2>1, LeaverMarked DEF Disconnect, DisconnectLink, TableInv
<1> QED
  BY <1>1, <1>2, <1>3, <1>4 DEF Host

(* The events: only an ACL that comes up can go over the limit.             *)
LEMMA OverStack ==
    ASSUME Limited
    PROVE  TableInv /\ OverLimitLeaves /\ StackEvent => OverLimitLeaves'
<1> SUFFICES ASSUME TableInv, OverLimitLeaves, StackEvent PROVE OverLimitLeaves'
  OBVIOUS
<1>1. ASSUME NEW a \in Addrs,
             AclConnInd(a) \/ SdpAttrInfo(a) \/ SdpDiscovCmpl(a)
      PROVE  OverLimitLeaves'
  BY <1>1, LeaverKept DEF AclConnInd, SdpAttrInfo, SdpDiscovCmpl, stack
<1>2. ASSUME NEW a \in Addrs, AclConnSuccess(a) PROVE OverLimitLeaves'
  <2>1. Added(a) \in LinkTable
    BY <1>2, AddedTable DEF AclConnSuccess
  <2>2. CASE Over(Added(a)) /\ a \in Added(a).on
    BY <1>2, <2>1, <2>2, LeaverMarked DEF AclConnSuccess, DisconnectLink
  <2>3. CASE ~(Over(Added(a)) /\ a \in Added(a).on)
    <3>1. links' = Added(a) /\ closing' = closing /\ device' = device
      BY <1>2, <2>3 DEF AclConnSuccess
    <3>2. CASE ~Over(Added(a))
      BY <3>1, <3>2 DEF OverLimitLeaves
    <3>3. CASE a \notin Added(a).on
      <4>1. Added(a) = links
        BY <3>3 DEF Added, TableInv, LinkTable
      <4> QED
        BY <3>1, <4>1, LeaverKept
    <3> QED
      BY <2>3, <3>2, <3>3
  <2> QED
    BY <2>2, <2>3
<1>3. ASSUME NEW a \in Addrs, PageTimeout(a) \/ AclCancelled(a) PROVE OverLimitLeaves'
  <2>1. acl[a] # "up" /\ closing' = closing \ {a} /\ links' = links /\ device' = device
    BY <1>3 DEF PageTimeout, AclCancelled
  <2>2. a \notin links.on
    BY <2>1 DEF TableInv, LinkTableInv
  <2> QED
    BY <2>1, <2>2, LeaverKept
<1>4. ASSUME NEW a \in Addrs, AclAuthenSuccess(a) PROVE OverLimitLeaves'
  <2>1. closing \subseteq closing'
    BY <1>4 DEF AclAuthenSuccess, TimeoutNow, Closed
  <2> QED
    BY <1>4, <2>1, LeaverKept DEF AclAuthenSuccess
<1>5. ASSUME NEW a \in Addrs, AclConnDisconn(a) PROVE OverLimitLeaves'
  <2>1. links' = Deleted(a) /\ closing' = closing \ {a} /\ device' = device
    BY <1>5 DEF AclConnDisconn
  <2>2. CASE a \in links.on
    <3>1. links.num \in 0..LinkNum
      BY DEF TableInv, LinkTable
    <3>2. links'.num <= MaxLinks
      BY <2>1, <2>2, <3>1, LinkNumAssumption, MaxLinksAssumption DEF Deleted, Limited
    <3>3. links'.num \in Int
      BY <2>1, <2>2, <3>1, LinkNumAssumption DEF Deleted
    <3> QED
      BY <3>2, <3>3, MaxLinksAssumption DEF OverLimitLeaves, Over
  <2>3. CASE a \notin links.on
    BY <2>1, <2>3, LeaverKept DEF Deleted
  <2> QED
    BY <2>2, <2>3
<1>6. ASSUME NEW a \in Addrs, NEW p \in Profs, ProfConnCmpl(a, p) PROVE OverLimitLeaves'
  <2>1. /\ links'.on = links.on /\ links'.num = links.num
        /\ links'.leaving = links.leaving
        /\ closing' = closing /\ device' = device
    BY <1>6 DEF ProfConnCmpl, TableInv, LinkTable
  <2> QED
    BY <2>1 DEF OverLimitLeaves, Over
<1>7. ASSUME NEW a \in Addrs, NEW p \in Profs, ProfConnFail(a, p) PROVE OverLimitLeaves'
  BY <1>7, LeaverKept DEF ProfConnFail
<1>8. ASSUME NEW a \in Addrs, NEW p \in Profs, ProfDisconnCmpl(a, p) PROVE OverLimitLeaves'
  <2>1. /\ links'.on = links.on /\ links'.num = links.num /\ device' = device
        /\ links.leaving \cup closing \subseteq links'.leaving \cup closing'
    <3> DEFINE l == [links EXCEPT !.profs[a] = @ \ {p}]
    <3>1. /\ l \in LinkTable /\ l.on = links.on /\ l.num = links.num
          /\ l.leaving = links.leaving
      BY DEF TableInv, LinkTable
    <3>2. /\ device' = device
          /\ \/ links' = l /\ closing' = closing
             \/ links' = [l EXCEPT !.leaving = @ \ {a}] /\ closing' = closing \cup {a}
      BY <1>8 DEF ProfDisconnCmpl
    <3> QED
      BY <3>1, <3>2 DEF LinkTable
  <2> QED
    BY <2>1 DEF OverLimitLeaves, Over
<1> QED
  BY <1>1, <1>2, <1>3, <1>4, <1>5, <1>6, <1>7, <1>8 DEF StackEvent

(***************************************************************************)
(* A device over the limit is always on its way out, if the link table      *)
(* holds no more than one of them (MAX_BR_LINK_NUM is 2, max_legacy_        *)
(* multilink_devices 1 or 2) and the host never asks a device that is to    *)
(* leave for some of its profiles only.                                     *)
(***************************************************************************)
THEOREM OverLimitRepaired ==
    ASSUME Limited
    PROVE  Spec => []OverLimitLeaves
<1>1. Init => OverLimitLeaves
  BY MaxLinksAssumption DEF Init, NoLinks, OverLimitLeaves, Over
<1>2. TableInv /\ OverLimitLeaves /\ [Next]_vars => OverLimitLeaves'
  <2>1. TableInv /\ OverLimitLeaves /\ UNCHANGED vars => OverLimitLeaves'
    BY LeaverKept DEF vars, stack
  <2> QED
    BY <2>1, OverDevice, OverHost, OverStack DEF Next
<1> QED
  BY <1>1, <1>2, TableInductive, PTL DEF Spec

-----------------------------------------------------------------------------
(* Pairing mode: the functions of LinkbackPolicy that lead to it.           *)

(* A policy c that is in pairing mode although b was not needs room in l.   *)
PairsWithRoom(b, c, l) == b.state # "pairing" /\ c.state = "pairing" => ~Full(l)

(* A policy with no link has room.                                          *)
LEMMA EmptyIsNotFull ==
    ASSUME NEW l, l.num = 0
    PROVE  ~Full(l)
BY MaxLinksAssumption DEF Full

(* enter_state enters the state it is asked to.                             *)
LEMMA EnteredState ==
    ASSUME NEW b, NEW s, NEW r
    PROVE  EnterState(b, s, r).state = s
BY DEF EnterState

(* stable_sched enters pairing mode by itself only with no link.            *)
LEMMA StableNormalPairs ==
    ASSUME NEW b, NEW l, StableNormal(b, l).state = "pairing"
    PROVE  ~Full(l)
BY EmptyIsNotFull DEF StableNormal, StableEntry, EnterConnected, EnterState

(* linkback_run enters pairing mode only through stable_sched.              *)
LEMMA RunPairs ==
    ASSUME NEW b, NEW l
    PROVE  PairsWithRoom(b, LinkbackRun(b, l), l)
<1>1. ASSUME NEW c, c.state = b.state PROVE PairsWithRoom(b, TakeNext(c, l), l)
  BY <1>1, StableNormalPairs DEF TakeNext, PairsWithRoom
<1>2. CASE b.active.valid /\ HasWork(b.active, l)
  BY <1>2 DEF LinkbackRun, PairsWithRoom
<1>3. CASE b.active.valid /\ ~HasWork(b.active, l)
  <2> DEFINE c == [b EXCEPT !.active = Spent(@, l)]
  <2>1. c.state = b.state
    OBVIOUS
  <2>2. LinkbackRun(b, l) = TakeNext(c, l)
    BY <1>3 DEF LinkbackRun
  <2> QED
    BY <1>1, <2>1, <2>2 DEF PairsWithRoom
<1>4. CASE ~b.active.valid
  BY <1>1, <1>4 DEF LinkbackRun, PairsWithRoom
<1> QED
  BY <1>2, <1>3, <1>4

(* So does linkback_sched, which runs linkback or stable_sched.             *)
LEMMA SchedPairs ==
    ASSUME NEW b, NEW l
    PROVE  PairsWithRoom(b, LinkbackSched(b, l), l)
<1> DEFINE c == IF b.startupDone THEN b ELSE [b EXCEPT !.todo = BondQueue]
           e == EnterState(c, "linkback", "connectable")
<1>1. c.state = b.state
  OBVIOUS
<1>2. \/ LinkbackSched(b, l) = c
      \/ LinkbackSched(b, l) = LinkbackRun(e, l)
      \/ LinkbackSched(b, l) = StableNormal(c, l)
  BY DEF LinkbackSched
<1>3. e.state # "pairing" \/ e.state = c.state
  BY DEF EnterState
<1> HIDE DEF c, e
<1>4. b.state # "pairing" => e.state # "pairing"
  BY <1>1, <1>3
<1> QED
  BY <1>1, <1>2, <1>4, RunPairs, StableNormalPairs DEF PairsWithRoom

(* The linkback timeout goes on with linkback_run or stays where it is.     *)
LEMMA TimeoutPairs ==
    ASSUME NEW b, NEW l
    PROVE  PairsWithRoom(b, ConnTimeout(b, l), l)
<1> DEFINE t == [b EXCEPT !.timers = @ \ {"linkback"},
                          !.todo = IF b.active.valid /\ b.active.member
                                   THEN DeleteGroup(@) ELSE @]
<1>1. /\ t.state = b.state
      /\ [t EXCEPT !.active.valid = FALSE].state = b.state
      /\ [t EXCEPT !.active.plan = {}].state = b.state
  OBVIOUS
<1>2. \/ ConnTimeout(b, l) = LinkbackRun(t, l)
      \/ ConnTimeout(b, l) = t
      \/ ConnTimeout(b, l) = [t EXCEPT !.active.valid = FALSE]
      \/ ConnTimeout(b, l) = [t EXCEPT !.active.plan = {}]
  BY DEF ConnTimeout
<1> HIDE DEF t
<1> QED
  BY <1>1, <1>2, RunPairs DEF PairsWithRoom

(* A request to disconnect does not change the state.                       *)
LEMMA DisconnectPairs ==
    ASSUME NEW b, NEW a, NEW P
    PROVE  DedicatedDisconnect(b, a, P).state = b.state
BY DEF DedicatedDisconnect

(* With every place taken the preparation leaves the state as it is.        *)
LEMMA PreparePairs ==
    ASSUME NEW b, NEW sr, NEW cl, PreparePairing(b, sr, cl)
    PROVE  PairsWithRoom(b, bp', links)
<1>1. CASE ~Full(links)
  BY <1>1 DEF PairsWithRoom
<1>2. CASE Full(links)
  <2>1. CASE bp' = [b EXCEPT !.forced = FALSE]
    BY <2>1 DEF PairsWithRoom
  <2>2. ASSUME NEW v, bp' = [DedicatedDisconnect(b, v, Profs) EXCEPT !.forced = FALSE]
        PROVE  PairsWithRoom(b, bp', links)
    <3> DEFINE d == DedicatedDisconnect(b, v, Profs)
    <3>1. d.state = b.state
      BY DisconnectPairs
    <3> HIDE DEF d
    <3>2. bp'.state = d.state
      BY <2>2 DEF d
    <3> QED
      BY <3>1, <3>2 DEF PairsWithRoom
  <2> QED
    BY <1>2, <2>1, <2>2 DEF PreparePairing
<1> QED
  BY <1>1, <1>2

-----------------------------------------------------------------------------
(* Pairing mode: the actions. *)

PairingStep == PairsWithRoom(bp, bp', links)

(* Power, the shutdown steps and the timers.                                *)
LEMMA PairingDevice == Device => PairingStep
<1> SUFFICES ASSUME Device PROVE PairingStep
  OBVIOUS
<1>1. CASE PowerOn \/ Reboot
  <2>1. BootPolicy.state = "startup"
        /\ [BootPolicy EXCEPT !.state = "stop", !.timers = {"power_on"}].state = "stop"
    BY DEF BootPolicy
  <2>2. bp'.state # "pairing"
    BY <1>1, <2>1 DEF PowerOn, Reboot
  <2> QED
    BY <2>2 DEF PairingStep, PairsWithRoom
<1>2. CASE PowerOff
  <2>1. bp'.state # "pairing"
    <3>1. \E b : \/ bp' = EnterState(b, "shutdown", "idle")
                 \/ bp' = EnterState(b, "shutdown_step", "idle")
      BY <1>2 DEF PowerOff
    <3> QED
      BY <3>1, EnteredState
  <2> QED
    BY <2>1 DEF PairingStep, PairsWithRoom
<1>3. CASE StepTimeout
  <2>1. bp'.state = bp.state \/ bp'.state = "shutdown"
    <3>1. \/ bp' = bp
          \/ bp' = [bp EXCEPT !.timers = @ \ {"step"}]
          \/ \E b : bp' = EnterState(b, "shutdown", "idle")
      BY <1>3 DEF StepTimeout, StepIgnored, WaitForProfiles, CloseLinks, WaitForLinks
    <3>2. [bp EXCEPT !.timers = @ \ {"step"}].state = bp.state
      OBVIOUS
    <3>3. ASSUME NEW b, bp' = EnterState(b, "shutdown", "idle")
          PROVE  bp'.state = "shutdown"
      BY <3>3, EnteredState
    <3> QED
      BY <3>1, <3>2, <3>3
  <2> QED
    BY <2>1 DEF PairingStep, PairsWithRoom
<1>4. CASE PowerOnTimeout
  <2> DEFINE b == [bp EXCEPT !.timers = @ \ {"power_on"}, !.linkbackFlag = FALSE,
                             !.enterPairing = FALSE]
  <2>1. b.state = bp.state
    OBVIOUS
  <2>2. PreparePairing(b, search, closing) \/ bp' = LinkbackSched(b, links)
    BY <1>4 DEF PowerOnTimeout
  <2> HIDE DEF b
  <2>3. PairsWithRoom(b, bp', links)
    BY <2>2, PreparePairs, SchedPairs
  <2> QED
    BY <2>1, <2>3 DEF PairingStep, PairsWithRoom
<1>5. CASE LinkbackTimeout
  BY <1>5, TimeoutPairs DEF LinkbackTimeout, TimeoutNow, PairingStep
<1> QED
  BY <1>1, <1>2, <1>3, <1>4, <1>5 DEF Device

(* The commands.                                                            *)
LEMMA PairingHost == Host => PairingStep
<1> SUFFICES ASSUME Host PROVE PairingStep
  OBVIOUS
<1>1. CASE EnterPairing
  <2>1. ASSUME NEW force \in BOOLEAN, NEW b, NEW idle,
               b = [bp EXCEPT !.forced = force],
               idle = [b EXCEPT !.timers = @ \ {"linkback"}, !.todo = <<>>,
                                !.active = NoActive],
               \/ bp' = [b EXCEPT !.enterPairing = TRUE]
               \/ bp' = b
               \/ \E sr, cl : PreparePairing(idle, sr, cl)
               \/ \E sr, cl : PreparePairing(b, sr, cl)
        PROVE  PairingStep
    <3>1. b.state = bp.state /\ idle.state = b.state
      BY <2>1
    <3>2. CASE bp' = b \/ bp' = [b EXCEPT !.enterPairing = TRUE]
      <4>1. [b EXCEPT !.enterPairing = TRUE].state = b.state
        OBVIOUS
      <4> QED
        BY <3>1, <3>2, <4>1 DEF PairingStep, PairsWithRoom
    <3>3. CASE \E c, sr, cl : c \in {idle, b} /\ PreparePairing(c, sr, cl)
      BY <3>1, <3>3, PreparePairs DEF PairingStep, PairsWithRoom
    <3> QED
      BY <2>1, <3>2, <3>3
  <2> QED
    BY <1>1, <2>1 DEF EnterPairing
<1>2. CASE ExitPairing
  <2> DEFINE b == [bp EXCEPT !.enterPairing = FALSE]
  <2>1. b.state = bp.state
    OBVIOUS
  <2>2. bp' = b \/ bp' = StableNotPairing(b, links)
    BY <1>2 DEF ExitPairing
  <2> HIDE DEF b
  <2>3. StableNotPairing(b, links).state \in {"connected", "standby"}
    BY EnteredState DEF StableNotPairing, EnterConnected
  <2> QED
    BY <2>1, <2>2, <2>3 DEF PairingStep, PairsWithRoom
<1>3. CASE DisconnectAll
  BY <1>3 DEF DisconnectAll, PairingStep, PairsWithRoom
<1>4. ASSUME NEW a \in Addrs, NEW P \in Plans, CreateConnection(a, P) PROVE PairingStep
  <2> DEFINE b == [bp EXCEPT !.todo = InsertNormal(<<>>, a, P, FALSE)]
  <2>1. bp' = LinkbackRun(b, links)
    BY <1>4 DEF CreateConnection, RunAndSearch
  <2>2. b.state = bp.state
    OBVIOUS
  <2> HIDE DEF b
  <2> QED
    BY <2>1, <2>2, RunPairs DEF PairingStep, PairsWithRoom
<1>5. ASSUME NEW a \in Addrs, NEW P \in Plans, DefaultConnect(a, P) PROVE PairingStep
  <2>1. bp'.state = bp.state
    BY <1>5 DEF DefaultConnect, DedicatedConnect
  <2> QED
    BY <2>1 DEF PairingStep, PairsWithRoom
<1>6. ASSUME NEW a \in Addrs, NEW P \in Plans, Disconnect(a, P) PROVE PairingStep
  BY <1>6, DisconnectPairs DEF Disconnect, PairingStep, PairsWithRoom
<1> QED
  BY <1>1, <1>2, <1>3, <1>4, <1>5, <1>6 DEF Host

(* The events of the stack: most leave the policy as it is.                 *)
LEMMA PairingStack == StackEvent => PairingStep
<1> SUFFICES ASSUME StackEvent PROVE PairingStep
  OBVIOUS
<1>1. CASE bp' = bp
  BY <1>1 DEF PairingStep, PairsWithRoom
<1>2. ASSUME NEW a \in Addrs, AclConnSuccess(a) PROVE PairingStep
  BY <1>2, DisconnectPairs DEF AclConnSuccess, PairingStep, PairsWithRoom
<1>3. ASSUME NEW a \in Addrs, PageTimeout(a) PROVE PairingStep
  <2> DEFINE b == [bp EXCEPT !.todo = InsertNormal(<<>>, a, lastPlan, FALSE)]
  <2>1. bp' = LinkbackRun(b, links)
    BY <1>3 DEF PageTimeout, RunAndSearch
  <2>2. b.state = bp.state
    OBVIOUS
  <2> HIDE DEF b
  <2> QED
    BY <2>1, <2>2, RunPairs DEF PairingStep, PairsWithRoom
<1>4. ASSUME NEW a \in Addrs, AclAuthenSuccess(a) PROVE PairingStep
  <2>1. CASE bp' = StableAgain(bp, links)
    <3>1. bp'.state \in {"connected", "standby", bp.state}
      BY <2>1, EnteredState DEF StableAgain, EnterConnected
    <3> QED
      BY <3>1 DEF PairingStep, PairsWithRoom
  <2>2. CASE bp' = ConnTimeout(bp, links)
    BY <2>2, TimeoutPairs DEF PairingStep
  <2> QED
    BY <1>1, <1>4, <2>1, <2>2 DEF AclAuthenSuccess, TimeoutNow
<1>5. ASSUME NEW a \in Addrs, SdpAttrInfo(a) PROVE PairingStep
  BY <1>5 DEF SdpAttrInfo, PairingStep, PairsWithRoom
<1>6. ASSUME NEW a \in Addrs, SdpDiscovCmpl(a) PROVE PairingStep
  <2> DEFINE b == [bp EXCEPT !.active = StepFail(@)]
  <2>1. bp' = bp \/ bp' = LinkbackRun(b, links)
    BY <1>6 DEF SdpDiscovCmpl, RunAndSearch
  <2>2. b.state = bp.state
    OBVIOUS
  <2> HIDE DEF b
  <2> QED
    BY <1>1, <2>1, <2>2, RunPairs DEF PairingStep, PairsWithRoom
<1>7. ASSUME NEW a \in Addrs, NEW p \in Profs, ProfConnCmpl(a, p) PROVE PairingStep
  <2> DEFINE b == [bp EXCEPT !.active = StepSuc(@)]
  <2>1. bp' = bp \/ bp' = LinkbackRun(b, links')
    BY <1>7 DEF ProfConnCmpl, RunAndSearch
  <2>2. b.state = bp.state
    OBVIOUS
  <2> HIDE DEF b
  <2>3. links'.num = links.num
    BY <1>7 DEF ProfConnCmpl
  <2> QED
    BY <1>1, <2>1, <2>2, <2>3, RunPairs DEF PairingStep, PairsWithRoom, Full
<1> QED
  BY <1>1, <1>2, <1>3, <1>4, <1>5, <1>6, <1>7
     DEF StackEvent, AclConnInd, AclCancelled, AclConnDisconn, ProfConnFail, ProfDisconnCmpl

(***************************************************************************)
(* Whatever the order of timers, commands and events, pairing mode is       *)
(* entered only while a further device may connect.                         *)
(***************************************************************************)
THEOREM PairingHasRoom == Spec => PairingNeedsRoom
<1>1. [Next]_vars => [bp.state # "pairing" /\ bp'.state = "pairing" => ~Full(links)]_vars
  BY PairingDevice, PairingHost, PairingStack DEF Next, PairingStep, PairsWithRoom
<1> QED
  BY <1>1, PTL DEF Spec, PairingNeedsRoom

-----------------------------------------------------------------------------
(* Sets of numbers: the least one, and the number of those up to each.      *)

(* A set of numbers has a smallest one.                                     *)
LEMMA SmallestIn ==
    ASSUME NEW S \in SUBSET Nat, S # {}
    PROVE  \E n \in S : \A m \in S : n <= m
<1>1. PICK n \in S : \A m \in S : ~(<<m, n>> \in OpToRel(<, Nat))
  BY NatLessThanWellFounded, WFMin
<1>2. ASSUME NEW m \in S PROVE n <= m
  <2>1. m \in Nat /\ n \in Nat
    OBVIOUS
  <2>2. ~(m < n)
    BY <1>1, <2>1 DEF OpToRel
  <2> QED
    BY <2>1, <2>2
<1> QED
  BY <1>2

(* A set of positions is finite and no larger than the sequence.            *)
LEMMA Positions ==
    ASSUME NEW n \in Nat, NEW S \in SUBSET (1..n)
    PROVE  /\ IsFiniteSet(S) /\ Cardinality(S) \in Nat /\ Cardinality(S) <= n
           /\ S \in SUBSET Nat
<1>1. IsFiniteSet(1..n) /\ Cardinality(1..n) = n
  BY FS_Interval
<1>2. IsFiniteSet(S) /\ Cardinality(S) <= n
  BY <1>1, FS_Subset
<1>3. Cardinality(S) \in Nat
  BY <1>2, FS_CardinalityType
<1>4. S \in SUBSET Nat
  OBVIOUS
<1> QED
  BY <1>2, <1>3, <1>4

(* What is kept of a sequence gets a number from one to how many are kept.  *)
LEMMA PlaceType ==
    ASSUME NEW n \in Nat, NEW S \in SUBSET (1..n), NEW i \in S
    PROVE  Place(S, i) \in 1..Cardinality(S)
<1> DEFINE T == {j \in S : j <= i}
<1>1. IsFiniteSet(S) /\ Cardinality(S) \in Nat
  BY Positions
<1>2. T \in SUBSET S /\ i \in T
  OBVIOUS
<1>3. IsFiniteSet(T) /\ Cardinality(T) <= Cardinality(S)
  BY <1>1, <1>2, FS_Subset
<1>4. Cardinality(T) \in Nat /\ Cardinality(T) # 0
  BY <1>2, <1>3, FS_CardinalityType, FS_EmptySet
<1> QED
  BY <1>1, <1>3, <1>4 DEF Place

(* The kept positions are numbered in their order.                          *)
LEMMA PlaceLess ==
    ASSUME NEW n \in Nat, NEW S \in SUBSET (1..n), NEW i \in S, NEW j \in S,
           i < j
    PROVE  Place(S, i) < Place(S, j)
<1> DEFINE T == {l \in S : l <= i}
<1> DEFINE U == {l \in S : l <= j}
<1>1. T \in SUBSET U /\ U \in SUBSET S /\ j \in U /\ j \notin T
  <2>1. \A l \in S : l \in Nat /\ i \in Nat /\ j \in Nat
    OBVIOUS
  <2>2. \A l \in S : l <= i => l <= j
    BY <2>1
  <2>3. j <= j /\ ~(j <= i)
    BY <2>1
  <2> QED
    BY <2>2, <2>3, Zenon
<1>2. IsFiniteSet(U)
  BY <1>1, Positions, FS_Subset
<1>3. /\ Cardinality(T) <= Cardinality(U)
      /\ Cardinality(U) = Cardinality(T) => U = T
  BY <1>1, <1>2, FS_Subset
<1>4. Place(S, i) = Cardinality(T) /\ Place(S, j) = Cardinality(U)
  BY DEF Place
<1>5. Place(S, i) \in 1..Cardinality(S) /\ Place(S, j) \in 1..Cardinality(S)
  BY PlaceType
<1>6. Cardinality(S) \in Nat
  BY Positions
<1>7. U # T
  BY <1>1
<1> HIDE DEF T, U
<1> QED
  BY <1>3, <1>4, <1>5, <1>6, <1>7

(* No number is left out.                                                   *)
LEMMA PlaceOnto ==
    ASSUME NEW n \in Nat, NEW S \in SUBSET (1..n), NEW k \in 1..Cardinality(S)
    PROVE  \E i \in S : Place(S, i) = k
<1> DEFINE c == Cardinality(S)
<1> DEFINE f == [i \in S |-> Place(S, i)]
<1>1. c \in Nat /\ IsFiniteSet(S)
  BY Positions
<1>2. IsFiniteSet(1..c) /\ Cardinality(1..c) = c
  BY <1>1, FS_Interval
<1>3. f \in [S -> 1..c]
  BY PlaceType
<1>4. ASSUME NEW i \in S, NEW j \in S, Place(S, i) = Place(S, j)
      PROVE  i = j
  <2>1. i \in Nat /\ j \in Nat /\ Place(S, i) \in 1..c
    BY PlaceType
  <2>2. ~(Place(S, i) < Place(S, j)) /\ ~(Place(S, j) < Place(S, i))
    BY <1>1, <1>4, <2>1
  <2>3. ~(i < j)
    BY <2>2, PlaceLess
  <2>4. ~(j < i)
    BY <2>2, PlaceLess
  <2> QED
    BY <2>1, <2>3, <2>4
<1>5. f \in Injection(S, 1..c)
  BY <1>3, <1>4 DEF Injection, IsInjective
<1>6. f \in Surjection(S, 1..c)
  BY <1>2, <1>5, FS_Injection
<1> QED
  BY <1>6 DEF Surjection


-----------------------------------------------------------------------------
(***************************************************************************)
(* The types of the policy.  PolicyOK is what a handler is passed and       *)
(* leaves: besides the types, a queue no longer than its pool, and a device *)
(* for the active node to search as long as it is valid.                    *)
(***************************************************************************)
QueueOK(q) == q \in Seq(Node) /\ Len(q) <= NodeNum

ActiveOK(act) == act \in ActiveNode /\ (act.valid => act.addr \in Addrs)

PolicyOK(b) == b \in Policy /\ QueueOK(b.todo) /\ ActiveOK(b.active)

(* The operations of the queue. *)

(* linkback_todo_queue_insert_normal_node keeps the queue within its pool.  *)
LEMMA InsertNormalOK ==
    ASSUME NEW q, QueueOK(q), NEW a \in Addrs, NEW P \in SUBSET Profs, NEW m \in BOOLEAN
    PROVE  QueueOK(InsertNormal(q, a, P, m))
<1> DEFINE n == [addr |-> a, profs |-> P, force |-> FALSE, member |-> m]
           w == [i \in DOMAIN q |->
                    IF q[i].addr = a
                    THEN [q[i] EXCEPT !.profs = @ \cup P, !.member = FALSE]
                    ELSE q[i]]
<1>1. n \in Node /\ Len(q) \in Nat /\ DOMAIN q = 1..Len(q) /\ NodeNum \in Nat
  BY NodeNumAssumption DEF Node, QueueOK
<1>2. QueueOK(w)
  <2>1. \A i \in 1..Len(q) : w[i] \in Node
    <3> SUFFICES ASSUME NEW i \in 1..Len(q) PROVE w[i] \in Node
      OBVIOUS
    <3>1. q[i] \in Node
      BY DEF QueueOK
    <3>2. [q[i] EXCEPT !.profs = @ \cup P, !.member = FALSE] \in Node
      BY <3>1 DEF Node
    <3> QED
      BY <1>1, <3>1, <3>2
  <2>2. DOMAIN w = 1..Len(q)
    BY <1>1
  <2>3. w \in [1..Len(q) -> Node]
    BY <1>1, <2>1, <2>2
  <2> HIDE DEF w
  <2>4. w \in Seq(Node) /\ Len(w) = Len(q)
    BY <1>1, <2>2, <2>3
  <2> QED
    BY <2>4 DEF QueueOK
<1>3. ASSUME Len(q) < NodeNum PROVE QueueOK(Append(q, n))
  BY <1>1, <1>3 DEF QueueOK
<1> HIDE DEF n, w
<1>4. \/ InsertNormal(q, a, P, m) = q
      \/ InsertNormal(q, a, P, m) = w
      \/ Len(q) < NodeNum /\ InsertNormal(q, a, P, m) = Append(q, n)
  BY Zenon DEF InsertNormal, n, w
<1> QED
  BY <1>2, <1>3, <1>4

(* linkback_todo_queue_insert_force_node does, too.                         *)
LEMMA InsertForceOK ==
    ASSUME NEW q, QueueOK(q), NEW a \in Addrs, NEW P \in SUBSET Profs, NEW m \in BOOLEAN
    PROVE  QueueOK(InsertForce(q, a, P, m))
<1> DEFINE n == [addr |-> a, profs |-> P, force |-> TRUE, member |-> m]
           w == [i \in DOMAIN q |->
                    IF q[i].addr = a
                    THEN [q[i] EXCEPT !.profs = @ \cup P, !.force = TRUE,
                                      !.member = FALSE]
                    ELSE q[i]]
<1>1. n \in Node /\ Len(q) \in Nat /\ DOMAIN q = 1..Len(q) /\ NodeNum \in Nat
  BY NodeNumAssumption DEF Node, QueueOK
<1>2. QueueOK(w)
  <2>1. \A i \in 1..Len(q) : w[i] \in Node
    <3> SUFFICES ASSUME NEW i \in 1..Len(q) PROVE w[i] \in Node
      OBVIOUS
    <3>1. q[i] \in Node
      BY DEF QueueOK
    <3>2. [q[i] EXCEPT !.profs = @ \cup P, !.force = TRUE, !.member = FALSE] \in Node
      BY <3>1 DEF Node
    <3> QED
      BY <1>1, <3>1, <3>2
  <2>2. DOMAIN w = 1..Len(q)
    BY <1>1
  <2>3. w \in [1..Len(q) -> Node]
    BY <1>1, <2>1, <2>2
  <2> HIDE DEF w
  <2>4. w \in Seq(Node) /\ Len(w) = Len(q)
    BY <1>1, <2>2, <2>3
  <2> QED
    BY <2>4 DEF QueueOK
<1>3. ASSUME Len(q) < NodeNum PROVE QueueOK(<<n>> \o q)
  <2>1. q \in Seq(Node) /\ <<n>> \in Seq(Node) /\ Len(<<n>>) = 1
    BY <1>1 DEF QueueOK
  <2>2. <<n>> \o q \in Seq(Node) /\ Len(<<n>> \o q) = 1 + Len(q)
    BY <2>1, ConcatProperties
  <2> QED
    BY <1>1, <1>3, <2>2 DEF QueueOK
<1> HIDE DEF n, w
<1>4. \/ InsertForce(q, a, P, m) = q
      \/ InsertForce(q, a, P, m) = w
      \/ Len(q) < NodeNum /\ InsertForce(q, a, P, m) = <<n>> \o q
  BY Zenon DEF InsertForce, n, w
<1> QED
  BY <1>2, <1>3, <1>4

(* Taking profiles out of the queued nodes leaves as many nodes.            *)
LEMMA RemoveProfsOK ==
    ASSUME NEW q, QueueOK(q), NEW a, NEW P
    PROVE  QueueOK(RemoveProfs(q, a, P))
<1> DEFINE w == RemoveProfs(q, a, P)
<1>1. Len(q) \in Nat /\ DOMAIN q = 1..Len(q)
  BY DEF QueueOK
<1>2. \A i \in 1..Len(q) : w[i] \in Node
  <2> SUFFICES ASSUME NEW i \in 1..Len(q) PROVE w[i] \in Node
    OBVIOUS
  <2>1. q[i] \in Node
    BY DEF QueueOK
  <2>2. [q[i] EXCEPT !.profs = @ \ P] \in Node
    BY <2>1 DEF Node
  <2> QED
    BY <1>1, <2>1, <2>2 DEF RemoveProfs
<1>3. w = [i \in 1..Len(q) |-> w[i]]
  BY <1>1 DEF RemoveProfs
<1> HIDE DEF w
<1>4. w \in [1..Len(q) -> Node]
  BY <1>2, <1>3
<1>5. w \in Seq(Node) /\ Len(w) = Len(q)
  BY <1>1, <1>4
<1> QED
  BY <1>5 DEF QueueOK, w

(* linkback_todo_queue_delete_group_member leaves some of the nodes.        *)
LEMMA DeleteGroupOK ==
    ASSUME NEW q, QueueOK(q)
    PROVE  /\ QueueOK(DeleteGroup(q)) /\ Len(DeleteGroup(q)) <= Len(q)
           /\ \A k \in 1..Len(DeleteGroup(q)) : \E i \in 1..Len(q) : DeleteGroup(q)[k] = q[i]
<1> DEFINE kept == {i \in DOMAIN q : ~q[i].member}
           c == Cardinality(kept)
           w == [k \in 1..c |-> q[KthOf(kept, k)]]
<1>1. q \in Seq(Node) /\ Len(q) \in Nat /\ DOMAIN q = 1..Len(q) /\ Len(q) <= NodeNum
  BY DEF QueueOK
<1>2. kept \in SUBSET (1..Len(q))
  BY <1>1
<1> HIDE DEF kept
<1>3. c \in Nat /\ c <= Len(q)
  BY <1>1, <1>2, Positions
<1>4. \A k \in 1..c : w[k] \in Node /\ \E i \in 1..Len(q) : w[k] = q[i]
  <2> SUFFICES ASSUME NEW k \in 1..c
               PROVE  w[k] \in Node /\ \E i \in 1..Len(q) : w[k] = q[i]
    OBVIOUS
  <2>1. \E i \in kept : Place(kept, i) = k
    BY <1>1, <1>2, PlaceOnto
  <2>2. KthOf(kept, k) \in kept
    BY <2>1 DEF KthOf
  <2>3. KthOf(kept, k) \in 1..Len(q)
    BY <1>2, <2>2
  <2>4. q[KthOf(kept, k)] \in Node
    BY <1>1, <2>3, ElementOfSeq
  <2>5. w[k] = q[KthOf(kept, k)]
    OBVIOUS
  <2> QED
    BY <2>3, <2>4, <2>5
<1>5. DeleteGroup(q) = w
  BY DEF DeleteGroup, kept
<1>6. w = [k \in 1..c |-> w[k]]
  OBVIOUS
<1> HIDE DEF c, w
<1>7. w \in [1..c -> Node]
  BY <1>4, <1>6
<1>8. w \in Seq(Node) /\ Len(w) = c
  BY <1>3, <1>7
<1>9. QueueOK(w)
  BY <1>1, <1>3, <1>8, NodeNumAssumption DEF QueueOK
<1> QED
  BY <1>3, <1>4, <1>5, <1>8, <1>9

(* The queue that linkback_load_bond_list fills.                            *)
LEMMA BondQueueOK == QueueOK(BondQueue)
<1> DEFINE n == Len(Bonds)
<1>1. n \in Nat /\ n <= NodeNum /\ DOMAIN Bonds = 1..n
  BY BondsAssumption
<1>2. \A i \in 1..n : BondQueue[i] \in Node
  <2> SUFFICES ASSUME NEW i \in 1..n PROVE BondQueue[i] \in Node
    OBVIOUS
  <2>1. Bonds[i].addr \in Addrs /\ Bonds[i].profs \in SUBSET Profs
    <3>1. Bonds[i] \in [addr : Addrs, profs : SUBSET Profs]
      BY BondsAssumption, ElementOfSeq
    <3> QED
      BY <3>1
  <2>2. BondQueue[i] = [addr |-> Bonds[i].addr, profs |-> Bonds[i].profs,
                        force |-> FALSE, member |-> TRUE]
    BY <1>1 DEF BondQueue
  <2> QED
    BY <2>1, <2>2 DEF Node
<1>3. BondQueue = [i \in 1..n |-> BondQueue[i]]
  BY <1>1 DEF BondQueue
<1> HIDE DEF n
<1>4. BondQueue \in [1..n -> Node]
  BY <1>2, <1>3
<1>5. BondQueue \in Seq(Node) /\ Len(BondQueue) = n
  BY <1>1, <1>4
<1> QED
  BY <1>1, <1>5 DEF QueueOK

(* What a run leaves behind the node that it takes.                         *)
LEMMA RestOfQueueOK ==
    ASSUME NEW q, QueueOK(q), NEW k \in 0..Len(q), k < Len(q)
    PROVE  QueueOK(SubSeq(q, k + 2, Len(q))) /\ q[k + 1] \in Node
<1>1. q \in Seq(Node) /\ Len(q) \in Nat /\ Len(q) <= NodeNum /\ NodeNum \in Nat
  BY NodeNumAssumption DEF QueueOK
<1>2. \A i \in (k + 2)..Len(q) : q[i] \in Node
  BY <1>1
<1>3. SubSeq(q, k + 2, Len(q)) \in Seq(Node)
      /\ Len(SubSeq(q, k + 2, Len(q))) =
            IF k + 2 <= Len(q) THEN Len(q) - (k + 2) + 1 ELSE 0
  BY <1>1, <1>2, SubSeqProperties
<1> QED
  BY <1>1, <1>3 DEF QueueOK

-----------------------------------------------------------------------------
(* The active node. *)

(* The next profile of a node is one that is left, if any is.               *)
LEMMA FirstProfIn ==
    ASSUME NEW R \in SUBSET Profs
    PROVE  /\ FirstProf(R) \in Profs \cup {NoProf}
           /\ R # {} => FirstProf(R) \in R
           /\ R = {} => FirstProf(R) = NoProf
<1>1. CASE R = {}
  BY <1>1 DEF FirstProf
<1>2. CASE R # {}
  <2> DEFINE ranks == {Rank[p] : p \in R}
  <2>1. ranks \in SUBSET Nat /\ ranks # {}
    BY <1>2, RankAssumption
  <2>2. PICK n \in ranks : \A m \in ranks : n <= m
    BY <2>1, SmallestIn
  <2>3. PICK p \in R : Rank[p] = n
    BY <2>2
  <2>4. \A r \in R : Rank[p] <= Rank[r]
    BY <2>2, <2>3
  <2>5. FirstProf(R) \in R
    BY <1>2, <2>4 DEF FirstProf
  <2> QED
    BY <1>2, <2>5
<1> QED
  BY <1>1, <1>2

(* The cleared active node.                                                 *)
LEMMA NoActiveOK == ActiveOK(NoActive) /\ ~NoActive.valid
BY DEF NoActive, ActiveOK, ActiveNode

(* A queued node as the one in work.                                        *)
LEMMA LoadOK ==
    ASSUME NEW n \in Node
    PROVE  ActiveOK(Load(n))
<1>1. n.addr \in Addrs /\ n.profs \in SUBSET Profs /\ n.force \in BOOLEAN
      /\ n.member \in BOOLEAN
  BY DEF Node
<1>2. FirstProf(n.profs) \in Profs \cup {NoProf}
  BY <1>1, FirstProfIn
<1> QED
  BY <1>1, <1>2, NoActiveOK DEF Load, ActiveOK, ActiveNode

(* Only these fields of an active node are written by its steps.            *)
Stepped(act, R, d, n) ==
    [valid |-> act.valid, addr |-> act.addr, plan |-> act.plan, remain |-> R,
     doing |-> d, sdpOk |-> FALSE, retry |-> n, force |-> act.force,
     member |-> act.member]

(* Writing those fields keeps the others.                                   *)
LEMMA SteppedOK ==
    ASSUME NEW act, ActiveOK(act), NEW R \in SUBSET Profs,
           NEW d \in Profs \cup {NoProf}, NEW n \in 0..2
    PROVE  /\ ActiveOK(Stepped(act, R, d, n))
           /\ Stepped(act, R, d, n).valid = act.valid
           /\ Stepped(act, R, d, n).addr = act.addr
           /\ Stepped(act, R, d, n).force = act.force
           /\ Stepped(act, R, d, n).remain = R
BY DEF ActiveOK, ActiveNode, Stepped

(* linkback_active_node_step_suc_adjust_remain_profs keeps the types.       *)
LEMMA StepSucOK ==
    ASSUME NEW act, ActiveOK(act)
    PROVE  ActiveOK(StepSuc(act))
<1> DEFINE R == act.remain \ {act.doing}
<1>1. R \in SUBSET Profs
  BY DEF ActiveOK, ActiveNode
<1>2. FirstProf(R) \in Profs \cup {NoProf}
  BY <1>1, FirstProfIn
<1>3. ASSUME NEW S \in SUBSET Profs, NEW d \in Profs \cup {NoProf}
      PROVE  ActiveOK([act EXCEPT !.remain = S, !.doing = d, !.sdpOk = FALSE,
                                  !.retry = 0])
  <2> DEFINE x == [act EXCEPT !.remain = S, !.doing = d]
  <2>1. ActiveOK(x)
    BY DEF ActiveOK, ActiveNode
  <2>2. [act EXCEPT !.remain = S, !.doing = d, !.sdpOk = FALSE, !.retry = 0]
           = [x EXCEPT !.sdpOk = FALSE, !.retry = 0]
    BY DEF ActiveOK, ActiveNode
  <2> HIDE DEF x
  <2>3. \A n \in 0..2 : ActiveOK([x EXCEPT !.sdpOk = FALSE, !.retry = n])
    BY <2>1 DEF ActiveOK, ActiveNode
  <2>4. 0 \in 0..2
    OBVIOUS
  <2> QED
    BY <2>2, <2>3, <2>4
<1>4. StepSuc(act) = [act EXCEPT !.remain = R, !.doing = FirstProf(R),
                                 !.sdpOk = FALSE, !.retry = 0]
  BY Zenon DEF StepSuc
<1> HIDE DEF R
<1> QED
  BY <1>1, <1>2, <1>3, <1>4

(* linkback_active_node_step_fail_adjust_remain_profs keeps the types.      *)
LEMMA StepFailOK ==
    ASSUME NEW act, ActiveOK(act)
    PROVE  ActiveOK(StepFail(act))
<1> DEFINE gone == IF act.doing = NoProf THEN {}
                   ELSE {act.doing} \cup Related[act.doing]
           R == act.remain \ gone
<1>1. /\ act.remain \in SUBSET Profs /\ act.doing \in Profs \cup {NoProf}
      /\ act.retry \in 0..2
  BY DEF ActiveOK, ActiveNode
<1>2. R \in SUBSET Profs
  BY <1>1
<1>3. CASE act.retry < 2
  <2>1. StepFail(act) = Stepped(act, act.remain, act.doing, act.retry + 1)
    BY <1>3 DEF StepFail, Stepped, ActiveOK, ActiveNode
  <2>2. act.retry + 1 \in 0..2
    BY <1>1, <1>3
  <2> QED
    BY <1>1, <2>1, <2>2, SteppedOK
<1>4. CASE ~(act.retry < 2)
  <2>1. StepFail(act) = Stepped(act, R, FirstProf(R), 0)
    BY <1>4 DEF StepFail, Stepped, ActiveOK, ActiveNode
  <2>2. FirstProf(R) \in Profs \cup {NoProf}
    BY <1>2, FirstProfIn
  <2> HIDE DEF R
  <2> QED
    BY <1>2, <2>1, <2>2, SteppedOK
<1> QED
  BY <1>3, <1>4

(* Neither ends the work of the node nor changes whether it was forced.     *)
LEMMA StepKeeps ==
    ASSUME NEW act, ActiveOK(act)
    PROVE  /\ StepSuc(act).force = act.force /\ StepSuc(act).valid = act.valid
           /\ StepFail(act).force = act.force /\ StepFail(act).valid = act.valid
BY DEF StepSuc, StepFail, ActiveOK, ActiveNode

(* Passing over what is connected already changes the step of the node      *)
(* only, and nothing of a node without link.                                *)
LEMMA AdvancedOK ==
    ASSUME NEW act, ActiveOK(act), NEW l
    PROVE  /\ ActiveOK(Advanced(act, l))
           /\ Advanced(act, l).valid = act.valid
           /\ Advanced(act, l).addr = act.addr
           /\ Advanced(act, l).force = act.force
           /\ act.addr \notin l.on => Advanced(act, l) = act
<1> DEFINE R == act.remain \ {act.doing}
           p == FirstProf(R \ l.profs[act.addr])
           M == IF p = NoProf THEN {} ELSE {r \in R : Rank[r] >= Rank[p]}
           w == Stepped(act, M, p, 0)
<1>1. R \in SUBSET Profs
  BY DEF ActiveOK, ActiveNode
<1>2. R \ l.profs[act.addr] \in SUBSET Profs
  BY <1>1
<1>3. p \in Profs \cup {NoProf}
  BY <1>2, FirstProfIn
<1>4. M \in SUBSET Profs
  BY <1>1
<1>5. /\ Advanced(act, l) = act \/ Advanced(act, l) = w
      /\ act.addr \notin l.on => Advanced(act, l) = act
  BY DEF Advanced, Stepped, ActiveOK, ActiveNode
<1> HIDE DEF R, p, M
<1>6. /\ ActiveOK(w)
      /\ w.valid = act.valid /\ w.addr = act.addr /\ w.force = act.force
  BY <1>3, <1>4, SteppedOK
<1> QED
  BY <1>5, <1>6

(* A node that has nothing left is no longer in work.                       *)
LEMMA SpentOK ==
    ASSUME NEW act, ActiveOK(act), NEW l
    PROVE  ActiveOK(Spent(act, l)) /\ ~Spent(act, l).valid
<1>1. ASSUME NEW x, ActiveOK(x)
      PROVE  ActiveOK([x EXCEPT !.valid = FALSE]) /\ ~[x EXCEPT !.valid = FALSE].valid
  BY <1>1 DEF ActiveOK, ActiveNode
<1>2. ActiveOK(Advanced(act, l))
  BY AdvancedOK
<1> QED
  BY <1>1, <1>2 DEF Spent

-----------------------------------------------------------------------------
(* The policy: one field at a time. *)

(* Each field of the policy may be written by itself.                       *)
LEMMA FieldsOK ==
    ASSUME NEW b, PolicyOK(b)
    PROVE  /\ \A s \in States : PolicyOK([b EXCEPT !.state = s])
           /\ \A r \in Radios : PolicyOK([b EXCEPT !.radio = r])
           /\ \A q : QueueOK(q) => PolicyOK([b EXCEPT !.todo = q])
           /\ \A act : ActiveOK(act) => PolicyOK([b EXCEPT !.active = act])
           /\ \A t \in SUBSET Timers : PolicyOK([b EXCEPT !.timers = t])
           /\ \A x \in BOOLEAN : /\ PolicyOK([b EXCEPT !.startupDone = x])
                                 /\ PolicyOK([b EXCEPT !.linkbackFlag = x])
                                 /\ PolicyOK([b EXCEPT !.enterPairing = x])
                                 /\ PolicyOK([b EXCEPT !.forced = x])
<1>1. ASSUME NEW q, QueueOK(q) PROVE PolicyOK([b EXCEPT !.todo = q])
  BY <1>1 DEF PolicyOK, QueueOK, Policy
<1>2. ASSUME NEW act, ActiveOK(act) PROVE PolicyOK([b EXCEPT !.active = act])
  BY <1>2 DEF PolicyOK, ActiveOK, Policy
<1> QED
  BY <1>1, <1>2 DEF PolicyOK, Policy

(* What a policy record is made of. *)
LEMMA PolicyParts ==
    ASSUME NEW b, PolicyOK(b)
    PROVE  /\ b.state \in States /\ b.radio \in Radios /\ QueueOK(b.todo)
           /\ ActiveOK(b.active) /\ b.timers \in SUBSET Timers
           /\ b.startupDone \in BOOLEAN /\ b.linkbackFlag \in BOOLEAN
           /\ b.enterPairing \in BOOLEAN /\ b.forced \in BOOLEAN
           /\ Wanted(b) \in SUBSET Addrs
BY DEF PolicyOK, Policy, ActiveOK, Wanted

(* enter_state, and stable_sched in its modes.                              *)
LEMMA EnterOK ==
    ASSUME NEW b, PolicyOK(b), NEW s \in States, NEW r \in Radios
    PROVE  PolicyOK(EnterState(b, s, r)) /\ EnterState(b, s, r).active = b.active
<1> DEFINE x == IF s = "linkback" THEN "discoverable" ELSE r
           c == [b EXCEPT !.state = s]
<1>1. x \in Radios
  BY DEF Radios
<1>2. PolicyOK(c)
  BY FieldsOK
<1>3. EnterState(b, s, r) = [c EXCEPT !.radio = x]
  BY DEF EnterState
<1>4. EnterState(b, s, r).active = b.active
  BY DEF EnterState, PolicyOK, Policy
<1> HIDE DEF c, x
<1> QED
  BY <1>1, <1>2, <1>3, <1>4, FieldsOK

(* What every stable state does on entry keeps the node in work.            *)
LEMMA StableEntryOK ==
    ASSUME NEW b, PolicyOK(b)
    PROVE  /\ PolicyOK(StableEntry(b)) /\ StableEntry(b).active = b.active
           /\ StableEntry(b).linkbackFlag = b.linkbackFlag
<1> DEFINE t == b.timers \ {"linkback"}
           c == [b EXCEPT !.timers = t]
<1>1. t \in SUBSET Timers
  BY PolicyParts
<1>2. PolicyOK(c)
  BY <1>1, FieldsOK
<1>3. StableEntry(b) = [c EXCEPT !.startupDone = TRUE]
  BY DEF StableEntry
<1>4. StableEntry(b).active = b.active /\ StableEntry(b).linkbackFlag = b.linkbackFlag
  BY DEF StableEntry, PolicyOK, Policy
<1> HIDE DEF c, t
<1> QED
  BY <1>2, <1>3, <1>4, FieldsOK

(* So does entering CONNECTED.                                              *)
LEMMA ConnectedOK ==
    ASSUME NEW b, PolicyOK(b), NEW l
    PROVE  PolicyOK(EnterConnected(b, l)) /\ EnterConnected(b, l).active = b.active
<1>1. (IF Full(l) THEN "idle" ELSE "connectable") \in Radios /\ "connected" \in States
  BY DEF Radios, States, Stable
<1> QED
  BY <1>1, EnterOK DEF EnterConnected

(* So does each way of stable_sched.                                        *)
LEMMA StableModesOK ==
    ASSUME NEW b, PolicyOK(b), NEW l
    PROVE  /\ PolicyOK(StableNormal(b, l)) /\ StableNormal(b, l).active = b.active
           /\ PolicyOK(StableAgain(b, l)) /\ StableAgain(b, l).active = b.active
           /\ PolicyOK(StablePairing(b)) /\ StablePairing(b).active = b.active
           /\ PolicyOK(StableNotPairing(b, l)) /\ StableNotPairing(b, l).active = b.active
<1> DEFINE e == StableEntry(b)
<1>1. PolicyOK(e) /\ e.active = b.active
  BY StableEntryOK
<1>2. /\ "pairing" \in States /\ "standby" \in States
      /\ "connectable" \in Radios /\ "discoverable" \in Radios
  BY DEF States, Stable, Radios
<1>3. /\ PolicyOK(EnterConnected(e, l)) /\ EnterConnected(e, l).active = b.active
  BY <1>1, ConnectedOK
<1>4. /\ PolicyOK(EnterState(e, "standby", "connectable"))
      /\ EnterState(e, "standby", "connectable").active = b.active
  BY <1>1, <1>2, EnterOK
<1>5. /\ PolicyOK(EnterState(e, "pairing", "discoverable"))
      /\ EnterState(e, "pairing", "discoverable").active = b.active
  BY <1>1, <1>2, EnterOK
<1>6. ASSUME NEW s, PolicyOK(s), s.active = b.active
      PROVE  /\ PolicyOK([s EXCEPT !.linkbackFlag = FALSE])
             /\ [s EXCEPT !.linkbackFlag = FALSE].active = b.active
  <2>1. PolicyOK([s EXCEPT !.linkbackFlag = FALSE])
    BY <1>6, FieldsOK
  <2> QED
    BY <1>6, <2>1 DEF PolicyOK, Policy
<1>7. \E s : /\ StableNormal(b, l) = [s EXCEPT !.linkbackFlag = FALSE]
             /\ s \in {EnterConnected(e, l), EnterState(e, "standby", "connectable"),
                       EnterState(e, "pairing", "discoverable")}
  BY Zenon DEF StableNormal
<1>8. PolicyOK(StableNormal(b, l)) /\ StableNormal(b, l).active = b.active
  BY <1>3, <1>4, <1>5, <1>6, <1>7
<1>9. /\ StableAgain(b, l) \in {EnterConnected(e, l), EnterState(e, "standby", "connectable"),
                                EnterState(e, "pairing", "discoverable")}
      /\ StablePairing(b) = EnterState(e, "pairing", "discoverable")
      /\ StableNotPairing(b, l) \in {EnterConnected(e, l),
                                     EnterState(e, "standby", "connectable")}
  BY Zenon DEF StableAgain, StablePairing, StableNotPairing
<1> HIDE DEF e
<1> QED
  BY <1>3, <1>4, <1>5, <1>8, <1>9

(* What neither starts the timer of linkback_sched nor enters linkback.     *)
Later(b, c) ==
    /\ "power_on" \in c.timers => "power_on" \in b.timers
    /\ c.state = "linkback" => b.state = "linkback"

(* Entering a state other than LINKBACK.                                    *)
LEMMA EnteredLater ==
    ASSUME NEW b, PolicyOK(b), NEW s, NEW r, s # "linkback"
    PROVE  Later(b, EnterState(b, s, r))
BY DEF Later, EnterState, PolicyOK, Policy

(* The ways of stable_sched start no linkback.                              *)
LEMMA StableLater ==
    ASSUME NEW b, PolicyOK(b), NEW l
    PROVE  /\ Later(b, StableNormal(b, l)) /\ Later(b, StableAgain(b, l))
           /\ Later(b, StablePairing(b)) /\ Later(b, StableNotPairing(b, l))
<1> DEFINE e == StableEntry(b)
<1>1. PolicyOK(e) /\ Later(b, e)
  <2>1. PolicyOK(e)
    BY StableEntryOK
  <2>2. e.timers \subseteq b.timers /\ e.state = b.state
    BY DEF StableEntry, PolicyOK, Policy
  <2> QED
    BY <2>1, <2>2 DEF Later
<1> HIDE DEF e
<1>2. /\ Later(e, EnterState(e, "standby", "connectable"))
      /\ Later(e, EnterState(e, "pairing", "discoverable"))
      /\ Later(e, EnterConnected(e, l))
  BY <1>1, EnteredLater DEF EnterConnected
<1>3. ASSUME NEW s, Later(e, s)
      PROVE  Later(b, s) /\ Later(b, [s EXCEPT !.linkbackFlag = FALSE])
  <2>1. /\ [s EXCEPT !.linkbackFlag = FALSE].timers = s.timers
        /\ [s EXCEPT !.linkbackFlag = FALSE].state = s.state
    OBVIOUS
  <2> QED
    BY <1>1, <1>3, <2>1 DEF Later
<1>4. \E s : /\ StableNormal(b, l) = [s EXCEPT !.linkbackFlag = FALSE]
             /\ \/ s = EnterConnected(e, l)
                \/ s = EnterState(e, "standby", "connectable")
                \/ s = EnterState(e, "pairing", "discoverable")
  BY Zenon DEF StableNormal, e
<1>5. /\ \/ StableAgain(b, l) = EnterConnected(e, l)
         \/ StableAgain(b, l) = EnterState(e, "standby", "connectable")
         \/ StableAgain(b, l) = EnterState(e, "pairing", "discoverable")
      /\ StablePairing(b) = EnterState(e, "pairing", "discoverable")
      /\ \/ StableNotPairing(b, l) = EnterConnected(e, l)
         \/ StableNotPairing(b, l) = EnterState(e, "standby", "connectable")
  BY Zenon DEF StableAgain, StablePairing, StableNotPairing, e
<1> QED
  BY <1>2, <1>3, <1>4, <1>5

(***************************************************************************)
(* A node is in work, and the linkback timer on, in the LINKBACK state only. *)
(* As long as nobody forces a node into the queue, it holds bonds, each with *)
(* something to connect, or the one device whose page timed out (Planned),   *)
(* and in a stable state nothing.                                            *)
(***************************************************************************)
InWork(b) ==
    /\ b.active.valid => b.state = "linkback"
    /\ "linkback" \in b.timers => b.active.valid

Planned(q) ==
    \A i \in 1..Len(q) : ~q[i].force /\ (Len(q) > 1 => q[i].profs # {})

PlanOK(b) ==
    /\ b.state = "linkback" => Planned(b.todo) /\ (b.active.valid => ~b.active.force)
    /\ b.state \in Stable => b.todo = <<>>

(* stable_sched stops the linkback timer and touches no node.               *)
IdleAfter(b, c) ==
    /\ c.state \in Stable /\ c.todo = b.todo
    /\ "linkback" \notin c.timers /\ c.timers \subseteq b.timers

(* Entering a stable state.                                                 *)
LEMMA EnteredIdle ==
    ASSUME NEW b, PolicyOK(b), NEW s \in Stable, NEW r, "linkback" \notin b.timers
    PROVE  IdleAfter(b, EnterState(b, s, r))
<1>1. /\ EnterState(b, s, r).timers = b.timers
      /\ EnterState(b, s, r).todo = b.todo
      /\ EnterState(b, s, r).state = s
  BY DEF EnterState, PolicyOK, Policy
<1> QED
  BY <1>1 DEF IdleAfter

(* After stable_sched the linkback timer is off.                            *)
LEMMA StableIdle ==
    ASSUME NEW b, PolicyOK(b), NEW l
    PROVE  /\ IdleAfter(b, StableNormal(b, l)) /\ IdleAfter(b, StableAgain(b, l))
           /\ IdleAfter(b, StablePairing(b)) /\ IdleAfter(b, StableNotPairing(b, l))
<1> DEFINE e == StableEntry(b)
<1>1. /\ PolicyOK(e) /\ "linkback" \notin e.timers
      /\ e.timers \subseteq b.timers /\ e.todo = b.todo
  <2>1. PolicyOK(e)
    BY StableEntryOK
  <2>2. e.timers = b.timers \ {"linkback"} /\ e.todo = b.todo
    BY DEF StableEntry, PolicyOK, Policy
  <2> QED
    BY <2>1, <2>2
<1> HIDE DEF e
<1>2. /\ IdleAfter(e, EnterState(e, "standby", "connectable"))
      /\ IdleAfter(e, EnterState(e, "pairing", "discoverable"))
      /\ IdleAfter(e, EnterConnected(e, l))
  <2>1. {"standby", "pairing", "connected"} \subseteq Stable
    BY DEF Stable
  <2> QED
    BY <1>1, <2>1, EnteredIdle DEF EnterConnected
<1>3. ASSUME NEW s, IdleAfter(e, s)
      PROVE  IdleAfter(b, s) /\ IdleAfter(b, [s EXCEPT !.linkbackFlag = FALSE])
  <2>1. /\ [s EXCEPT !.linkbackFlag = FALSE].timers = s.timers
        /\ [s EXCEPT !.linkbackFlag = FALSE].state = s.state
        /\ [s EXCEPT !.linkbackFlag = FALSE].todo = s.todo
    OBVIOUS
  <2> QED
    BY <1>1, <1>3, <2>1 DEF IdleAfter
<1>4. \E s : /\ StableNormal(b, l) = [s EXCEPT !.linkbackFlag = FALSE]
             /\ \/ s = EnterConnected(e, l)
                \/ s = EnterState(e, "standby", "connectable")
                \/ s = EnterState(e, "pairing", "discoverable")
  BY Zenon DEF StableNormal, e
<1>5. /\ \/ StableAgain(b, l) = EnterConnected(e, l)
         \/ StableAgain(b, l) = EnterState(e, "standby", "connectable")
         \/ StableAgain(b, l) = EnterState(e, "pairing", "discoverable")
      /\ StablePairing(b) = EnterState(e, "pairing", "discoverable")
      /\ \/ StableNotPairing(b, l) = EnterConnected(e, l)
         \/ StableNotPairing(b, l) = EnterState(e, "standby", "connectable")
  BY Zenon DEF StableAgain, StablePairing, StableNotPairing, e
<1> QED
  BY <1>2, <1>3, <1>4, <1>5

(* No node is in work after it if none was before.                          *)
LEMMA IdleInWork ==
    ASSUME NEW b, NEW c, IdleAfter(b, c), ~c.active.valid
    PROVE  InWork(c) /\ (b.todo = <<>> => PlanOK(c)) /\ Wanted(c) = {}
BY DEF IdleAfter, InWork, PlanOK, Stable, Wanted

-----------------------------------------------------------------------------
(* linkback_run. *)

(* Its loop ends at the first node that is not skipped, or behind the last. *)
LEMMA SkipCountIs ==
    ASSUME NEW q, Len(q) \in Nat, NEW l
    PROVE  /\ SkipCount(q, l) \in 0..Len(q)
           /\ SkipCount(q, l) < Len(q) => ~Skipped(q[SkipCount(q, l) + 1], l)
<1> DEFINE S == {i \in 1..Len(q) : ~Skipped(q[i], l)}
           Stops(k) == /\ \A i \in 1..k : Skipped(q[i], l)
                       /\ k < Len(q) => ~Skipped(q[k + 1], l)
<1>1. \E k \in 0..Len(q) : Stops(k)
  <2>1. CASE S = {}
    <3>1. Len(q) \in 0..Len(q) /\ ~(Len(q) < Len(q))
      OBVIOUS
    <3>2. \A i \in 1..Len(q) : Skipped(q[i], l)
      BY <2>1
    <3> QED
      BY <3>1, <3>2
  <2>2. CASE S # {}
    <3>1. S \in SUBSET Nat
      OBVIOUS
    <3>2. PICK n \in S : \A m \in S : n <= m
      BY <2>2, <3>1, SmallestIn
    <3>3. n \in 1..Len(q) /\ ~Skipped(q[n], l)
      BY <3>2
    <3>4. \A i \in 1..(n - 1) : i \in 1..Len(q) /\ i \notin S
      BY <3>2, <3>3
    <3>5. \A i \in 1..(n - 1) : Skipped(q[i], l)
      BY <3>4
    <3>6. n - 1 \in 0..Len(q) /\ (n - 1) + 1 = n
      BY <3>3
    <3> HIDE DEF S
    <3>7. Stops(n - 1)
      BY <3>3, <3>5, <3>6
    <3> QED
      BY <3>6, <3>7
  <2> QED
    BY <2>1, <2>2
<1>2. SkipCount(q, l) = CHOOSE k \in 0..Len(q) : Stops(k)
  BY DEF SkipCount
<1>3. SkipCount(q, l) \in 0..Len(q) /\ Stops(SkipCount(q, l))
  BY <1>1, <1>2, Zenon
<1> QED
  BY <1>3

(* All that a run reads next to the node in work.                           *)
SameBut(b, c) == c.state = b.state /\ c.timers = b.timers /\ c.todo = b.todo

(* A run leaves a node in work that has something to do and, unless its     *)
(* device is connected, a place or the force to connect; or none at all.    *)
RunsOn(c, l) ==
    c.active.valid =>
       c.active.addr \in l.on \/ c.active.force \/ ~Full(l)

(* Taking the next node from the queue, or going to a stable state at its   *)
(* end.                                                                     *)
LEMMA TakeNextOK ==
    ASSUME NEW b, PolicyOK(b), ~b.active.valid, NEW l
    PROVE  /\ PolicyOK(TakeNext(b, l)) /\ RunsOn(TakeNext(b, l), l)
           /\ Later(b, TakeNext(b, l))
           /\ b.state = "linkback" => InWork(TakeNext(b, l))
           /\ b.state = "linkback" /\ Planned(b.todo) => PlanOK(TakeNext(b, l))
<1> DEFINE q == b.todo
           k == SkipCount(q, l)
<1>1. QueueOK(q) /\ ActiveOK(b.active) /\ Len(q) \in Nat
  BY PolicyParts DEF QueueOK
<1>2. /\ k \in 0..Len(q)
      /\ k < Len(q) => ~Skipped(q[k + 1], l)
  BY <1>1, SkipCountIs
<1> HIDE DEF k
<1>3. CASE k = Len(q)
  <2> DEFINE act == IF k = 0 THEN b.active ELSE Spent(Load(q[k]), l)
             t == [b EXCEPT !.todo = <<>>]
             c == [t EXCEPT !.active = act]
  <2>1. ActiveOK(act) /\ ~act.valid
    <3>1. CASE k = 0
      BY <1>1, <3>1
    <3>2. CASE k # 0
      <4>1. k \in 1..Len(q)
        BY <1>1, <1>3, <3>2
      <4>2. q[k] \in Node
        BY <1>1, <4>1, ElementOfSeq DEF QueueOK
      <4>3. ActiveOK(Spent(Load(q[k]), l)) /\ ~Spent(Load(q[k]), l).valid
        BY <4>2, LoadOK, SpentOK
      <4> QED
        BY <3>2, <4>3
    <3> QED
      BY <3>1, <3>2
  <2>2. QueueOK(<<>>)
    BY NodeNumAssumption DEF QueueOK
  <2>3. PolicyOK(t)
    BY <2>2, FieldsOK
  <2>4. TakeNext(b, l) = StableNormal(c, l)
    BY <1>3 DEF TakeNext, k
  <2> HIDE DEF act, t
  <2>5. PolicyOK(c)
    BY <2>1, <2>3, FieldsOK
  <2>6. c.active = act /\ c.todo = <<>> /\ Later(b, c)
    BY <2>3 DEF PolicyOK, Policy, t, Later
  <2> HIDE DEF c
  <2>7. /\ PolicyOK(TakeNext(b, l)) /\ ~TakeNext(b, l).active.valid
        /\ Later(b, TakeNext(b, l))
    BY <2>1, <2>4, <2>5, <2>6, StableModesOK, StableLater DEF Later
  <2>8. InWork(TakeNext(b, l)) /\ PlanOK(TakeNext(b, l))
    BY <2>4, <2>5, <2>6, <2>7, StableIdle, IdleInWork
  <2> QED
    BY <2>7, <2>8 DEF RunsOn
<1>4. CASE k < Len(q)
  <2> DEFINE n == q[k + 1]
             s == SubSeq(q, k + 2, Len(q))
             t == [b EXCEPT !.todo = s]
  <2>1. n \in Node /\ QueueOK(s)
    BY <1>1, <1>2, <1>4, RestOfQueueOK
  <2>2. ~Skipped(n, l)
    BY <1>2, <1>4
  <2>3. k # Len(q)
    BY <1>1, <1>2, <1>4
  <2>4. CASE n.profs = {}
    <3> DEFINE c == [t EXCEPT !.active = NoActive]
    <3>1. TakeNext(b, l) = StableNormal(c, l)
      BY <2>3, <2>4 DEF TakeNext, k
    <3> HIDE DEF s
    <3>2. PolicyOK(t)
      BY <2>1, FieldsOK
    <3> HIDE DEF t
    <3>3. PolicyOK(c)
      BY <3>2, NoActiveOK, FieldsOK
    <3>4. c.active = NoActive /\ Later(b, c)
      BY <3>2 DEF PolicyOK, Policy, Later, t
    <3> HIDE DEF c
    <3>5. /\ PolicyOK(TakeNext(b, l)) /\ ~TakeNext(b, l).active.valid
          /\ Later(b, TakeNext(b, l))
      BY <3>1, <3>3, <3>4, NoActiveOK, StableModesOK, StableLater DEF Later
    <3>6. InWork(TakeNext(b, l))
      BY <3>1, <3>3, <3>5, StableIdle, IdleInWork
    <3>7. Planned(q) => PlanOK(TakeNext(b, l))
      <4>1. ASSUME Planned(q) PROVE SubSeq(q, k + 2, Len(q)) = <<>>
        <5>4. k \in Nat /\ k + 1 \in 1..Len(q)
          BY <1>1, <1>2, <1>4
        <5>5. ~(Len(q) > 1)
          BY <2>4, <4>1, <5>4 DEF Planned
        <5>6. \A m, j \in Nat : j + 1 \in 1..m /\ ~(m > 1) => m = 1 /\ j = 0
          OBVIOUS
        <5>1. Len(q) = 1 /\ k = 0
          BY <5>4, <5>5, <5>6, <1>1, Zenon
        <5>2. Len(SubSeq(q, k + 2, Len(q))) = 0
          BY <1>1, <5>1 DEF QueueOK
        <5>3. SubSeq(q, k + 2, Len(q)) \in Seq(Node)
          BY <2>1 DEF QueueOK, s
        <5> QED
          BY <5>1, <5>2, <5>3, EmptySeq
      <4>2. c.todo = t.todo /\ t.todo = s
        BY <3>2 DEF PolicyOK, Policy, c, t
      <4> QED
        BY <3>1, <3>3, <3>5, <4>1, <4>2, StableIdle, IdleInWork DEF s
    <3> QED
      BY <3>5, <3>6, <3>7 DEF RunsOn
  <2>5. CASE n.profs # {}
    <3> DEFINE act == Advanced(Load(n), l)
               c == [t EXCEPT !.active = act]
               tm == c.timers \cup {"linkback"}
               d == [c EXCEPT !.timers = tm]
    <3>1. TakeNext(b, l) = [t EXCEPT !.active = act, !.timers = @ \cup {"linkback"},
                                     !.linkbackFlag = TRUE]
      BY <2>3, <2>5, Zenon DEF TakeNext, k
    <3>2. HasWork(Load(n), l)
      BY <2>2, <2>5 DEF Skipped
    <3>3. /\ ActiveOK(act) /\ act.addr = Load(n).addr /\ act.force = Load(n).force
          /\ act.valid = Load(n).valid
      BY <2>1, LoadOK, AdvancedOK
    <3>13. act.valid /\ act.force = n.force
      BY <2>5, <3>3 DEF Load
    <3>14. Planned(q) => ~act.force /\ Planned(s)
      <4>1. Planned(q) => ~n.force
        BY <1>1, <1>2, <1>4 DEF Planned
      <4>2. Planned(q) => Planned(s)
        BY <1>1, <1>2, <1>4 DEF Planned, QueueOK
      <4> QED
        BY <3>13, <4>1, <4>2
    <3>4. act.addr \in l.on \/ act.force \/ ~Full(l)
      BY <3>2, <3>3 DEF HasWork
    <3> HIDE DEF s, n
    <3>5. PolicyOK(t) /\ t.state = b.state /\ t.timers = b.timers /\ t.todo = s
      <4>1. PolicyOK(t)
        BY <2>1, FieldsOK
      <4> QED
        BY <4>1 DEF PolicyOK, Policy
    <3> HIDE DEF t, act
    <3>6. /\ PolicyOK(c) /\ c.active = act /\ c.timers = t.timers /\ c.state = t.state
          /\ c.todo = t.todo
      <4>1. PolicyOK(c)
        BY <3>3, <3>5, FieldsOK
      <4> QED
        BY <3>5, <4>1 DEF PolicyOK, Policy
    <3>7. TakeNext(b, l) = [d EXCEPT !.linkbackFlag = TRUE]
      BY <3>1, <3>5, <3>6 DEF PolicyOK, Policy
    <3>8. tm \in SUBSET Timers
      BY <3>6, PolicyParts DEF Timers
    <3> HIDE DEF c, tm
    <3>9. /\ PolicyOK(d) /\ d.active = act /\ d.timers = tm /\ d.state = c.state
          /\ d.todo = c.todo
      <4>1. PolicyOK(d)
        BY <3>6, <3>8, FieldsOK
      <4> QED
        BY <3>6, <4>1 DEF PolicyOK, Policy
    <3> HIDE DEF d
    <3>10. PolicyOK(TakeNext(b, l))
      BY <3>7, <3>9, FieldsOK
    <3>11. /\ TakeNext(b, l).active = act /\ TakeNext(b, l).timers = d.timers
           /\ TakeNext(b, l).state = d.state /\ TakeNext(b, l).todo = d.todo
      BY <3>7, <3>9 DEF PolicyOK, Policy
    <3>12. Later(b, TakeNext(b, l))
      BY <3>5, <3>6, <3>9, <3>11 DEF Later, tm
    <3>15. b.state = "linkback" => InWork(TakeNext(b, l))
      BY <3>5, <3>6, <3>9, <3>11, <3>13 DEF InWork
    <3>16. b.state = "linkback" /\ Planned(q) => PlanOK(TakeNext(b, l))
      BY <3>5, <3>6, <3>9, <3>11, <3>14 DEF PlanOK, Stable
    <3> QED
      BY <3>4, <3>10, <3>11, <3>12, <3>15, <3>16 DEF RunsOn
  <2> QED
    BY <2>4, <2>5
<1> QED
  BY <1>1, <1>2, <1>3, <1>4

(* linkback_run: what its callers need to know of it.                       *)
LEMMA RunOK ==
    ASSUME NEW b, PolicyOK(b), NEW l
    PROVE  /\ PolicyOK(LinkbackRun(b, l)) /\ RunsOn(LinkbackRun(b, l), l)
           /\ Later(b, LinkbackRun(b, l))
           /\ b.state = "linkback" => InWork(LinkbackRun(b, l))
           /\ b.state = "linkback" /\ PlanOK(b) => PlanOK(LinkbackRun(b, l))
<1>1. ActiveOK(b.active)
  BY PolicyParts
<1>2. CASE b.active.valid /\ HasWork(b.active, l)
  <2> DEFINE act == Advanced(b.active, l)
             c == [b EXCEPT !.active = act]
  <2>1. LinkbackRun(b, l) = [c EXCEPT !.linkbackFlag = TRUE]
    BY <1>2 DEF LinkbackRun
  <2>2. /\ ActiveOK(act) /\ act.addr = b.active.addr /\ act.force = b.active.force
        /\ act.valid = b.active.valid
    BY <1>1, AdvancedOK
  <2>3. act.addr \in l.on \/ act.force \/ ~Full(l)
    BY <1>2, <2>2 DEF HasWork
  <2> HIDE DEF act
  <2>4. PolicyOK(c) /\ c.active = act /\ Later(b, c) /\ SameBut(b, c)
    <3>1. PolicyOK(c)
      BY <2>2, FieldsOK
    <3> QED
      BY <3>1 DEF PolicyOK, Policy, Later, SameBut
  <2> HIDE DEF c
  <2>5. /\ PolicyOK(LinkbackRun(b, l)) /\ LinkbackRun(b, l).active = act
        /\ Later(b, LinkbackRun(b, l)) /\ SameBut(c, LinkbackRun(b, l))
    <3>1. PolicyOK(LinkbackRun(b, l))
      BY <2>1, <2>4, FieldsOK
    <3> QED
      BY <2>1, <2>4, <3>1 DEF PolicyOK, Policy, Later, SameBut
  <2>6. b.state = "linkback" => InWork(LinkbackRun(b, l))
    BY <1>2, <2>2, <2>4, <2>5 DEF SameBut, InWork
  <2>7. b.state = "linkback" /\ PlanOK(b) => PlanOK(LinkbackRun(b, l))
    BY <2>2, <2>4, <2>5 DEF SameBut, PlanOK, Stable
  <2> QED
    BY <2>3, <2>5, <2>6, <2>7 DEF RunsOn
<1>3. CASE b.active.valid /\ ~HasWork(b.active, l)
  <2> DEFINE act == Spent(b.active, l)
             c == [b EXCEPT !.active = act]
  <2>1. LinkbackRun(b, l) = TakeNext(c, l)
    BY <1>3 DEF LinkbackRun
  <2>2. ActiveOK(act) /\ ~act.valid
    BY <1>1, SpentOK
  <2> HIDE DEF act
  <2>3. PolicyOK(c)
    BY <2>2, FieldsOK
  <2>4. c.active = act /\ Later(b, c) /\ SameBut(b, c)
    BY DEF PolicyOK, Policy, Later, SameBut
  <2> HIDE DEF c
  <2>5. /\ PolicyOK(TakeNext(c, l)) /\ RunsOn(TakeNext(c, l), l)
        /\ Later(c, TakeNext(c, l))
        /\ c.state = "linkback" => InWork(TakeNext(c, l))
        /\ c.state = "linkback" /\ Planned(c.todo) => PlanOK(TakeNext(c, l))
    BY <2>2, <2>3, <2>4, TakeNextOK
  <2> QED
    BY <2>1, <2>4, <2>5 DEF SameBut, PlanOK, Later
<1>4. CASE ~b.active.valid
  BY <1>4, TakeNextOK DEF LinkbackRun, PlanOK
<1> QED
  BY <1>2, <1>3, <1>4

-----------------------------------------------------------------------------
(* linkback_sched, stop_all_active_action and the two dedicated requests.   *)

(* linkback_sched, the same.                                                *)
LEMMA SchedOK ==
    ASSUME NEW b, PolicyOK(b), NEW l
    PROVE  /\ PolicyOK(LinkbackSched(b, l))
           /\ b.state # "linkback" => /\ RunsOn(LinkbackSched(b, l), l)
                                      /\ InWork(LinkbackSched(b, l))
           /\ "power_on" \in LinkbackSched(b, l).timers => "power_on" \in b.timers
           /\ b.state # "linkback" /\ ~b.active.valid /\ b.todo = <<>> /\ Planned(BondQueue)
                => PlanOK(LinkbackSched(b, l))
<1> DEFINE c == IF b.startupDone THEN b ELSE [b EXCEPT !.todo = BondQueue]
           e == EnterState(c, "linkback", "connectable")
<1>1. PolicyOK(c) /\ c.state = b.state /\ c.active = b.active /\ c.timers = b.timers
  <2>1. PolicyOK([b EXCEPT !.todo = BondQueue])
    BY BondQueueOK, FieldsOK
  <2> QED
    BY <2>1 DEF PolicyOK, Policy
<1>6. c.todo = b.todo \/ c.todo = BondQueue
  <2>1. [b EXCEPT !.todo = BondQueue].todo = BondQueue
    BY DEF PolicyOK, Policy
  <2> QED
    BY <2>1
<1>2. \/ /\ c.state = "linkback" /\ LinkbackSched(b, l) = c
      \/ LinkbackSched(b, l) = LinkbackRun(e, l)
      \/ /\ ~c.active.valid /\ c.todo = <<>> /\ LinkbackSched(b, l) = StableNormal(c, l)
  BY Zenon DEF LinkbackSched
<1> HIDE DEF c
<1>3. /\ PolicyOK(e) /\ e.timers = c.timers /\ e.active = c.active
      /\ e.todo = c.todo /\ e.state = "linkback"
  <2>1. "linkback" \in States /\ "connectable" \in Radios
    BY DEF States, Radios
  <2>2. /\ e.timers = c.timers /\ e.active = c.active
        /\ e.todo = c.todo /\ e.state = "linkback"
    BY <1>1 DEF EnterState, PolicyOK, Policy
  <2> QED
    BY <1>1, <2>1, <2>2, EnterOK
<1> HIDE DEF e
<1>4. /\ PolicyOK(LinkbackRun(e, l)) /\ RunsOn(LinkbackRun(e, l), l)
      /\ Later(e, LinkbackRun(e, l)) /\ InWork(LinkbackRun(e, l))
      /\ PlanOK(e) => PlanOK(LinkbackRun(e, l))
  BY <1>3, RunOK
<1>5. /\ PolicyOK(StableNormal(c, l)) /\ StableNormal(c, l).active = c.active
      /\ Later(c, StableNormal(c, l)) /\ IdleAfter(c, StableNormal(c, l))
  BY <1>1, StableModesOK, StableLater, StableIdle
<1>7. ~c.active.valid => /\ InWork(StableNormal(c, l))
                         /\ c.todo = <<>> => PlanOK(StableNormal(c, l))
  BY <1>5, IdleInWork
<1>8. ~b.active.valid /\ b.todo = <<>> /\ Planned(BondQueue) => PlanOK(e)
  <2>1. Planned(<<>>)
    BY DEF Planned
  <2> QED
    BY <1>1, <1>3, <1>6, <2>1 DEF PlanOK, Stable
<1>9. PolicyOK(LinkbackSched(b, l))
  BY <1>1, <1>2, <1>4, <1>5
<1>10. b.state # "linkback" => /\ RunsOn(LinkbackSched(b, l), l)
                               /\ InWork(LinkbackSched(b, l))
  BY <1>1, <1>2, <1>4, <1>5, <1>7 DEF RunsOn
<1>11. "power_on" \in LinkbackSched(b, l).timers => "power_on" \in b.timers
  BY <1>1, <1>2, <1>3, <1>4, <1>5 DEF Later
<1>12. ASSUME b.state # "linkback", ~b.active.valid, b.todo = <<>>, Planned(BondQueue)
       PROVE  PlanOK(LinkbackSched(b, l))
  <2>1. PlanOK(LinkbackRun(e, l))
    BY <1>4, <1>8, <1>12
  <2>2. c.todo = <<>> => PlanOK(StableNormal(c, l))
    BY <1>1, <1>7, <1>12
  <2>3. LinkbackSched(b, l) = LinkbackRun(e, l)
        \/ (c.todo = <<>> /\ LinkbackSched(b, l) = StableNormal(c, l))
    BY <1>1, <1>2, <1>12
  <2> QED
    BY <2>1, <2>2, <2>3, Zenon
<1> QED
  BY <1>9, <1>10, <1>11, <1>12

(* A node that leaves the work is no longer valid, whatever becomes of it.  *)
LEMMA InvalidOK ==
    ASSUME NEW b, PolicyOK(b)
    PROVE  /\ PolicyOK([b EXCEPT !.active.valid = FALSE])
           /\ ~[b EXCEPT !.active.valid = FALSE].active.valid
<1> DEFINE act == [b.active EXCEPT !.valid = FALSE]
<1>1. ActiveOK(act) /\ ~act.valid
  BY PolicyParts DEF ActiveOK, ActiveNode
<1>2. [b EXCEPT !.active.valid = FALSE] = [b EXCEPT !.active = act]
  OBVIOUS
<1> HIDE DEF act
<1>3. [b EXCEPT !.active = act].active = act
  BY DEF PolicyOK, Policy
<1> QED
  BY <1>1, <1>2, <1>3, FieldsOK

(* Putting the node in work back into the queue, or its group out of it.    *)
LEMMA UseLeftOK ==
    ASSUME NEW b, PolicyOK(b), b.active.valid, NEW left \in BOOLEAN
    PROVE  PolicyOK(UseLeftTime(b, left))
<1> DEFINE act == b.active
           q == InsertForce(b.todo, act.addr, act.plan, act.member)
           r == DeleteGroup(b.todo)
<1>1. QueueOK(b.todo) /\ ActiveOK(act)
  BY PolicyParts
<1>2. act.addr \in Addrs /\ act.plan \in SUBSET Profs /\ act.member \in BOOLEAN
  BY <1>1 DEF ActiveOK, ActiveNode
<1>3. QueueOK(q) /\ QueueOK(r)
  BY <1>1, <1>2, InsertForceOK, DeleteGroupOK
<1>4. \/ UseLeftTime(b, left) = [b EXCEPT !.todo = q]
      \/ UseLeftTime(b, left) = [b EXCEPT !.todo = r]
      \/ UseLeftTime(b, left) = b
  BY DEF UseLeftTime
<1> HIDE DEF q, r
<1> QED
  BY <1>3, <1>4, FieldsOK

(* stop_all_active_action ends the work of the node.                        *)
LEMMA StopAllOK ==
    ASSUME NEW b, PolicyOK(b), NEW left \in BOOLEAN
    PROVE  PolicyOK(StopAll(b, left)) /\ ~StopAll(b, left).active.valid
<1> DEFINE t == b.timers \ {"linkback"}
           c == [b EXCEPT !.timers = t]
<1>1. t \in SUBSET Timers
  BY PolicyParts
<1> HIDE DEF t
<1>2. PolicyOK(c) /\ c.active = b.active
  <2>1. PolicyOK(c)
    BY <1>1, FieldsOK
  <2> QED
    BY <2>1 DEF PolicyOK, Policy
<1>3. CASE b.active.valid
  <2>1. StopAll(b, left) = [UseLeftTime(c, left) EXCEPT !.active.valid = FALSE]
    BY <1>3 DEF StopAll, t
  <2> HIDE DEF c
  <2>2. PolicyOK(UseLeftTime(c, left))
    BY <1>2, <1>3, UseLeftOK
  <2> QED
    BY <2>1, <2>2, InvalidOK
<1>4. CASE ~b.active.valid
  <2>1. StopAll(b, left) = c
    BY <1>4 DEF StopAll, t
  <2> HIDE DEF c
  <2> QED
    BY <1>2, <1>4, <2>1
<1> QED
  BY <1>3, <1>4

(* The node in work with other profiles to connect.                         *)
LEMMA ReplannedOK ==
    ASSUME NEW act, ActiveOK(act), NEW P \in SUBSET Profs
    PROVE  /\ ActiveOK([act EXCEPT !.plan = @ \cup P, !.remain = @ \cup P,
                                   !.member = FALSE])
           /\ ActiveOK([act EXCEPT !.plan = {}])
<1>1. act.plan \cup P \in SUBSET Profs /\ act.remain \cup P \in SUBSET Profs
  BY DEF ActiveOK, ActiveNode
<1> QED
  BY <1>1 DEF ActiveOK, ActiveNode

(* Taking profiles out of the plan of the node in work.                     *)
LEMMA UnplannedOK ==
    ASSUME NEW act, ActiveOK(act), NEW P
    PROVE  ActiveOK([act EXCEPT !.plan = @ \ P, !.remain = @ \ P])
<1>1. act.plan \ P \in SUBSET Profs /\ act.remain \ P \in SUBSET Profs
  BY DEF ActiveOK, ActiveNode
<1> QED
  BY <1>1 DEF ActiveOK, ActiveNode

(* A command to connect keeps the types.                                    *)
LEMMA ConnectOK ==
    ASSUME NEW b, PolicyOK(b), NEW a \in Addrs, NEW P \in SUBSET Profs
    PROVE  PolicyOK(DedicatedConnect(b, a, P))
<1>1. QueueOK(b.todo) /\ ActiveOK(b.active)
  BY PolicyParts
<1>2. CASE b.state = "linkback" /\ IsActive(b, a)
  <2> DEFINE act == [b.active EXCEPT !.plan = @ \cup P, !.remain = @ \cup P,
                                     !.member = FALSE]
             c == [b EXCEPT !.active = act]
             t == b.timers \cup {"linkback"}
  <2>1. DedicatedConnect(b, a, P) =
           [b EXCEPT !.active.plan = @ \cup P, !.active.remain = @ \cup P,
                     !.active.member = FALSE, !.timers = @ \cup {"linkback"}]
    BY <1>2, Zenon DEF DedicatedConnect
  <2>2. DedicatedConnect(b, a, P) = [c EXCEPT !.timers = t]
    BY <1>1, <2>1 DEF PolicyOK, Policy, ActiveOK, ActiveNode
  <2>3. ActiveOK(act)
    BY <1>1, ReplannedOK
  <2>4. t \in SUBSET Timers
    BY PolicyParts DEF Timers
  <2> HIDE DEF act
  <2>5. PolicyOK(c)
    BY <2>3, FieldsOK
  <2> HIDE DEF c, t
  <2> QED
    BY <2>2, <2>4, <2>5, FieldsOK
<1>3. CASE ~(b.state = "linkback" /\ IsActive(b, a))
  <2> DEFINE q == InsertForce(b.todo, a, P, FALSE)
  <2>1. QueueOK(q)
    BY <1>1, InsertForceOK
  <2>2. DedicatedConnect(b, a, P) = [b EXCEPT !.todo = q] \/ DedicatedConnect(b, a, P) = b
    BY <1>3 DEF DedicatedConnect
  <2> HIDE DEF q
  <2> QED
    BY <2>1, <2>2, FieldsOK
<1> QED
  BY <1>2, <1>3

(* A command to disconnect keeps the types.                                 *)
LEMMA DisconnectOK ==
    ASSUME NEW b, PolicyOK(b), NEW a, NEW P
    PROVE  PolicyOK(DedicatedDisconnect(b, a, P))
<1> DEFINE q == RemoveProfs(b.todo, a, P)
           c == [b EXCEPT !.todo = q]
<1>1. QueueOK(q) /\ ActiveOK(b.active)
  BY PolicyParts, RemoveProfsOK
<1> HIDE DEF q
<1>2. PolicyOK(c) /\ c.active = b.active
  <2>1. PolicyOK(c)
    BY <1>1, FieldsOK
  <2> QED
    BY <2>1 DEF PolicyOK, Policy
<1>3. CASE IsActive(b, a)
  <2> DEFINE act == [c.active EXCEPT !.plan = @ \ P, !.remain = @ \ P]
  <2>1. DedicatedDisconnect(b, a, P) =
           [c EXCEPT !.active.plan = @ \ P, !.active.remain = @ \ P]
    BY <1>3, Zenon DEF DedicatedDisconnect, q
  <2> HIDE DEF c
  <2>2. DedicatedDisconnect(b, a, P) = [c EXCEPT !.active = act]
    BY <1>1, <1>2, <2>1 DEF PolicyOK, Policy, ActiveOK, ActiveNode
  <2>3. ActiveOK(act)
    BY <1>1, <1>2, UnplannedOK
  <2> HIDE DEF act
  <2> QED
    BY <1>2, <2>2, <2>3, FieldsOK
<1>4. CASE ~IsActive(b, a)
  <2>1. DedicatedDisconnect(b, a, P) = c
    BY <1>4 DEF DedicatedDisconnect, q
  <2> HIDE DEF c
  <2> QED
    BY <1>2, <2>1
<1> QED
  BY <1>3, <1>4

(* Neither starts linkback.                                                 *)
LEMMA DedicatedLater ==
    ASSUME NEW b, PolicyOK(b), NEW a, NEW P
    PROVE  Later(b, DedicatedConnect(b, a, P)) /\ Later(b, DedicatedDisconnect(b, a, P))
<1>1. /\ DedicatedDisconnect(b, a, P).state = b.state
      /\ DedicatedDisconnect(b, a, P).timers = b.timers
  BY DEF DedicatedDisconnect
<1>2. /\ DedicatedConnect(b, a, P).state = b.state
      /\ DedicatedConnect(b, a, P).timers \subseteq b.timers \cup {"linkback"}
  BY DEF DedicatedConnect, PolicyOK, Policy
<1> QED
  BY <1>1, <1>2 DEF Later

(* EVENT_SRC_CONN_TIMEOUT keeps the types, and runs linkback.               *)
LEMMA TimeoutOK ==
    ASSUME NEW b, PolicyOK(b), NEW l
    PROVE  /\ PolicyOK(ConnTimeout(b, l))
           /\ b.state = "linkback" /\ ~b.active.valid => RunsOn(ConnTimeout(b, l), l)
           /\ Later(b, ConnTimeout(b, l))
<1> DEFINE tm == b.timers \ {"linkback"}
           q == IF b.active.valid /\ b.active.member THEN DeleteGroup(b.todo) ELSE b.todo
           c == [b EXCEPT !.timers = tm]
           t == [c EXCEPT !.todo = q]
<1>1. tm \in SUBSET Timers /\ QueueOK(q) /\ ActiveOK(b.active)
  BY PolicyParts, DeleteGroupOK
<1>2. [b EXCEPT !.timers = @ \ {"linkback"},
                !.todo = IF b.active.valid /\ b.active.member THEN DeleteGroup(@)
                         ELSE @] = t
  BY DEF PolicyOK, Policy
<1> HIDE DEF tm, q
<1>3. PolicyOK(t) /\ t.active = b.active /\ Later(b, t)
  <2>1. PolicyOK(c)
    BY <1>1, FieldsOK
  <2>2. c.timers = tm /\ c.state = b.state /\ c.active = b.active
    BY <2>1 DEF PolicyOK, Policy
  <2> HIDE DEF c
  <2>3. PolicyOK(t)
    BY <1>1, <2>1, FieldsOK
  <2>4. t.timers = tm /\ t.state = b.state /\ t.active = b.active
    BY <2>1, <2>2 DEF PolicyOK, Policy
  <2> QED
    BY <2>3, <2>4 DEF Later, tm
<1> HIDE DEF t
<1>4. \/ /\ b.state # "linkback"
         /\ ConnTimeout(b, l) = [t EXCEPT !.active.valid = FALSE]
      \/ /\ ~b.active.valid
         /\ ConnTimeout(b, l) = LinkbackRun(t, l)
      \/ /\ b.active.valid
         /\ ConnTimeout(b, l) = [t EXCEPT !.active.plan = {}]
      \/ /\ b.active.valid
         /\ ConnTimeout(b, l) = t
  BY <1>2, Zenon DEF ConnTimeout
<1>5. /\ PolicyOK([t EXCEPT !.active.valid = FALSE])
      /\ Later(t, [t EXCEPT !.active.valid = FALSE])
  <2>1. /\ [t EXCEPT !.active.valid = FALSE].timers = t.timers
        /\ [t EXCEPT !.active.valid = FALSE].state = t.state
    OBVIOUS
  <2>2. PolicyOK([t EXCEPT !.active.valid = FALSE])
    BY <1>3, InvalidOK
  <2> QED
    BY <2>1, <2>2 DEF Later
<1>6. /\ PolicyOK(LinkbackRun(t, l)) /\ RunsOn(LinkbackRun(t, l), l)
      /\ Later(t, LinkbackRun(t, l))
  BY <1>3, RunOK
<1>7. PolicyOK([t EXCEPT !.active.plan = {}])
  <2> DEFINE act == [t.active EXCEPT !.plan = {}]
  <2>1. ActiveOK(act)
    BY <1>1, <1>3, ReplannedOK
  <2>2. [t EXCEPT !.active.plan = {}] = [t EXCEPT !.active = act]
    OBVIOUS
  <2> HIDE DEF act
  <2> QED
    BY <1>3, <2>1, <2>2, FieldsOK
<1>8. Later(t, [t EXCEPT !.active.plan = {}])
  BY DEF Later
<1> QED
  BY <1>3, <1>4, <1>5, <1>6, <1>7, <1>8 DEF Later

-----------------------------------------------------------------------------
(***************************************************************************)
(* The types of the variables, one step per action.  The shutdown steps     *)
(* count up to their limits and start anew, so the counter stays below both *)
(* together; links and acl are TableInv's.                                  *)
(***************************************************************************)
StepOK(st) ==
    /\ st \in [at : Steps, cnt : Nat]
    /\ st.at = "none" => st.cnt = 0
    /\ st.at = "wait_prof" => st.cnt < ProfWaits
    /\ st.at = "start_link" => st.cnt <= ProfWaits
    /\ st.at = "wait_link" => st.cnt < LinkWaits

StackOK(cl, sr, cn, dc) ==
    /\ cl \in SUBSET Addrs
    /\ sr \in SUBSET Addrs
    /\ cn \in SUBSET (Addrs \X Profs)
    /\ dc \in SUBSET (Addrs \X Profs)

PolicyInv ==
    /\ device \in {"off", "on", "off_ing"}
    /\ PolicyOK(bp)
    /\ StepOK(step)
    /\ lastPlan \in SUBSET Profs
    /\ StackOK(closing, search, conns, discs)

(* What the handlers share. *)

(* A run with the search that it starts keeps the types.                    *)
LEMMA RunTypes ==
    ASSUME NEW b, PolicyOK(b), NEW l, NEW al, NEW sr \in SUBSET Addrs,
           RunAndSearch(b, l, al, sr)
    PROVE  PolicyOK(bp') /\ search' \in SUBSET Addrs
<1>1. PolicyOK(bp')
  BY RunOK DEF RunAndSearch
<1>2. Wanted(bp') \in SUBSET Addrs
  BY <1>1, PolicyParts
<1> QED
  BY <1>1, <1>2 DEF RunAndSearch

(* Asking a device to leave keeps the types.                                *)
LEMMA DropTypes ==
    ASSUME NEW l \in LinkTable, NEW a \in Addrs, NEW P, NEW cl \in SUBSET Addrs,
           discs \in SUBSET (Addrs \X Profs), DisconnectLink(l, a, P, cl)
    PROVE  closing' \in SUBSET Addrs /\ discs' \in SUBSET (Addrs \X Profs)
<1>1. ToDrop(l, a, P) \in SUBSET Profs
  BY DEF LinkTable, ToDrop
<1>2. {<<a, p>> : p \in ToDrop(l, a, P)} \in SUBSET (Addrs \X Profs)
  BY <1>1
<1> QED
  BY <1>2 DEF DisconnectLink

(* Preparing pairing mode keeps the types.                                  *)
LEMMA PrepareTypes ==
    ASSUME TableInv, PolicyInv, NEW b, PolicyOK(b), NEW sr \in SUBSET Addrs,
           NEW cl \in SUBSET Addrs, PreparePairing(b, sr, cl)
    PROVE  /\ PolicyOK(bp') /\ search' = sr
           /\ closing' \in SUBSET Addrs /\ discs' \in SUBSET (Addrs \X Profs)
<1>1. discs \in SUBSET (Addrs \X Profs) /\ links \in LinkTable
  BY DEF PolicyInv, StackOK, TableInv
<1>2. search' = sr
  BY DEF PreparePairing
<1>3. CASE /\ closing' = cl /\ UNCHANGED <<links, discs>>
           /\ \E c : PolicyOK(c) /\ bp' = [c EXCEPT !.forced = FALSE]
  BY <1>1, <1>2, <1>3, FieldsOK
<1>4. ASSUME NEW v \in links.on,
             bp' = [DedicatedDisconnect(b, v, Profs) EXCEPT !.forced = FALSE],
             DisconnectLink(links, v, Profs, cl)
      PROVE  /\ PolicyOK(bp') /\ closing' \in SUBSET Addrs
             /\ discs' \in SUBSET (Addrs \X Profs)
  <2>1. v \in Addrs
    BY <1>1 DEF LinkTable
  <2>2. PolicyOK(DedicatedDisconnect(b, v, Profs))
    BY DisconnectOK
  <2>3. PolicyOK(bp')
    BY <1>4, <2>2, FieldsOK
  <2> QED
    BY <1>1, <1>4, <2>1, <2>3, DropTypes
<1>5. PolicyOK(StablePairing(b))
  BY StableModesOK
<1> QED
  BY <1>2, <1>3, <1>4, <1>5 DEF PreparePairing

(* A page timeout keeps the types, stale or not.                            *)
LEMMA TimeoutTypes ==
    ASSUME PolicyInv, TimeoutNow
    PROVE  PolicyOK(bp') /\ closing' \in SUBSET Addrs /\ search' \in SUBSET Addrs
<1>1. PolicyOK(bp) /\ closing \in SUBSET Addrs /\ search \in SUBSET Addrs
  BY DEF PolicyInv, StackOK
<1>2. PolicyOK(bp')
  BY <1>1, TimeoutOK DEF TimeoutNow
<1>3. Wanted(bp') \in SUBSET Addrs /\ GivenUp(bp, links) \in SUBSET Addrs
  BY <1>1, <1>2, PolicyParts DEF GivenUp
<1>4. Closed(closing, GivenUp(bp, links)) \in SUBSET Addrs
  BY <1>1, <1>3 DEF Closed
<1> QED
  BY <1>1, <1>2, <1>3, <1>4 DEF TimeoutNow

(* The policy at power on.                                                  *)
LEMMA BootOK ==
    /\ PolicyOK(BootPolicy)
    /\ PolicyOK([BootPolicy EXCEPT !.state = "stop", !.timers = {"power_on"}])
<1>1. QueueOK(<<>>)
  BY NodeNumAssumption DEF QueueOK
<1>2. PolicyOK(BootPolicy)
  BY <1>1, NoActiveOK DEF PolicyOK, QueueOK, Policy, BootPolicy, States, Radios, ActiveOK
<1> DEFINE c == [BootPolicy EXCEPT !.state = "stop"]
<1>3. "stop" \in States /\ {"power_on"} \in SUBSET Timers
  BY DEF States, Timers
<1>4. PolicyOK(c)
  BY <1>2, <1>3, FieldsOK
<1>5. [BootPolicy EXCEPT !.state = "stop", !.timers = {"power_on"}]
         = [c EXCEPT !.timers = {"power_on"}]
  BY DEF BootPolicy
<1> HIDE DEF c
<1> QED
  BY <1>2, <1>3, <1>4, <1>5, FieldsOK

(* The types and addresses hold at the start.                               *)
LEMMA PolicyInit == Init => PolicyInv
BY BootOK DEF Init, PolicyInv, StepOK, StackOK, Steps

(* The steps of the device keep them.                                       *)
LEMMA PolicyDevice == TableInv /\ PolicyInv /\ Device => PolicyInv'
<1> SUFFICES ASSUME TableInv, PolicyInv, Device PROVE PolicyInv'
  OBVIOUS
<1>0. /\ PolicyOK(bp) /\ StepOK(step) /\ lastPlan \in SUBSET Profs
      /\ closing \in SUBSET Addrs /\ search \in SUBSET Addrs
      /\ conns \in SUBSET (Addrs \X Profs) /\ discs \in SUBSET (Addrs \X Profs)
      /\ links \in LinkTable /\ Wanted(bp) \in SUBSET Addrs
  BY PolicyParts DEF PolicyInv, StackOK, TableInv
<1>1. CASE PowerOn
  BY <1>0, <1>1, BootOK DEF PowerOn, PolicyInv, StackOK, stack
<1>2. CASE PowerOff
  <2>1. StepOK(step')
    BY <1>0, <1>2, WaitsAssumption DEF PowerOff, StepOK, Steps
  <2>2. PolicyOK(bp')
    <3> SUFFICES ASSUME NEW left \in BOOLEAN, NEW b, b = StopAll(bp, left),
                        bp' = IF links.num = 0 THEN EnterState(b, "shutdown", "idle")
                              ELSE EnterState([b EXCEPT !.timers = @ \cup {"step"}],
                                              "shutdown_step", "idle")
                 PROVE  PolicyOK(bp')
      BY <1>2 DEF PowerOff
    <3> DEFINE t == b.timers \cup {"step"}
               c == [b EXCEPT !.timers = t]
    <3>1. PolicyOK(b)
      BY <1>0, StopAllOK
    <3>2. t \in SUBSET Timers
      BY <3>1, PolicyParts DEF Timers
    <3>3. PolicyOK(c)
      BY <3>1, <3>2, FieldsOK
    <3>4. "shutdown" \in States /\ "shutdown_step" \in States /\ "idle" \in Radios
      BY DEF States, Radios
    <3>5. bp' = EnterState(b, "shutdown", "idle") \/ bp' = EnterState(c, "shutdown_step", "idle")
      OBVIOUS
    <3> HIDE DEF c
    <3> QED
      BY <3>1, <3>3, <3>4, <3>5, EnterOK
  <2>3. search' \in SUBSET Addrs
    BY <1>0, <1>2 DEF PowerOff, Stopped
  <2>4. closing' \in SUBSET Addrs
    BY <1>0, <1>2 DEF PowerOff, Closed, LinkTable
  <2>5. discs' \in SUBSET (Addrs \X Profs)
    BY <1>0, <1>2 DEF PowerOff, DropProfiles
  <2> QED
    BY <1>0, <1>2, <2>1, <2>2, <2>3, <2>4, <2>5 DEF PowerOff, PolicyInv, StackOK
<1>3. CASE StepTimeout
  <2> DEFINE t == bp.timers \ {"step"}
             c == [bp EXCEPT !.timers = t]
  <2>1. t \in SUBSET Timers
    BY <1>0, PolicyParts
  <2>2. PolicyOK(c)
    BY <1>0, <2>1, FieldsOK
  <2>3. "shutdown" \in States /\ "idle" \in Radios
    BY DEF States, Radios
  <2>4. bp' = bp \/ bp' = c \/ bp' = EnterState(c, "shutdown", "idle")
    BY <1>3 DEF StepTimeout, StepIgnored, WaitForProfiles, CloseLinks, WaitForLinks
  <2> HIDE DEF c
  <2>5. PolicyOK(bp')
    BY <1>0, <2>2, <2>3, <2>4, EnterOK
  <2>6. closing' \in SUBSET Addrs
    BY <1>0, <1>3 DEF StepTimeout, StepIgnored, WaitForProfiles, CloseLinks, WaitForLinks,
                      Closed, LinkTable
  <2>7. StepOK(step')
    <3>1. CASE step' = step
      BY <1>0, <3>1
    <3>2. CASE WaitForProfiles
      BY <1>0, <3>2, WaitsAssumption DEF WaitForProfiles, StepOK, Steps
    <3>3. CASE CloseLinks
      BY <1>0, <3>3, WaitsAssumption DEF CloseLinks, StepOK, Steps
    <3>4. CASE WaitForLinks
      BY <1>0, <3>4, WaitsAssumption DEF WaitForLinks, StepOK, Steps
    <3> QED
      BY <1>3, <3>1, <3>2, <3>3, <3>4 DEF StepTimeout, StepIgnored
  <2> QED
    BY <1>0, <1>3, <2>5, <2>6, <2>7 DEF StepTimeout, PolicyInv, StackOK
<1>4. CASE Reboot
  BY <1>4, BootOK DEF Reboot, PolicyInv, StepOK, StackOK, Steps
<1>5. CASE PowerOnTimeout
  <2> DEFINE t == bp.timers \ {"power_on"}
             c == [bp EXCEPT !.timers = t]
             d == [c EXCEPT !.linkbackFlag = FALSE]
             b == [d EXCEPT !.enterPairing = FALSE]
  <2>1. t \in SUBSET Timers
    BY <1>0, PolicyParts
  <2>2. PolicyOK(c)
    BY <1>0, <2>1, FieldsOK
  <2>3. [bp EXCEPT !.timers = @ \ {"power_on"}, !.linkbackFlag = FALSE,
                   !.enterPairing = FALSE] = b
    BY <1>0 DEF PolicyOK, Policy
  <2> HIDE DEF c
  <2>4. PolicyOK(d)
    BY <2>2, FieldsOK
  <2> HIDE DEF d
  <2>5. PolicyOK(b)
    BY <2>4, FieldsOK
  <2> HIDE DEF b
  <2>6. \/ PreparePairing(b, search, closing)
        \/ /\ bp' = LinkbackSched(b, links)
           /\ search' = search \cup Wanted(LinkbackSched(b, links))
           /\ UNCHANGED <<closing, discs>>
    BY <1>5, <2>3 DEF PowerOnTimeout
  <2>7. CASE PreparePairing(b, search, closing)
    BY <1>0, <1>5, <2>5, <2>7, PrepareTypes DEF PowerOnTimeout, PolicyInv, StackOK
  <2>8. CASE /\ bp' = LinkbackSched(b, links)
             /\ search' = search \cup Wanted(LinkbackSched(b, links))
             /\ UNCHANGED <<closing, discs>>
    <3>1. PolicyOK(LinkbackSched(b, links))
      BY <2>5, SchedOK
    <3>2. Wanted(LinkbackSched(b, links)) \in SUBSET Addrs
      BY <3>1, PolicyParts
    <3> QED
      BY <1>0, <1>5, <2>8, <3>1, <3>2 DEF PowerOnTimeout, PolicyInv, StackOK
  <2> QED
    BY <2>6, <2>7, <2>8
<1>6. CASE LinkbackTimeout
  BY <1>0, <1>6, TimeoutTypes DEF LinkbackTimeout, PolicyInv, StackOK
<1> QED
  BY <1>1, <1>2, <1>3, <1>4, <1>5, <1>6 DEF Device

(* The commands of the host keep them.                                      *)
LEMMA PolicyHost == TableInv /\ PolicyInv /\ Host => PolicyInv'
<1> SUFFICES ASSUME TableInv, PolicyInv, Host PROVE PolicyInv'
  OBVIOUS
<1>0. /\ PolicyOK(bp) /\ StepOK(step) /\ lastPlan \in SUBSET Profs
      /\ closing \in SUBSET Addrs /\ search \in SUBSET Addrs
      /\ conns \in SUBSET (Addrs \X Profs) /\ discs \in SUBSET (Addrs \X Profs)
      /\ links \in LinkTable /\ Wanted(bp) \in SUBSET Addrs
  BY PolicyParts DEF PolicyInv, StackOK, TableInv
<1>1. CASE EnterPairing
  <2>1. PICK force \in BOOLEAN :
           LET b == [bp EXCEPT !.forced = force]
               idle == [b EXCEPT !.timers = @ \ {"linkback"}, !.todo = <<>>,
                                 !.active = NoActive]
           IN  \/ /\ bp' = [b EXCEPT !.enterPairing = TRUE]
                  /\ UNCHANGED <<links, search, closing, discs>>
               \/ bp' = b /\ UNCHANGED <<links, search, closing, discs>>
               \/ PreparePairing(idle, Stopped(search), Closed(closing, Wanted(bp)))
               \/ PreparePairing(b, search, closing)
    BY <1>1, Zenon DEF EnterPairing
  <2> DEFINE b == [bp EXCEPT !.forced = force]
             t == b.timers \ {"linkback"}
             i1 == [b EXCEPT !.timers = t]
             i2 == [i1 EXCEPT !.todo = <<>>]
             i3 == [i2 EXCEPT !.active = NoActive]
  <2>2. PolicyOK(b)
    BY <1>0, FieldsOK
  <2> HIDE DEF b
  <2>3. PolicyOK([b EXCEPT !.enterPairing = TRUE])
    BY <2>2, FieldsOK
  <2>4. [b EXCEPT !.timers = @ \ {"linkback"}, !.todo = <<>>, !.active = NoActive] = i3
    BY <2>2 DEF PolicyOK, Policy
  <2>5. t \in SUBSET Timers /\ QueueOK(<<>>)
    BY <2>2, PolicyParts, NodeNumAssumption DEF QueueOK
  <2>6. PolicyOK(i1)
    BY <2>2, <2>5, FieldsOK
  <2> HIDE DEF i1
  <2>7. PolicyOK(i2)
    BY <2>5, <2>6, FieldsOK
  <2> HIDE DEF i2
  <2>8. PolicyOK(i3)
    BY <2>7, NoActiveOK, FieldsOK
  <2> HIDE DEF i3
  <2>9. Stopped(search) \in SUBSET Addrs /\ Closed(closing, Wanted(bp)) \in SUBSET Addrs
    BY <1>0 DEF Stopped, Closed
  <2>10. \/ /\ bp' = [b EXCEPT !.enterPairing = TRUE]
            /\ UNCHANGED <<links, search, closing, discs>>
         \/ bp' = b /\ UNCHANGED <<links, search, closing, discs>>
         \/ PreparePairing(i3, Stopped(search), Closed(closing, Wanted(bp)))
         \/ PreparePairing(b, search, closing)
    BY <2>1, <2>4, Zenon DEF b
  <2>11. /\ PolicyOK(bp') /\ closing' \in SUBSET Addrs /\ search' \in SUBSET Addrs
         /\ discs' \in SUBSET (Addrs \X Profs)
    <3>1. CASE PreparePairing(i3, Stopped(search), Closed(closing, Wanted(bp)))
      BY <2>8, <2>9, <3>1, PrepareTypes
    <3>2. CASE PreparePairing(b, search, closing)
      BY <1>0, <2>2, <3>2, PrepareTypes
    <3> QED
      BY <1>0, <2>2, <2>3, <2>10, <3>1, <3>2
  <2> QED
    BY <1>0, <1>1, <2>11 DEF EnterPairing, PolicyInv, StackOK
<1>2. CASE ExitPairing
  <2> DEFINE b == [bp EXCEPT !.enterPairing = FALSE]
  <2>1. PolicyOK(b)
    BY <1>0, FieldsOK
  <2>2. bp' = b \/ bp' = StableNotPairing(b, links)
    BY <1>2 DEF ExitPairing
  <2> HIDE DEF b
  <2>3. PolicyOK(bp')
    BY <2>1, <2>2, StableModesOK
  <2> QED
    BY <1>0, <1>2, <2>3 DEF ExitPairing, PolicyInv, StackOK, stack
<1>3. CASE DisconnectAll
  <2>1. closing' \in SUBSET Addrs
    BY <1>0, <1>3 DEF DisconnectAll, Closed, LinkTable
  <2> QED
    BY <1>0, <1>3, <2>1 DEF DisconnectAll, PolicyInv, StackOK
<1>4. ASSUME NEW a \in Addrs, NEW P \in Plans, CreateConnection(a, P) PROVE PolicyInv'
  <2> DEFINE q == InsertNormal(<<>>, a, P, FALSE)
             b == [bp EXCEPT !.todo = q]
  <2>1. P \in SUBSET Profs /\ QueueOK(<<>>)
    BY PlansAssumption, NodeNumAssumption DEF QueueOK
  <2>2. QueueOK(q)
    BY <2>1, InsertNormalOK
  <2> HIDE DEF q
  <2>3. PolicyOK(b)
    BY <1>0, <2>2, FieldsOK
  <2>4. RunAndSearch(b, links, acl, search)
    BY <1>4 DEF CreateConnection, q
  <2> HIDE DEF b
  <2>5. PolicyOK(bp') /\ search' \in SUBSET Addrs
    BY <1>0, <2>3, <2>4, RunTypes
  <2> QED
    BY <1>0, <1>4, <2>1, <2>5 DEF CreateConnection, PolicyInv, StackOK
<1>5. ASSUME NEW a \in Addrs, NEW P \in Plans, DefaultConnect(a, P) PROVE PolicyInv'
  <2>1. PolicyOK(bp')
    BY <1>0, <1>5, PlansAssumption, ConnectOK DEF DefaultConnect
  <2> QED
    BY <1>0, <1>5, <2>1 DEF DefaultConnect, PolicyInv, StackOK, stack
<1>6. ASSUME NEW a \in Addrs, NEW P \in Plans, Disconnect(a, P) PROVE PolicyInv'
  <2>1. PolicyOK(bp')
    BY <1>0, <1>6, DisconnectOK DEF Disconnect
  <2>2. closing' \in SUBSET Addrs /\ discs' \in SUBSET (Addrs \X Profs)
    BY <1>0, <1>6, DropTypes DEF Disconnect
  <2> QED
    BY <1>0, <1>6, <2>1, <2>2 DEF Disconnect, PolicyInv, StackOK
<1> QED
  BY <1>1, <1>2, <1>3, <1>4, <1>5, <1>6 DEF Host

(* The events of the stack keep them.                                       *)
LEMMA PolicyStack == TableInv /\ PolicyInv /\ StackEvent => PolicyInv'
<1> SUFFICES ASSUME TableInv, PolicyInv, StackEvent PROVE PolicyInv'
  OBVIOUS
<1>0. /\ PolicyOK(bp) /\ ActiveOK(bp.active) /\ StepOK(step) /\ lastPlan \in SUBSET Profs
      /\ closing \in SUBSET Addrs /\ search \in SUBSET Addrs
      /\ conns \in SUBSET (Addrs \X Profs) /\ discs \in SUBSET (Addrs \X Profs)
      /\ links \in LinkTable /\ Wanted(bp) \in SUBSET Addrs
  BY PolicyParts DEF PolicyInv, StackOK, TableInv
<1>1. ASSUME NEW a \in Addrs, AclConnInd(a) \/ AclCancelled(a) \/ AclConnDisconn(a)
      PROVE  PolicyInv'
  BY <1>0, <1>1 DEF AclConnInd, AclCancelled, AclConnDisconn, PolicyInv, StackOK
<1>2. ASSUME NEW a \in Addrs, AclConnSuccess(a) PROVE PolicyInv'
  <2>1. Added(a) \in LinkTable
    BY <1>2, AddedTable DEF AclConnSuccess
  <2>2. CASE UNCHANGED <<bp, closing, discs>>
    BY <1>0, <1>2, <2>2 DEF AclConnSuccess, PolicyInv, StackOK
  <2>3. ASSUME NEW v \in Added(a).on, bp' = DedicatedDisconnect(bp, v, Profs),
               DisconnectLink(Added(a), v, Profs, closing)
        PROVE  PolicyInv'
    <3>1. v \in Addrs
      BY <2>1 DEF LinkTable
    <3>2. PolicyOK(bp')
      BY <1>0, <2>3, DisconnectOK
    <3>3. closing' \in SUBSET Addrs /\ discs' \in SUBSET (Addrs \X Profs)
      BY <1>0, <2>1, <2>3, <3>1, DropTypes
    <3> QED
      BY <1>0, <1>2, <3>2, <3>3 DEF AclConnSuccess, PolicyInv, StackOK
  <2> QED
    BY <1>2, <2>2, <2>3 DEF AclConnSuccess
<1>3. ASSUME NEW a \in Addrs, PageTimeout(a) PROVE PolicyInv'
  <2> DEFINE q == InsertNormal(<<>>, a, lastPlan, FALSE)
             b == [bp EXCEPT !.todo = q]
  <2>1. QueueOK(<<>>)
    BY NodeNumAssumption DEF QueueOK
  <2>2. QueueOK(q)
    BY <1>0, <2>1, InsertNormalOK
  <2> HIDE DEF q
  <2>3. PolicyOK(b)
    BY <1>0, <2>2, FieldsOK
  <2>4. RunAndSearch(b, links, [acl EXCEPT ![a] = "down"], search \ {a})
    BY <1>3 DEF PageTimeout, q
  <2> HIDE DEF b
  <2>5. search \ {a} \in SUBSET Addrs
    BY <1>0
  <2>6. PolicyOK(bp') /\ search' \in SUBSET Addrs
    BY <2>3, <2>4, <2>5, RunTypes
  <2> QED
    BY <1>0, <1>3, <2>6 DEF PageTimeout, PolicyInv, StackOK
<1>4. ASSUME NEW a \in Addrs, AclAuthenSuccess(a) PROVE PolicyInv'
  <2>1. PolicyOK(bp') /\ closing' \in SUBSET Addrs /\ search' \in SUBSET Addrs
    BY <1>0, <1>4, StableModesOK, TimeoutTypes DEF AclAuthenSuccess
  <2> QED
    BY <1>0, <1>4, <2>1 DEF AclAuthenSuccess, PolicyInv, StackOK
<1>5. ASSUME NEW a \in Addrs, SdpAttrInfo(a) PROVE PolicyInv'
  <2> DEFINE act == [bp.active EXCEPT !.sdpOk = TRUE]
  <2>1. ActiveOK(act)
    BY <1>0 DEF ActiveOK, ActiveNode
  <2>2. bp' = [bp EXCEPT !.active = act]
    BY <1>5 DEF SdpAttrInfo
  <2> HIDE DEF act
  <2>3. PolicyOK(bp')
    BY <1>0, <2>1, <2>2, FieldsOK
  <2> QED
    BY <1>0, <1>5, <2>3 DEF SdpAttrInfo, PolicyInv, StackOK, stack
<1>6. ASSUME NEW a \in Addrs, SdpDiscovCmpl(a) PROVE PolicyInv'
  <2>1. CASE bp' = bp /\ search' = search \ {a} /\ conns' = conns
    BY <1>0, <1>6, <2>1 DEF SdpDiscovCmpl, PolicyInv, StackOK
  <2>2. CASE /\ bp' = bp /\ search' = search \ {a} /\ CanConnect
             /\ conns' = conns \cup {<<bp.active.addr, bp.active.doing>>}
    <3>1. <<bp.active.addr, bp.active.doing>> \in Addrs \X Profs
      BY <1>0, <2>2 DEF CanConnect, ActiveOK, ActiveNode
    <3> QED
      BY <1>0, <1>6, <2>2, <3>1 DEF SdpDiscovCmpl, PolicyInv, StackOK
  <2>3. CASE /\ RunAndSearch([bp EXCEPT !.active = StepFail(@)], links, acl, search \ {a})
             /\ conns' = conns
    <3> DEFINE act == StepFail(bp.active)
               b == [bp EXCEPT !.active = act]
    <3>1. ActiveOK(act)
      BY <1>0, StepFailOK
    <3>2. RunAndSearch(b, links, acl, search \ {a})
      BY <2>3
    <3> HIDE DEF act
    <3>3. PolicyOK(b)
      BY <1>0, <3>1, FieldsOK
    <3> HIDE DEF b
    <3>4. search \ {a} \in SUBSET Addrs
      BY <1>0
    <3>5. PolicyOK(bp') /\ search' \in SUBSET Addrs
      BY <3>2, <3>3, <3>4, RunTypes
    <3> QED
      BY <1>0, <1>6, <2>3, <3>5 DEF SdpDiscovCmpl, PolicyInv, StackOK
  <2> QED
    BY <1>6, <2>1, <2>2, <2>3 DEF SdpDiscovCmpl
<1>7. ASSUME NEW a \in Addrs, NEW p \in Profs, ProfConnCmpl(a, p) PROVE PolicyInv'
  <2>1. CASE UNCHANGED <<bp, search>>
    BY <1>0, <1>7, <2>1 DEF ProfConnCmpl, PolicyInv, StackOK
  <2>2. CASE RunAndSearch([bp EXCEPT !.active = StepSuc(@)], links', acl, search)
    <3> DEFINE act == StepSuc(bp.active)
               b == [bp EXCEPT !.active = act]
    <3>1. ActiveOK(act)
      BY <1>0, StepSucOK
    <3>2. RunAndSearch(b, links', acl, search)
      BY <2>2
    <3> HIDE DEF act
    <3>3. PolicyOK(b)
      BY <1>0, <3>1, FieldsOK
    <3> HIDE DEF b
    <3>4. PolicyOK(bp') /\ search' \in SUBSET Addrs
      BY <1>0, <3>2, <3>3, RunTypes
    <3> QED
      BY <1>0, <1>7, <3>4 DEF ProfConnCmpl, PolicyInv, StackOK
  <2> QED
    BY <1>7, <2>1, <2>2 DEF ProfConnCmpl
<1>8. ASSUME NEW a \in Addrs, NEW p \in Profs, ProfConnFail(a, p) \/ ProfDisconnCmpl(a, p)
      PROVE  PolicyInv'
  BY <1>0, <1>8 DEF ProfConnFail, ProfDisconnCmpl, PolicyInv, StackOK
<1> QED
  BY <1>1, <1>2, <1>3, <1>4, <1>5, <1>6, <1>7, <1>8 DEF StackEvent

(* Every variable keeps its type, and whoever is in work has an address.    *)
THEOREM PolicyInductive == Spec => [](TableInv /\ PolicyInv)
<1>1. Init => PolicyInv
  BY PolicyInit
<1>2. TableInv /\ PolicyInv /\ [Next]_vars => PolicyInv'
  <2>1. PolicyInv /\ UNCHANGED vars => PolicyInv'
    BY DEF PolicyInv, vars, stack
  <2> QED
    BY <2>1, PolicyDevice, PolicyHost, PolicyStack DEF Next
<1> QED
  BY <1>1, <1>2, TableInductive, PTL DEF Spec

(* The queue never outgrows its pool, the counters stay within their limits *)
(* and every variable has its type, whatever the host and the stack do.     *)
THEOREM PolicyTypes == Spec => []TypeOK
<1>1. TableInv /\ PolicyInv => TypeOK
  <2> SUFFICES ASSUME TableInv, PolicyInv PROVE TypeOK
    OBVIOUS
  <2>1. step \in [at : Steps, cnt : 0..ProfWaits + LinkWaits]
    BY WaitsAssumption DEF PolicyInv, StepOK, Steps
  <2> QED
    BY <2>1 DEF TableInv, AclStates, PolicyInv, StackOK, PolicyOK, QueueOK, TypeOK
<1> QED
  BY <1>1, PolicyInductive, PTL

-----------------------------------------------------------------------------
(***************************************************************************)
(* Pages and the limit.  A run of linkback leaves only a node to page that  *)
(* has a place or the force to connect (RunsOn).  linkback_sched alone goes *)
(* on with the node in work without a run, when the state is linkback; but  *)
(* its timer is started once, before linkback, and linkback is entered by   *)
(* its firing: SchedAhead.                                                  *)
(***************************************************************************)
SchedAhead == "power_on" \in bp.timers => bp.state # "linkback"

(* What holds of every step of the policy about the timer and the pages.    *)
PagedStep ==
    \A a \in Addrs :
       acl[a] = "down" /\ acl'[a] = "paging" => ~Full(links') \/ bp'.active.force

AheadStep == SchedAhead => SchedAhead'

(* Only Paged starts a page, and only of a device that is wanted.           *)
LEMMA PagesWanted ==
    ASSUME TableInv, PolicyOK(bp'), RunsOn(bp', links'),
           \A a \in Addrs : a \in links'.on => acl[a] = "up",
           NEW al \in [Addrs -> AclStates],
           \A a \in Addrs : acl[a] = "down" => al[a] = "down",
           acl' = Paged(al, Wanted(bp'))
    PROVE  PagedStep
<1> SUFFICES ASSUME NEW a \in Addrs, acl[a] = "down", acl'[a] = "paging"
             PROVE  ~Full(links') \/ bp'.active.force
  BY DEF PagedStep
<1>1. a \in Wanted(bp')
  BY DEF Paged
<1>2. bp'.active.valid /\ bp'.active.addr = a
  BY <1>1 DEF Wanted
<1>3. a \notin links'.on
  OBVIOUS
<1> QED
  BY <1>2, <1>3 DEF RunsOn

(* Linkback runs on a table whose devices have their ACL up.                *)
LEMMA RunPages ==
    ASSUME TableInv, NEW b, PolicyOK(b), Later(bp, b), NEW sr,
           NEW al \in [Addrs -> AclStates],
           \A a \in Addrs : acl[a] = "down" => al[a] = "down",
           links'.on = links.on, RunAndSearch(b, links', al, sr)
    PROVE  PagedStep /\ Later(bp, bp')
<1>1. /\ PolicyOK(bp') /\ RunsOn(bp', links') /\ Later(b, bp')
  BY RunOK DEF RunAndSearch
<1>2. \A a \in Addrs : a \in links'.on => acl[a] = "up"
  BY DEF TableInv, LinkTableInv
<1>3. PagedStep
  BY <1>1, <1>2, PagesWanted DEF RunAndSearch
<1> QED
  BY <1>1, <1>3 DEF Later

(* A step that starts no page.                                              *)
LEMMA NoPages ==
    ASSUME \A a \in Addrs : acl'[a] = "paging" => acl[a] # "down"
    PROVE  PagedStep
BY DEF PagedStep

(* Who starts no linkback leaves linkback_sched ahead.                      *)
LEMMA LaterAhead ==
    ASSUME Later(bp, bp')
    PROVE  AheadStep
BY DEF Later, AheadStep, SchedAhead

(* A page timeout pages within the limit.                                   *)
LEMMA TimeoutPages ==
    ASSUME TableInv, PolicyInv, TimeoutNow, links' = links
    PROVE  PagedStep /\ Later(bp, bp')
<1>1. PolicyOK(bp) /\ acl \in [Addrs -> AclStates]
  BY DEF PolicyInv, TableInv
<1>2. Later(bp, bp')
  BY <1>1, TimeoutOK DEF TimeoutNow
<1>3. CASE bp.state = "linkback" /\ ~bp.active.valid
  <2>1. PolicyOK(bp') /\ RunsOn(bp', links') /\ acl' = Paged(acl, Wanted(bp'))
    BY <1>1, <1>3, TimeoutOK DEF TimeoutNow
  <2>2. \A a \in Addrs : a \in links'.on => acl[a] = "up"
    BY DEF TableInv, LinkTableInv
  <2> QED
    BY <1>1, <1>2, <2>1, <2>2, PagesWanted
<1>4. CASE ~(bp.state = "linkback" /\ ~bp.active.valid)
  BY <1>2, <1>4, NoPages DEF TimeoutNow
<1> QED
  BY <1>3, <1>4

(* Preparing pairing mode starts no linkback.                               *)
LEMMA PrepareLater ==
    ASSUME NEW b, PolicyOK(b), Later(bp, b), NEW sr, NEW cl, PreparePairing(b, sr, cl)
    PROVE  Later(bp, bp')
<1>1. ASSUME NEW c, Later(b, c), bp' = [c EXCEPT !.forced = FALSE] PROVE Later(bp, bp')
  <2>1. bp'.timers = c.timers /\ bp'.state = c.state
    BY <1>1
  <2> QED
    BY <1>1, <2>1 DEF Later
<1>2. Later(b, StablePairing(b)) /\ Later(b, b)
  BY StableLater DEF Later
<1>3. \A v : Later(b, DedicatedDisconnect(b, v, Profs))
  BY DedicatedLater
<1> QED
  BY <1>1, <1>2, <1>3 DEF PreparePairing

(* The steps of the device page within the limit and keep the order.        *)
LEMMA PagesDevice == TableInv /\ PolicyInv /\ SchedAhead /\ Device => PagedStep /\ AheadStep
<1> SUFFICES ASSUME TableInv, PolicyInv, SchedAhead, Device PROVE PagedStep /\ AheadStep
  OBVIOUS
<1>0. PolicyOK(bp) /\ acl \in [Addrs -> AclStates]
  BY DEF PolicyInv, TableInv
<1>1. CASE PowerOn
  <2>1. bp'.state = "stop"
    BY <1>1 DEF PowerOn, BootPolicy
  <2> QED
    BY <1>1, <2>1, NoPages DEF PowerOn, AheadStep, SchedAhead, stack
<1>2. CASE PowerOff
  <2>1. bp'.state # "linkback"
    <3>1. \E b : \/ bp' = EnterState(b, "shutdown", "idle")
                 \/ bp' = EnterState(b, "shutdown_step", "idle")
      BY <1>2 DEF PowerOff
    <3> QED
      BY <3>1, EnteredState
  <2> QED
    BY <1>2, <2>1, NoPages DEF PowerOff, AheadStep, SchedAhead
<1>3. CASE StepTimeout
  <2>1. \/ bp' = bp
        \/ bp' = [bp EXCEPT !.timers = @ \ {"step"}]
        \/ \E b : bp' = EnterState(b, "shutdown", "idle")
    BY <1>3 DEF StepTimeout, StepIgnored, WaitForProfiles, CloseLinks, WaitForLinks
  <2>2. CASE bp' = bp \/ bp' = [bp EXCEPT !.timers = @ \ {"step"}]
    <3>1. bp'.state = bp.state /\ bp'.timers \subseteq bp.timers
      BY <1>0, <2>2 DEF PolicyOK, Policy
    <3> QED
      BY <1>3, <3>1, NoPages DEF StepTimeout, AheadStep, SchedAhead
  <2>3. CASE \E b : bp' = EnterState(b, "shutdown", "idle")
    <3>1. bp'.state = "shutdown"
      BY <2>3, EnteredState
    <3> QED
      BY <1>3, <3>1, NoPages DEF StepTimeout, AheadStep, SchedAhead
  <2> QED
    BY <2>1, <2>2, <2>3
<1>4. CASE Reboot
  <2>1. bp'.timers = {}
    BY <1>4 DEF Reboot, BootPolicy
  <2>2. \A a \in Addrs : acl'[a] # "paging"
    BY <1>4 DEF Reboot
  <2> QED
    BY <2>1, <2>2, NoPages DEF AheadStep, SchedAhead
<1>5. CASE PowerOnTimeout
  <2> DEFINE t == bp.timers \ {"power_on"}
             c == [bp EXCEPT !.timers = t]
             d == [c EXCEPT !.linkbackFlag = FALSE]
             b == [d EXCEPT !.enterPairing = FALSE]
  <2>1. t \in SUBSET Timers
    BY <1>0, PolicyParts
  <2>2. PolicyOK(c) /\ c.timers = t /\ c.state = bp.state
    <3>1. PolicyOK(c)
      BY <1>0, <2>1, FieldsOK
    <3> QED
      BY <1>0, <3>1 DEF PolicyOK, Policy
  <2>3. [bp EXCEPT !.timers = @ \ {"power_on"}, !.linkbackFlag = FALSE,
                   !.enterPairing = FALSE] = b
    BY <1>0 DEF PolicyOK, Policy
  <2> HIDE DEF c
  <2>4. PolicyOK(d) /\ d.timers = t /\ d.state = bp.state
    <3>1. PolicyOK(d)
      BY <2>2, FieldsOK
    <3>2. d.timers = t /\ d.state = bp.state
      BY <2>2
    <3> QED
      BY <3>1, <3>2
  <2> HIDE DEF d
  <2>5. PolicyOK(b) /\ b.timers = t /\ b.state = bp.state
    <3>1. PolicyOK(b)
      BY <2>4, FieldsOK
    <3>2. b.timers = t /\ b.state = bp.state
      BY <2>4
    <3> QED
      BY <3>1, <3>2
  <2> HIDE DEF b
  <2>6. "power_on" \in bp.timers /\ bp.state # "linkback"
    BY <1>5 DEF PowerOnTimeout, SchedAhead
  <2>7. \/ PreparePairing(b, search, closing) /\ UNCHANGED acl
        \/ /\ bp' = LinkbackSched(b, links)
           /\ acl' = Paged(acl, Wanted(LinkbackSched(b, links)))
           /\ links' = links
    BY <1>5, <2>3 DEF PowerOnTimeout
  <2>8. CASE PreparePairing(b, search, closing) /\ UNCHANGED acl
    <3>1. Later(bp, b)
      BY <2>5 DEF Later
    <3> QED
      BY <2>5, <2>8, <3>1, PrepareLater, LaterAhead, NoPages
  <2>9. CASE /\ bp' = LinkbackSched(b, links)
             /\ acl' = Paged(acl, Wanted(LinkbackSched(b, links)))
             /\ links' = links
    <3>1. /\ PolicyOK(bp') /\ RunsOn(bp', links')
          /\ "power_on" \notin bp'.timers
      BY <2>5, <2>6, <2>9, SchedOK DEF t
    <3>2. \A a \in Addrs : a \in links'.on => acl[a] = "up"
      BY <2>9 DEF TableInv, LinkTableInv
    <3>3. acl' = Paged(acl, Wanted(bp'))
      BY <2>9
    <3>4. PagedStep
      BY <1>0, <3>1, <3>2, <3>3, PagesWanted
    <3> QED
      BY <3>1, <3>4 DEF AheadStep, SchedAhead
  <2> QED
    BY <2>7, <2>8, <2>9
<1>6. CASE LinkbackTimeout
  BY <1>6, TimeoutPages, LaterAhead DEF LinkbackTimeout
<1> QED
  BY <1>1, <1>2, <1>3, <1>4, <1>5, <1>6 DEF Device

(* The commands of the host do, and start no linkback in a state other      *)
(* than their own.                                                          *)
LEMMA PagesHost == TableInv /\ PolicyInv /\ Host => PagedStep /\ Later(bp, bp')
<1> SUFFICES ASSUME TableInv, PolicyInv, Host PROVE PagedStep /\ Later(bp, bp')
  OBVIOUS
<1>0. PolicyOK(bp) /\ acl \in [Addrs -> AclStates]
  BY DEF PolicyInv, TableInv
<1>1. CASE EnterPairing
  <2>1. PagedStep
    BY <1>1, NoPages DEF EnterPairing
  <2>2. PICK force \in BOOLEAN :
           LET b == [bp EXCEPT !.forced = force]
               idle == [b EXCEPT !.timers = @ \ {"linkback"}, !.todo = <<>>,
                                 !.active = NoActive]
           IN  \/ bp' = [b EXCEPT !.enterPairing = TRUE]
               \/ bp' = b
               \/ PreparePairing(idle, Stopped(search), Closed(closing, Wanted(bp)))
               \/ PreparePairing(b, search, closing)
    BY <1>1, Zenon DEF EnterPairing
  <2> DEFINE b == [bp EXCEPT !.forced = force]
             t == b.timers \ {"linkback"}
             i1 == [b EXCEPT !.timers = t]
             i2 == [i1 EXCEPT !.todo = <<>>]
             i3 == [i2 EXCEPT !.active = NoActive]
  <2>3. PolicyOK(b) /\ b.timers = bp.timers /\ b.state = bp.state
    <3>1. PolicyOK(b)
      BY <1>0, FieldsOK
    <3>2. b.timers = bp.timers /\ b.state = bp.state
      BY <1>0
    <3> QED
      BY <3>1, <3>2
  <2> HIDE DEF b
  <2>4. [b EXCEPT !.timers = @ \ {"linkback"}, !.todo = <<>>, !.active = NoActive] = i3
    BY <2>3 DEF PolicyOK, Policy
  <2>5. t \in SUBSET Timers /\ QueueOK(<<>>)
    BY <2>3, PolicyParts, NodeNumAssumption DEF QueueOK
  <2>6. PolicyOK(i1) /\ i1.timers = t /\ i1.state = b.state
    <3>1. PolicyOK(i1)
      BY <2>3, <2>5, FieldsOK
    <3> QED
      BY <2>3, <3>1 DEF PolicyOK, Policy
  <2> HIDE DEF i1
  <2>7. PolicyOK(i2) /\ i2.timers = t /\ i2.state = b.state
    BY <2>5, <2>6, FieldsOK
  <2> HIDE DEF i2
  <2>8. PolicyOK(i3) /\ i3.timers = t /\ i3.state = b.state
    BY <2>7, NoActiveOK, FieldsOK
  <2> HIDE DEF i3
  <2>9. \/ bp' = [b EXCEPT !.enterPairing = TRUE]
        \/ bp' = b
        \/ PreparePairing(i3, Stopped(search), Closed(closing, Wanted(bp)))
        \/ PreparePairing(b, search, closing)
    BY <2>2, <2>4, Zenon DEF b
  <2>10. Later(bp, b) /\ Later(bp, i3)
    BY <2>3, <2>8 DEF Later, t
  <2>11. [b EXCEPT !.enterPairing = TRUE].timers = b.timers
         /\ [b EXCEPT !.enterPairing = TRUE].state = b.state
    OBVIOUS
  <2>12. Later(bp, [b EXCEPT !.enterPairing = TRUE])
    BY <2>10, <2>11 DEF Later
  <2>13. Later(bp, bp')
    <3>1. CASE PreparePairing(i3, Stopped(search), Closed(closing, Wanted(bp)))
      BY <2>8, <2>10, <3>1, PrepareLater
    <3>2. CASE PreparePairing(b, search, closing)
      BY <2>3, <2>10, <3>2, PrepareLater
    <3> QED
      BY <2>9, <2>10, <2>12, <3>1, <3>2
  <2> QED
    BY <2>1, <2>13
<1>2. CASE ExitPairing
  <2> DEFINE b == [bp EXCEPT !.enterPairing = FALSE]
  <2>1. PolicyOK(b) /\ b.timers = bp.timers /\ b.state = bp.state
    <3>1. PolicyOK(b)
      BY <1>0, FieldsOK
    <3>2. b.timers = bp.timers /\ b.state = bp.state
      BY <1>0
    <3> QED
      BY <3>1, <3>2
  <2>2. bp' = b \/ bp' = StableNotPairing(b, links)
    BY <1>2 DEF ExitPairing
  <2> HIDE DEF b
  <2>3. Later(bp, bp')
    BY <2>1, <2>2, StableLater DEF Later
  <2> QED
    BY <1>2, <2>3, NoPages DEF ExitPairing, stack
<1>3. CASE DisconnectAll
  BY <1>3, NoPages DEF DisconnectAll, Later
<1>4. ASSUME NEW a \in Addrs, NEW P \in Plans, CreateConnection(a, P)
      PROVE  PagedStep /\ Later(bp, bp')
  <2> DEFINE q == InsertNormal(<<>>, a, P, FALSE)
             b == [bp EXCEPT !.todo = q]
  <2>1. P \in SUBSET Profs /\ QueueOK(<<>>)
    BY PlansAssumption, NodeNumAssumption DEF QueueOK
  <2>2. QueueOK(q)
    BY <2>1, InsertNormalOK
  <2> HIDE DEF q
  <2>3. PolicyOK(b) /\ Later(bp, b)
    BY <1>0, <2>2, FieldsOK DEF Later
  <2>4. RunAndSearch(b, links, acl, search) /\ links' = links
    BY <1>4 DEF CreateConnection, q
  <2> HIDE DEF b
  <2> QED
    BY <1>0, <2>3, <2>4, RunPages
<1>5. ASSUME NEW a \in Addrs, NEW P \in Plans, DefaultConnect(a, P)
      PROVE  PagedStep /\ Later(bp, bp')
  BY <1>0, <1>5, DedicatedLater, NoPages DEF DefaultConnect, stack
<1>6. ASSUME NEW a \in Addrs, NEW P \in Plans, Disconnect(a, P)
      PROVE  PagedStep /\ Later(bp, bp')
  BY <1>0, <1>6, DedicatedLater, NoPages DEF Disconnect
<1> QED
  BY <1>1, <1>2, <1>3, <1>4, <1>5, <1>6 DEF Host

(* The events of the stack do, too.                                         *)
LEMMA PagesStack == TableInv /\ PolicyInv /\ StackEvent => PagedStep /\ Later(bp, bp')
<1> SUFFICES ASSUME TableInv, PolicyInv, StackEvent PROVE PagedStep /\ Later(bp, bp')
  OBVIOUS
<1>0. /\ PolicyOK(bp) /\ ActiveOK(bp.active) /\ acl \in [Addrs -> AclStates]
      /\ lastPlan \in SUBSET Profs /\ links \in LinkTable
  BY PolicyParts DEF PolicyInv, TableInv
<1>1. CASE bp' = bp /\ \A a \in Addrs : acl'[a] = "paging" => acl[a] # "down"
  BY <1>1, NoPages DEF Later
<1>2. ASSUME NEW a \in Addrs, AclConnInd(a) \/ AclCancelled(a) \/ AclConnDisconn(a)
      PROVE  PagedStep /\ Later(bp, bp')
  BY <1>0, <1>1, <1>2 DEF AclConnInd, AclCancelled, AclConnDisconn
<1>3. ASSUME NEW a \in Addrs, AclConnSuccess(a) PROVE PagedStep /\ Later(bp, bp')
  <2>1. \A c \in Addrs : acl'[c] = "paging" => acl[c] # "down"
    BY <1>0, <1>3 DEF AclConnSuccess
  <2>2. Later(bp, bp')
    BY <1>0, <1>3, DedicatedLater DEF AclConnSuccess, Later
  <2> QED
    BY <2>1, <2>2, NoPages
<1>4. ASSUME NEW a \in Addrs, PageTimeout(a) PROVE PagedStep /\ Later(bp, bp')
  <2> DEFINE q == InsertNormal(<<>>, a, lastPlan, FALSE)
             b == [bp EXCEPT !.todo = q]
             al == [acl EXCEPT ![a] = "down"]
  <2>1. QueueOK(<<>>)
    BY NodeNumAssumption DEF QueueOK
  <2>2. QueueOK(q)
    BY <1>0, <2>1, InsertNormalOK
  <2> HIDE DEF q
  <2>3. PolicyOK(b) /\ Later(bp, b)
    BY <1>0, <2>2, FieldsOK DEF Later
  <2>4. RunAndSearch(b, links, al, search \ {a}) /\ links' = links
    BY <1>4 DEF PageTimeout, q
  <2>5. al \in [Addrs -> AclStates] /\ \A c \in Addrs : acl[c] = "down" => al[c] = "down"
    BY <1>0 DEF AclStates
  <2> HIDE DEF b, al
  <2> QED
    BY <2>3, <2>4, <2>5, RunPages
<1>5. ASSUME NEW a \in Addrs, AclAuthenSuccess(a) PROVE PagedStep /\ Later(bp, bp')
  <2>1. CASE bp' = StableAgain(bp, links) /\ acl' = acl
    BY <1>0, <2>1, StableLater, NoPages
  <2>2. CASE TimeoutNow
    BY <1>5, <2>2, TimeoutPages DEF AclAuthenSuccess
  <2> QED
    BY <1>1, <1>5, <2>1, <2>2 DEF AclAuthenSuccess
<1>6. ASSUME NEW a \in Addrs, SdpAttrInfo(a) PROVE PagedStep /\ Later(bp, bp')
  <2>1. bp'.timers = bp.timers /\ bp'.state = bp.state
    BY <1>6 DEF SdpAttrInfo
  <2> QED
    BY <1>6, <2>1, NoPages DEF SdpAttrInfo, Later, stack
<1>7. ASSUME NEW a \in Addrs, SdpDiscovCmpl(a) PROVE PagedStep /\ Later(bp, bp')
  <2>1. CASE bp' = bp /\ acl' = acl
    BY <1>1, <2>1
  <2>2. CASE RunAndSearch([bp EXCEPT !.active = StepFail(@)], links, acl, search \ {a})
    <3> DEFINE act == StepFail(bp.active)
               b == [bp EXCEPT !.active = act]
    <3>1. ActiveOK(act)
      BY <1>0, StepFailOK
    <3>2. RunAndSearch(b, links, acl, search \ {a}) /\ links' = links
      BY <1>7, <2>2 DEF SdpDiscovCmpl
    <3> HIDE DEF act
    <3>3. PolicyOK(b) /\ Later(bp, b)
      BY <1>0, <3>1, FieldsOK DEF Later
    <3> HIDE DEF b
    <3> QED
      BY <1>0, <3>2, <3>3, RunPages
  <2> QED
    BY <1>7, <2>1, <2>2 DEF SdpDiscovCmpl
<1>8. ASSUME NEW a \in Addrs, NEW p \in Profs, ProfConnCmpl(a, p)
      PROVE  PagedStep /\ Later(bp, bp')
  <2>1. CASE bp' = bp /\ acl' = acl
    BY <1>1, <2>1
  <2>2. CASE RunAndSearch([bp EXCEPT !.active = StepSuc(@)], links', acl, search)
    <3> DEFINE act == StepSuc(bp.active)
               b == [bp EXCEPT !.active = act]
    <3>1. ActiveOK(act)
      BY <1>0, StepSucOK
    <3>2. RunAndSearch(b, links', acl, search)
      BY <2>2
    <3>3. links'.on = links.on
      BY <1>0, <1>8 DEF ProfConnCmpl, LinkTable
    <3> HIDE DEF act
    <3>4. PolicyOK(b) /\ Later(bp, b)
      BY <1>0, <3>1, FieldsOK DEF Later
    <3> HIDE DEF b
    <3> QED
      BY <1>0, <3>2, <3>3, <3>4, RunPages
  <2> QED
    BY <1>8, <2>1, <2>2 DEF ProfConnCmpl
<1>9. ASSUME NEW a \in Addrs, NEW p \in Profs, ProfConnFail(a, p) \/ ProfDisconnCmpl(a, p)
      PROVE  PagedStep /\ Later(bp, bp')
  BY <1>1, <1>9 DEF ProfConnFail, ProfDisconnCmpl
<1> QED
  BY <1>2, <1>3, <1>4, <1>5, <1>6, <1>7, <1>8, <1>9 DEF StackEvent

(* linkback_sched runs before linkback, never during it.                    *)
THEOREM SchedOnce == Spec => []SchedAhead
<1>1. Init => SchedAhead
  BY DEF Init, BootPolicy, SchedAhead
<1>2. TableInv /\ PolicyInv /\ SchedAhead /\ [Next]_vars => SchedAhead'
  <2>1. SchedAhead /\ UNCHANGED vars => SchedAhead'
    BY DEF SchedAhead, vars
  <2> QED
    BY <2>1, PagesDevice, PagesHost, PagesStack, LaterAhead DEF Next, AheadStep
<1> QED
  BY <1>1, <1>2, PolicyInductive, PTL DEF Spec

(***************************************************************************)
(* Page timeouts, failures and commands run linkback in any state, and      *)
(* still no device is paged without a place for it unless the host forced   *)
(* its node into the queue.                                                 *)
(***************************************************************************)
THEOREM PagesWithinLimit == Spec => PagesRespectLimit
<1>1. TableInv /\ PolicyInv /\ SchedAhead /\ [Next]_vars =>
         [\A a \in Addrs :
             acl[a] = "down" /\ acl'[a] = "paging"
                => ~Full(links') \/ bp'.active.force]_vars
  BY PagesDevice, PagesHost, PagesStack DEF Next, PagedStep
<1> QED
  BY <1>1, PolicyInductive, SchedOnce, PTL DEF Spec, PagesRespectLimit

-----------------------------------------------------------------------------
(* Where the policy can go. *)

Working == {"linkback", "pairing", "connected", "standby"}
GoesToWork(b, c) == c.state = b.state \/ c.state \in Working

(* The end of linkback leads to a state of an active headset.               *)
LEMMA NormalWorks ==
    ASSUME NEW b, NEW l
    PROVE  StableNormal(b, l).state \in Working
BY DEF StableNormal, StableEntry, EnterConnected, EnterState, Working

(* So does a run.                                                           *)
LEMMA RunWorks ==
    ASSUME NEW b, NEW l
    PROVE  GoesToWork(b, LinkbackRun(b, l))
<1>1. ASSUME NEW c, c.state = b.state PROVE GoesToWork(b, TakeNext(c, l))
  BY <1>1, NormalWorks DEF TakeNext, GoesToWork
<1>2. CASE b.active.valid /\ HasWork(b.active, l)
  BY <1>2 DEF LinkbackRun, GoesToWork
<1>3. CASE b.active.valid /\ ~HasWork(b.active, l)
  <2> DEFINE c == [b EXCEPT !.active = Spent(@, l)]
  <2>1. c.state = b.state
    OBVIOUS
  <2>2. LinkbackRun(b, l) = TakeNext(c, l)
    BY <1>3 DEF LinkbackRun
  <2> QED
    BY <1>1, <2>1, <2>2
<1>4. CASE ~b.active.valid
  BY <1>1, <1>4 DEF LinkbackRun
<1> QED
  BY <1>2, <1>3, <1>4

(* linkback_sched leaves every other state.                                 *)
LEMMA SchedWorks ==
    ASSUME NEW b, NEW l
    PROVE  LinkbackSched(b, l).state \in Working
<1> DEFINE c == IF b.startupDone THEN b ELSE [b EXCEPT !.todo = BondQueue]
           e == EnterState(c, "linkback", "connectable")
<1>1. \/ LinkbackSched(b, l) = c /\ c.state = "linkback"
      \/ LinkbackSched(b, l) = LinkbackRun(e, l)
      \/ LinkbackSched(b, l) = StableNormal(c, l)
  BY DEF LinkbackSched
<1>2. e.state = "linkback"
  BY EnteredState
<1> HIDE DEF c, e
<1>3. "linkback" \in Working
  BY DEF Working
<1> QED
  BY <1>1, <1>2, <1>3, RunWorks, NormalWorks DEF GoesToWork

(* So does a page timeout.                                                  *)
LEMMA TimeoutWorks ==
    ASSUME NEW b, NEW l
    PROVE  GoesToWork(b, ConnTimeout(b, l))
<1> DEFINE t == [b EXCEPT !.timers = @ \ {"linkback"},
                          !.todo = IF b.active.valid /\ b.active.member
                                   THEN DeleteGroup(@) ELSE @]
<1>1. /\ t.state = b.state
      /\ [t EXCEPT !.active.valid = FALSE].state = b.state
      /\ [t EXCEPT !.active.plan = {}].state = b.state
  OBVIOUS
<1>2. \/ ConnTimeout(b, l) = LinkbackRun(t, l)
      \/ ConnTimeout(b, l) = t
      \/ ConnTimeout(b, l) = [t EXCEPT !.active.valid = FALSE]
      \/ ConnTimeout(b, l) = [t EXCEPT !.active.plan = {}]
  BY DEF ConnTimeout
<1> HIDE DEF t
<1> QED
  BY <1>1, <1>2, RunWorks DEF GoesToWork

(* With room the preparation enters pairing mode, otherwise it stays.       *)
LEMMA PrepareWorks ==
    ASSUME NEW b, NEW sr, NEW cl, PreparePairing(b, sr, cl)
    PROVE  /\ GoesToWork(b, bp')
           /\ ~Full(links) => bp'.state \in Working
<1>1. CASE ~Full(links)
  <2> DEFINE e == StablePairing(b)
  <2>1. e.state = "pairing"
    BY EnteredState DEF StablePairing
  <2>2. bp' = [e EXCEPT !.forced = FALSE]
    BY <1>1 DEF PreparePairing
  <2> HIDE DEF e
  <2>3. bp'.state = "pairing"
    BY <2>1, <2>2
  <2> QED
    BY <2>3 DEF GoesToWork, Working
<1>2. CASE Full(links)
  <2>1. CASE bp' = [b EXCEPT !.forced = FALSE]
    BY <1>2, <2>1 DEF GoesToWork
  <2>2. ASSUME NEW v, bp' = [DedicatedDisconnect(b, v, Profs) EXCEPT !.forced = FALSE]
        PROVE  GoesToWork(b, bp')
    <3> DEFINE d == DedicatedDisconnect(b, v, Profs)
    <3>1. d.state = b.state
      BY DisconnectPairs
    <3> HIDE DEF d
    <3>2. bp'.state = d.state
      BY <2>2 DEF d
    <3> QED
      BY <3>1, <3>2 DEF GoesToWork
  <2> QED
    BY <1>2, <2>1, <2>2 DEF PreparePairing
<1> QED
  BY <1>1, <1>2

-----------------------------------------------------------------------------
(* Until the first linkback, and while the chip is off, nothing goes on.    *)
Quiet ==
    /\ links = NoLinks
    /\ acl = [a \in Addrs |-> "down"]
    /\ search = {} /\ conns = {} /\ discs = {}
    /\ bp.radio = "idle"
    /\ bp.timers \subseteq {"power_on"}

SleepInv ==
    /\ device \in {"off", "on", "off_ing"}
    /\ device = "off" => Quiet /\ bp.timers = {}
    /\ device = "on" =>
          /\ bp.state \notin {"startup", "shutdown_step", "shutdown"}
          /\ bp.state = "stop" => Quiet

(* The stack has nothing to report.                                         *)
LEMMA QuietStack == Quiet => ~StackEvent
BY DEF Quiet, NoLinks, StackEvent, AclConnInd, AclConnSuccess, PageTimeout, AclCancelled,
       AclAuthenSuccess, AclConnDisconn, SdpAttrInfo, SdpDiscovCmpl, ProfConnCmpl,
       OpensItself, ProfConnFail, ProfDisconnCmpl

(* The host can only ask for pairing mode.                                  *)
LEMMA QuietHost ==
    ASSUME Quiet, Host, bp.state = "stop", "create" \notin Inputs
    PROVE  Quiet' /\ bp'.state = bp.state /\ bp'.todo = bp.todo
<1>1. CASE EnterPairing
  <2>1. PICK force \in BOOLEAN :
           bp' = [[bp EXCEPT !.forced = force] EXCEPT !.enterPairing = TRUE]
    BY <1>1 DEF EnterPairing
  <2>2. /\ bp'.radio = bp.radio /\ bp'.timers = bp.timers
        /\ bp'.state = bp.state /\ bp'.todo = bp.todo
    <3> DEFINE b == [bp EXCEPT !.forced = force]
    <3>1. /\ b.radio = bp.radio /\ b.timers = bp.timers
          /\ b.state = bp.state /\ b.todo = bp.todo
      OBVIOUS
    <3>2. bp' = [b EXCEPT !.enterPairing = TRUE]
      BY <2>1
    <3> HIDE DEF b
    <3>3. /\ bp'.radio = b.radio /\ bp'.timers = b.timers
          /\ bp'.state = b.state /\ bp'.todo = b.todo
      BY <3>2
    <3> QED
      BY <3>1, <3>3
  <2> QED
    BY <1>1, <2>2 DEF EnterPairing, Quiet
<1>2. CASE ExitPairing
  <2>1. bp' = [bp EXCEPT !.enterPairing = FALSE]
    BY <1>2 DEF ExitPairing, Stable
  <2>2. /\ bp'.radio = bp.radio /\ bp'.timers = bp.timers
        /\ bp'.state = bp.state /\ bp'.todo = bp.todo
    BY <2>1
  <2> QED
    BY <1>2, <2>2 DEF ExitPairing, stack, Quiet
<1>3. CASE DisconnectAll
  BY <1>3 DEF DisconnectAll, Quiet
<1>4. ASSUME NEW a \in Addrs, NEW P \in Plans, CreateConnection(a, P) PROVE FALSE
  BY <1>4 DEF CreateConnection, Admitted
<1>5. ASSUME NEW a \in Addrs, NEW P \in Plans, DefaultConnect(a, P)
      PROVE  Quiet' /\ bp' = bp
  <2>1. bp' = bp
    BY <1>5 DEF DefaultConnect, DedicatedConnect, Stable
  <2> QED
    BY <1>5, <2>1 DEF DefaultConnect, stack, Quiet
<1>6. ASSUME NEW a \in Addrs, NEW P \in Plans, Disconnect(a, P) PROVE FALSE
  BY <1>6 DEF Disconnect, Quiet, NoLinks
<1> QED
  BY <1>1, <1>2, <1>3, <1>4, <1>5, <1>6 DEF Host

(* The steps that neither switch on or off nor belong to a shutdown: they   *)
(* leave the state of the policy or enter one of the working ones.          *)
LEMMA HostWorks == Host => device' = device /\ GoesToWork(bp, bp')
<1> SUFFICES ASSUME Host PROVE GoesToWork(bp, bp')
  BY DEF Host, EnterPairing, ExitPairing, DisconnectAll, CreateConnection,
         DefaultConnect, Disconnect
<1>1. CASE EnterPairing
  <2>1. ASSUME NEW force \in BOOLEAN, NEW b, NEW idle,
               b = [bp EXCEPT !.forced = force],
               idle = [b EXCEPT !.timers = @ \ {"linkback"}, !.todo = <<>>,
                                !.active = NoActive],
               \/ bp' = [b EXCEPT !.enterPairing = TRUE]
               \/ bp' = b
               \/ \E sr, cl : PreparePairing(idle, sr, cl)
               \/ \E sr, cl : PreparePairing(b, sr, cl)
        PROVE  GoesToWork(bp, bp')
    <3>1. b.state = bp.state /\ idle.state = b.state
      BY <2>1
    <3>2. CASE bp' = b \/ bp' = [b EXCEPT !.enterPairing = TRUE]
      <4>1. [b EXCEPT !.enterPairing = TRUE].state = b.state
        OBVIOUS
      <4> QED
        BY <3>1, <3>2, <4>1 DEF GoesToWork
    <3>3. CASE \E c, sr, cl : c \in {idle, b} /\ PreparePairing(c, sr, cl)
      BY <3>1, <3>3, PrepareWorks DEF GoesToWork
    <3> QED
      BY <2>1, <3>2, <3>3
  <2> QED
    BY <1>1, <2>1 DEF EnterPairing
<1>2. CASE ExitPairing
  <2> DEFINE b == [bp EXCEPT !.enterPairing = FALSE]
  <2>1. b.state = bp.state
    OBVIOUS
  <2>2. bp' = b \/ bp' = StableNotPairing(b, links)
    BY <1>2 DEF ExitPairing
  <2> HIDE DEF b
  <2>3. StableNotPairing(b, links).state \in {"connected", "standby"}
    BY EnteredState DEF StableNotPairing, EnterConnected
  <2> QED
    BY <2>1, <2>2, <2>3 DEF GoesToWork, Working
<1>3. CASE DisconnectAll
  BY <1>3 DEF DisconnectAll, GoesToWork
<1>4. ASSUME NEW a \in Addrs, NEW P \in Plans, CreateConnection(a, P)
      PROVE  GoesToWork(bp, bp')
  <2> DEFINE b == [bp EXCEPT !.todo = InsertNormal(<<>>, a, P, FALSE)]
  <2>1. bp' = LinkbackRun(b, links)
    BY <1>4 DEF CreateConnection, RunAndSearch
  <2>2. b.state = bp.state
    OBVIOUS
  <2> HIDE DEF b
  <2> QED
    BY <2>1, <2>2, RunWorks DEF GoesToWork
<1>5. ASSUME NEW a \in Addrs, NEW P \in Plans, DefaultConnect(a, P)
      PROVE  GoesToWork(bp, bp')
  <2>1. bp'.state = bp.state
    BY <1>5 DEF DefaultConnect, DedicatedConnect
  <2> QED
    BY <2>1 DEF GoesToWork
<1>6. ASSUME NEW a \in Addrs, NEW P \in Plans, Disconnect(a, P)
      PROVE  GoesToWork(bp, bp')
  BY <1>6, DisconnectPairs DEF Disconnect, GoesToWork
<1> QED
  BY <1>1, <1>2, <1>3, <1>4, <1>5, <1>6 DEF Host

(* So does every event of the stack, none of which switches the device.     *)
LEMMA StackWorks == StackEvent => device' = device /\ GoesToWork(bp, bp')
<1> SUFFICES ASSUME StackEvent PROVE GoesToWork(bp, bp')
  BY DEF StackEvent, AclConnInd, AclConnSuccess, PageTimeout, AclCancelled,
         AclAuthenSuccess, AclConnDisconn, SdpAttrInfo, SdpDiscovCmpl, ProfConnCmpl,
         ProfConnFail, ProfDisconnCmpl
<1>1. CASE bp' = bp
  BY <1>1 DEF GoesToWork
<1>2. ASSUME NEW a \in Addrs, AclConnSuccess(a) PROVE GoesToWork(bp, bp')
  BY <1>2, DisconnectPairs DEF AclConnSuccess, GoesToWork
<1>3. ASSUME NEW a \in Addrs, PageTimeout(a) PROVE GoesToWork(bp, bp')
  <2> DEFINE b == [bp EXCEPT !.todo = InsertNormal(<<>>, a, lastPlan, FALSE)]
  <2>1. bp' = LinkbackRun(b, links)
    BY <1>3 DEF PageTimeout, RunAndSearch
  <2>2. b.state = bp.state
    OBVIOUS
  <2> HIDE DEF b
  <2> QED
    BY <2>1, <2>2, RunWorks DEF GoesToWork
<1>4. ASSUME NEW a \in Addrs, AclAuthenSuccess(a) PROVE GoesToWork(bp, bp')
  <2>1. CASE bp' = StableAgain(bp, links)
    BY <2>1, EnteredState DEF StableAgain, EnterConnected, GoesToWork, Working
  <2>2. CASE bp' = ConnTimeout(bp, links)
    BY <2>2, TimeoutWorks
  <2> QED
    BY <1>1, <1>4, <2>1, <2>2 DEF AclAuthenSuccess, TimeoutNow
<1>5. ASSUME NEW a \in Addrs, SdpAttrInfo(a) PROVE GoesToWork(bp, bp')
  BY <1>5 DEF SdpAttrInfo, GoesToWork
<1>6. ASSUME NEW a \in Addrs, SdpDiscovCmpl(a) PROVE GoesToWork(bp, bp')
  <2> DEFINE b == [bp EXCEPT !.active = StepFail(@)]
  <2>1. bp' = bp \/ bp' = LinkbackRun(b, links)
    BY <1>6 DEF SdpDiscovCmpl, RunAndSearch
  <2>2. b.state = bp.state
    OBVIOUS
  <2> HIDE DEF b
  <2> QED
    BY <1>1, <2>1, <2>2, RunWorks DEF GoesToWork
<1>7. ASSUME NEW a \in Addrs, NEW p \in Profs, ProfConnCmpl(a, p)
      PROVE  GoesToWork(bp, bp')
  <2> DEFINE b == [bp EXCEPT !.active = StepSuc(@)]
  <2>1. bp' = bp \/ bp' = LinkbackRun(b, links')
    BY <1>7 DEF ProfConnCmpl, RunAndSearch
  <2>2. b.state = bp.state
    OBVIOUS
  <2> HIDE DEF b
  <2> QED
    BY <1>1, <2>1, <2>2, RunWorks DEF GoesToWork
<1> QED
  BY <1>1, <1>2, <1>3, <1>4, <1>5, <1>6, <1>7
     DEF StackEvent, AclConnInd, AclCancelled, AclConnDisconn, ProfConnFail, ProfDisconnCmpl

(* So does the end of the linkback time.                                    *)
LEMMA LinkbackTimeoutWorks ==
    LinkbackTimeout => device' = device /\ GoesToWork(bp, bp')
BY TimeoutWorks DEF LinkbackTimeout, TimeoutNow

(* The first linkback ends the sleep.                                       *)
LEMMA PowerOnTimeoutWorks ==
    ASSUME PowerOnTimeout
    PROVE  /\ device' = device
           /\ GoesToWork(bp, bp')
           /\ Quiet => bp'.state \in Working
<1> DEFINE b == [bp EXCEPT !.timers = @ \ {"power_on"}, !.linkbackFlag = FALSE,
                           !.enterPairing = FALSE]
<1>1. b.state = bp.state
  OBVIOUS
<1>2. PreparePairing(b, search, closing) \/ bp' = LinkbackSched(b, links)
  BY DEF PowerOnTimeout
<1> HIDE DEF b
<1>3. Quiet => ~Full(links)
  BY EmptyIsNotFull DEF Quiet, NoLinks
<1>4. device' = device
  BY DEF PowerOnTimeout
<1> QED
  BY <1>1, <1>2, <1>3, <1>4, PrepareWorks, SchedWorks DEF GoesToWork

(* A step of the shutdown ends at the earliest in a shutdown begun.         *)
LEMMA StepTimeoutWorks ==
    ASSUME StepTimeout
    PROVE  /\ device' = device
           /\ bp'.state # bp.state => bp.state = "shutdown_step"
<1>1. \/ bp' = bp
      \/ bp' = [bp EXCEPT !.timers = @ \ {"step"}]
      \/ bp.state = "shutdown_step"
  BY DEF StepTimeout, StepIgnored
<1>2. [bp EXCEPT !.timers = @ \ {"step"}].state = bp.state
  OBVIOUS
<1> QED
  BY <1>1, <1>2 DEF StepTimeout

(* Whoever does not send CMD_BT_CREATE_CONNECTION cannot wake the policy up *)
(* before its first linkback.                                               *)
LEMMA SleepStep ==
    ASSUME SleepInv, [Next]_vars, "create" \notin Inputs
    PROVE  SleepInv'
<1>1. CASE UNCHANGED vars
  BY <1>1 DEF vars, stack, SleepInv, Quiet
<1>2. CASE PowerOn
  <2>1. bp' = [BootPolicy EXCEPT !.state = "stop", !.timers = {"power_on"}]
    BY <1>2 DEF PowerOn
  <2>2. bp'.state = "stop" /\ bp'.radio = "idle" /\ bp'.timers = {"power_on"}
    BY <2>1 DEF BootPolicy
  <2> QED
    BY <1>2, <2>2 DEF PowerOn, stack, SleepInv, Quiet
<1>3. CASE PowerOff
  BY <1>3 DEF PowerOff, SleepInv
<1>4. CASE Reboot
  BY <1>4 DEF Reboot, SleepInv, Quiet, BootPolicy
<1>5. CASE StepTimeout
  <2>1. device' = device /\ (device = "on" => bp'.state = bp.state)
    BY <1>5, StepTimeoutWorks DEF SleepInv
  <2>2. ~Quiet
    BY <1>5 DEF StepTimeout, Quiet
  <2> QED
    BY <2>1, <2>2 DEF SleepInv
<1>6. CASE PowerOnTimeout
  <2>1. device # "off"
    BY <1>6 DEF PowerOnTimeout, SleepInv
  <2> QED
    BY <1>6, <2>1, PowerOnTimeoutWorks DEF SleepInv, GoesToWork, Working
<1>7. CASE LinkbackTimeout
  <2>1. ~Quiet
    BY <1>7 DEF LinkbackTimeout, Quiet
  <2> QED
    BY <1>7, <2>1, LinkbackTimeoutWorks DEF SleepInv, GoesToWork, Working
<1>8. CASE Host
  <2>1. device = "on"
    BY <1>8 DEF Host, EnterPairing, ExitPairing, DisconnectAll, CreateConnection,
                DefaultConnect, Disconnect
  <2> QED
    BY <1>8, <2>1, HostWorks, QuietHost DEF SleepInv, GoesToWork, Working
<1>9. CASE StackEvent
  <2>1. ~Quiet
    BY <1>9, QuietStack
  <2> QED
    BY <1>9, <2>1, StackWorks DEF SleepInv, GoesToWork, Working
<1> QED
  BY <1>1, <1>2, <1>3, <1>4, <1>5, <1>6, <1>7, <1>8, <1>9 DEF Next, Device

(* The headset starts asleep.                                               *)
LEMMA SleepInit == Init => SleepInv
BY DEF Init, SleepInv, Quiet, BootPolicy

-----------------------------------------------------------------------------
(***************************************************************************)
(* The one search.  The active node, its search and the connection of a     *)
(* profile for it exclude each other and end together, as long as nothing   *)
(* runs linkback from outside: a run while a search is going on would put   *)
(* another node in work next to it.  CMD_BT_CREATE_CONNECTION does, and so  *)
(* does a page timeout that comes after its page was given up; one that     *)
(* comes in time is the end of the search.  The third is the searched       *)
(* device itself: opening the profile that was found, before the search is  *)
(* complete, runs linkback, too.  Any other profile it may open any time.   *)
(***************************************************************************)
NobodyRuns == {"create", "late_page_timeout", "peer_race"} \cap Inputs = {}

(* A page that was not given up belongs to a search.                        *)
PagesSearch == \A a \in Addrs : acl[a] = "paging" => a \in closing \cup search

(* A connection under way is the one that the node in work waits for.       *)
ConnAwaited == bp.active.valid => conns \subseteq {<<bp.active.addr, bp.active.doing>>}

SearchInv ==
    /\ InWork(bp)
    /\ search \subseteq Wanted(bp)
    /\ search = {} \/ conns = {}
    /\ \A c, d \in conns : c = d
    /\ ConnAwaited
    /\ PagesSearch
    /\ "power_on" \in bp.timers => Quiet /\ bp.state \in {"stop", "shutdown"}
    /\ bp.state = "shutdown_step" => device = "off_ing"

(* What the handlers do to the node in work.                                *)

(* The same node is in work on the same profile, the state is the same.     *)
SameWork(b, c) ==
    /\ c.state = b.state
    /\ c.active.valid = b.active.valid
    /\ c.active.addr = b.active.addr
    /\ c.active.doing = b.active.doing

(* With the same node in work the same search is wanted.                    *)
LEMMA SameWorkWanted ==
    ASSUME NEW b, NEW c, SameWork(b, c)
    PROVE  /\ Wanted(c) = Wanted(b)
           /\ InWork(b) /\ c.timers \subseteq b.timers => InWork(c)
BY DEF SameWork, Wanted, InWork

(* stop_all_active_action stops the linkback timer, too.                    *)
LEMMA StopAllIdle ==
    ASSUME NEW b, PolicyOK(b), NEW left \in BOOLEAN
    PROVE  StopAll(b, left).timers = b.timers \ {"linkback"}
<1> DEFINE c == [b EXCEPT !.timers = @ \ {"linkback"}]
<1>1. c.timers = b.timers \ {"linkback"}
  BY DEF PolicyOK, Policy
<1>2. StopAll(b, left) = [UseLeftTime(c, left) EXCEPT !.active.valid = FALSE]
      \/ StopAll(b, left) = c
  BY DEF StopAll
<1> HIDE DEF c
<1>3. UseLeftTime(c, left).timers = c.timers
  BY DEF UseLeftTime
<1>4. [UseLeftTime(c, left) EXCEPT !.active.valid = FALSE].timers
         = UseLeftTime(c, left).timers
  OBVIOUS
<1> QED
  BY <1>1, <1>2, <1>3, <1>4

(* A command to connect leaves the node in work.                            *)
LEMMA ConnectSameWork ==
    ASSUME NEW b, PolicyOK(b), NEW a, NEW P
    PROVE  /\ SameWork(b, DedicatedConnect(b, a, P))
           /\ InWork(b) => InWork(DedicatedConnect(b, a, P))
<1>1. SameWork(b, DedicatedConnect(b, a, P))
  BY DEF DedicatedConnect, SameWork, PolicyOK, Policy, ActiveNode
<1>2. \/ b.active.valid
      \/ DedicatedConnect(b, a, P).timers = b.timers
  BY DEF DedicatedConnect, IsActive
<1> QED
  BY <1>1, <1>2 DEF SameWork, InWork

(* A command to disconnect leaves the node in work and the timers.          *)
LEMMA DisconnectSameWork ==
    ASSUME NEW b, PolicyOK(b), NEW a, NEW P
    PROVE  /\ SameWork(b, DedicatedDisconnect(b, a, P))
           /\ DedicatedDisconnect(b, a, P).timers = b.timers
           /\ InWork(b) => InWork(DedicatedDisconnect(b, a, P))
<1>1. SameWork(b, DedicatedDisconnect(b, a, P))
  BY DEF DedicatedDisconnect, SameWork, PolicyOK, Policy, ActiveNode
<1>2. DedicatedDisconnect(b, a, P).timers = b.timers
  BY DEF DedicatedDisconnect
<1> QED
  BY <1>1, <1>2, SameWorkWanted

(* A timeout of the node in work stops its timer, and the node stays.       *)
LEMMA TimeoutSameWork ==
    ASSUME NEW b, PolicyOK(b), InWork(b), b.active.valid, NEW l
    PROVE  /\ SameWork(b, ConnTimeout(b, l)) /\ InWork(ConnTimeout(b, l))
           /\ ConnTimeout(b, l).timers \subseteq b.timers
<1> DEFINE tm == b.timers \ {"linkback"}
           q == IF b.active.valid /\ b.active.member THEN DeleteGroup(b.todo) ELSE b.todo
           t == [b EXCEPT !.timers = tm, !.todo = q]
<1>1. t.timers = tm /\ t.state = b.state /\ t.active = b.active
  BY DEF PolicyOK, Policy
<1>0. DOMAIN t = DOMAIN b /\ "active" \in DOMAIN b
  BY DEF PolicyOK, Policy
<1>2. ConnTimeout(b, l) = t \/ ConnTimeout(b, l) = [t EXCEPT !.active.plan = {}]
  BY Zenon DEF ConnTimeout, InWork
<1> HIDE DEF t
<1>3. /\ [t EXCEPT !.active.plan = {}].timers = t.timers
      /\ [t EXCEPT !.active.plan = {}].state = t.state
      /\ [t EXCEPT !.active.plan = {}].active = [t.active EXCEPT !.plan = {}]
      /\ [t.active EXCEPT !.plan = {}].valid = t.active.valid
      /\ [t.active EXCEPT !.plan = {}].addr = t.active.addr
      /\ [t.active EXCEPT !.plan = {}].doing = t.active.doing
  BY <1>0
<1>4. SameWork(b, ConnTimeout(b, l)) /\ ConnTimeout(b, l).timers = tm
  BY <1>1, <1>2, <1>3 DEF SameWork
<1> QED
  BY <1>4, SameWorkWanted

(* Preparing pairing mode with no node in work puts none there.             *)
LEMMA PrepareIdle ==
    ASSUME NEW b, PolicyOK(b), ~b.active.valid, "linkback" \notin b.timers,
           NEW sr, NEW cl, PreparePairing(b, sr, cl)
    PROVE  InWork(bp') /\ ~bp'.active.valid /\ search' = sr
<1>1. ASSUME NEW c, ~c.active.valid, InWork(c), bp' = [c EXCEPT !.forced = FALSE]
      PROVE  InWork(bp') /\ ~bp'.active.valid
  <2>1. bp'.timers = c.timers /\ bp'.active = c.active
    BY <1>1
  <2> QED
    BY <1>1, <2>1 DEF InWork
<1>2. ~StablePairing(b).active.valid /\ InWork(StablePairing(b))
  BY StableModesOK, StableIdle, IdleInWork
<1>3. InWork(b)
  BY DEF InWork
<1>4. \A v : /\ ~DedicatedDisconnect(b, v, Profs).active.valid
             /\ InWork(DedicatedDisconnect(b, v, Profs))
  BY <1>3, DisconnectSameWork DEF SameWork
<1> QED
  BY <1>1, <1>2, <1>3, <1>4 DEF PreparePairing

(* Preparing pairing mode takes back no request to leave.                   *)
LEMMA PrepareCloses ==
    ASSUME NEW b, NEW sr, NEW cl, PreparePairing(b, sr, cl)
    PROVE  cl \subseteq closing'
BY DEF PreparePairing, DisconnectLink

(* A run of the node whose search or connection is over.                    *)
LEMMA RunSearch ==
    ASSUME NEW b, PolicyOK(b), b.state = "linkback", NEW l, NEW al, NEW sr,
           RunAndSearch(b, l, al, sr), sr = {},
           \A a \in Addrs : al[a] = "paging" => a \in closing'
    PROVE  InWork(bp') /\ search' \subseteq Wanted(bp') /\ PagesSearch'
<1>1. InWork(bp') /\ search' = Wanted(bp')
  BY RunOK DEF RunAndSearch
<1>2. acl' = Paged(al, Wanted(bp'))
  BY DEF RunAndSearch
<1>3. PagesSearch'
  BY <1>1, <1>2 DEF PagesSearch, Paged
<1> QED
  BY <1>1, <1>3

(* A handler that starts no page, and ends a search only with its page.     *)
PagesKept ==
    \A a \in Addrs :
       acl'[a] = "paging" =>
          /\ acl[a] = "paging"
          /\ a \in closing \cup search => a \in closing' \cup search'

(* A handler that leaves alone the searches and connections of the stack or *)
(* withdraws some, and the node in work alone.                              *)
LEMMA SearchKept ==
    ASSUME SearchInv, search' \subseteq search, conns' \subseteq conns, InWork(bp'),
           SameWork(bp, bp') \/ (search' = {} /\ ~bp'.active.valid), PagesKept
    PROVE  /\ search' \subseteq Wanted(bp')
           /\ search' = {} \/ conns' = {}
           /\ \A c, d \in conns' : c = d
           /\ ConnAwaited'
           /\ PagesSearch'
<1>1. PagesSearch'
  BY DEF SearchInv, PagesKept, PagesSearch
<1>2. ConnAwaited'
  BY DEF SearchInv, ConnAwaited, SameWork
<1> QED
  BY <1>1, <1>2, SameWorkWanted DEF SearchInv

(* The node given up takes its page with it.                                *)
LEMMA TimeoutPagesKept ==
    ASSUME TimeoutNow, bp.active.valid
    PROVE  PagesKept
BY DEF TimeoutNow, PagesKept, Closed

(* Past the first linkback, a handler that returns to no earlier state.     *)
LEMMA FirstKept ==
    ASSUME SearchInv, ~Quiet, Later(bp, bp'), device' = device, GoesToWork(bp, bp')
    PROVE  /\ "power_on" \in bp'.timers => Quiet' /\ bp'.state \in {"stop", "shutdown"}
           /\ bp'.state = "shutdown_step" => device' = "off_ing"
BY DEF SearchInv, Later, GoesToWork, Working

(* The actions. *)

(* No search is going on at the start.                                      *)
LEMMA SearchInit == Init => SearchInv
BY DEF Init, SearchInv, InWork, BootPolicy, NoActive, Wanted, PagesSearch, ConnAwaited

(* The steps of the device keep searches and node together.                 *)
LEMMA SearchDevice ==
    ASSUME TableInv, PolicyInv, SchedAhead, SleepInv, SearchInv, Device
    PROVE  SearchInv'
<1>0. PolicyOK(bp) /\ InWork(bp)
  BY DEF PolicyInv, SearchInv
<1>1. CASE PowerOn
  <2>1. bp' = [BootPolicy EXCEPT !.state = "stop", !.timers = {"power_on"}]
    BY <1>1 DEF PowerOn
  <2>2. /\ bp'.state = "stop" /\ bp'.radio = "idle" /\ bp'.timers = {"power_on"}
        /\ ~bp'.active.valid
    BY <2>1 DEF BootPolicy, NoActive
  <2>3. Quiet
    BY <1>1 DEF PowerOn, SleepInv
  <2> QED
    BY <1>1, <2>2, <2>3 DEF PowerOn, stack, SearchInv, InWork, Quiet, PagesSearch,
                            ConnAwaited
<1>2. CASE PowerOff
  <2>1. PICK left \in BOOLEAN :
           LET b == StopAll(bp, left)
           IN  bp' = IF links.num = 0 THEN EnterState(b, "shutdown", "idle")
                     ELSE EnterState([b EXCEPT !.timers = @ \cup {"step"}],
                                     "shutdown_step", "idle")
    BY <1>2 DEF PowerOff
  <2> DEFINE b == StopAll(bp, left)
             tm == b.timers \cup {"step"}
             c == [b EXCEPT !.timers = tm]
  <2>2. PolicyOK(b) /\ ~b.active.valid /\ b.timers = bp.timers \ {"linkback"}
    BY <1>0, StopAllOK, StopAllIdle
  <2>3. \/ links.num = 0 /\ bp' = EnterState(b, "shutdown", "idle")
        \/ links.num # 0 /\ bp' = EnterState(c, "shutdown_step", "idle")
    BY <2>1
  <2> HIDE DEF b
  <2>4. c.timers = b.timers \cup {"step"} /\ c.active = b.active /\ PolicyOK(c)
    <3>1. b.timers \cup {"step"} \in SUBSET Timers
      BY <2>2, PolicyParts DEF Timers
    <3>2. PolicyOK(c)
      BY <2>2, <3>1, FieldsOK
    <3> QED
      BY <2>2, <3>2 DEF PolicyOK, Policy
  <2> HIDE DEF c
  <2>5. ASSUME NEW d, PolicyOK(d), NEW s
        PROVE  /\ EnterState(d, s, "idle").timers = d.timers
               /\ EnterState(d, s, "idle").active = d.active
               /\ EnterState(d, s, "idle").state = s
               /\ s # "linkback" => EnterState(d, s, "idle").radio = "idle"
    BY <2>5 DEF EnterState, PolicyOK, Policy
  <2>6. /\ ~bp'.active.valid /\ "linkback" \notin bp'.timers
        /\ "power_on" \in bp'.timers => "power_on" \in bp.timers
    BY <2>2, <2>3, <2>4, <2>5
  <2>7. /\ search' \subseteq {} /\ conns' = conns
        /\ device' = "off_ing"
    BY <1>2 DEF PowerOff, Stopped, SearchInv
  <2>8. ASSUME "power_on" \in bp'.timers
        PROVE  Quiet' /\ bp'.state \in {"stop", "shutdown"}
    <3>1. Quiet
      BY <2>6, <2>8 DEF SearchInv
    <3>2. links.num = 0
      BY <3>1 DEF Quiet, NoLinks
    <3>3. bp'.timers \subseteq bp.timers /\ bp'.radio = "idle" /\ bp'.state = "shutdown"
      BY <2>2, <2>3, <2>5, <3>2
    <3> QED
      BY <1>2, <2>7, <3>1, <3>2, <3>3 DEF PowerOff, Quiet
  <2>9. PagesSearch'
    <3>1. acl' = acl /\ Closed(closing, Wanted(bp) \ links.on) \subseteq closing'
      BY <1>2 DEF PowerOff
    <3>2. \A a \in Addrs : acl[a] = "paging" => a \notin links.on
      BY DEF TableInv, LinkTableInv
    <3> QED
      BY <3>1, <3>2 DEF PagesSearch, SearchInv, Closed
  <2> QED
    BY <2>6, <2>7, <2>8, <2>9 DEF SearchInv, InWork, ConnAwaited
<1>3. CASE StepTimeout
  <2>1. ~Quiet
    BY <1>3 DEF StepTimeout, Quiet
  <2>2. "power_on" \notin bp.timers
    BY <2>1 DEF SearchInv
  <2> DEFINE t == [bp EXCEPT !.timers = @ \ {"step"}]
  <2>3. t.active = bp.active /\ t.timers \subseteq bp.timers /\ t.state = bp.state
    BY <1>0 DEF PolicyOK, Policy
  <2>4. \/ bp' = bp
        \/ bp' = t
        \/ bp' = EnterState(t, "shutdown", "idle") /\ bp.state = "shutdown_step"
    BY <1>3 DEF StepTimeout, StepIgnored, WaitForProfiles, CloseLinks, WaitForLinks
  <2>5. /\ EnterState(t, "shutdown", "idle").active = t.active
        /\ EnterState(t, "shutdown", "idle").timers = t.timers
        /\ EnterState(t, "shutdown", "idle").state = "shutdown"
    BY <1>0 DEF EnterState, PolicyOK, Policy
  <2> HIDE DEF t
  <2>6. bp'.active = bp.active /\ bp'.timers \subseteq bp.timers
    BY <2>3, <2>4, <2>5
  <2>7. InWork(bp')
    BY <1>0, <2>3, <2>4, <2>5 DEF InWork
  <2>8. bp'.state = "shutdown_step" => bp.state = "shutdown_step"
    BY <2>3, <2>4, <2>5
  <2>9. PagesSearch'
    BY <1>3 DEF StepTimeout, StepIgnored, WaitForProfiles, CloseLinks, WaitForLinks,
                Closed, SearchInv, PagesSearch
  <2> QED
    BY <1>3, <2>2, <2>6, <2>7, <2>8, <2>9 DEF StepTimeout, SearchInv, Wanted, ConnAwaited
<1>4. CASE Reboot
  BY <1>4 DEF Reboot, SearchInv, InWork, BootPolicy, NoActive, Wanted, PagesSearch,
              ConnAwaited
<1>5. CASE PowerOnTimeout
  <2> DEFINE b == [bp EXCEPT !.timers = @ \ {"power_on"}, !.linkbackFlag = FALSE,
                             !.enterPairing = FALSE]
  <2>1. Quiet /\ bp.state \in {"stop", "shutdown"}
    BY <1>5 DEF PowerOnTimeout, SearchInv
  <2>2. b.timers = bp.timers \ {"power_on"} /\ b.state = bp.state /\ b.active = bp.active
    BY <1>0 DEF PolicyOK, Policy
  <2>3. PolicyOK(b)
    BY <1>0 DEF PolicyOK, Policy
  <2>4. \/ PreparePairing(b, search, closing)
        \/ /\ bp' = LinkbackSched(b, links)
           /\ search' = search \cup Wanted(LinkbackSched(b, links))
    BY <1>5 DEF PowerOnTimeout
  <2> HIDE DEF b
  <2>5. b.timers = {} /\ ~b.active.valid /\ b.state # "linkback"
    BY <1>0, <2>1, <2>2 DEF Quiet, InWork
  <2>6. search = {} /\ conns' = {}
    BY <1>5, <2>1 DEF Quiet, PowerOnTimeout
  <2>7. InWork(bp') /\ search' \subseteq Wanted(bp')
    <3>1. CASE PreparePairing(b, search, closing)
      BY <2>3, <2>5, <2>6, <3>1, PrepareIdle
    <3>2. CASE /\ bp' = LinkbackSched(b, links)
               /\ search' = search \cup Wanted(LinkbackSched(b, links))
      <4>1. InWork(LinkbackSched(b, links))
        BY <2>3, <2>5, SchedOK
      <4>2. search' = search \cup Wanted(bp')
        BY <3>2
      <4> QED
        BY <2>6, <3>2, <4>1, <4>2
    <3> QED
      BY <2>4, <3>1, <3>2
  <2>8. "power_on" \notin bp'.timers
    <3>1. CASE PreparePairing(b, search, closing)
      <4>1. ASSUME NEW c, "power_on" \notin c.timers, bp' = [c EXCEPT !.forced = FALSE]
            PROVE  "power_on" \notin bp'.timers
        BY <4>1
      <4>2. StablePairing(b).timers \subseteq b.timers
        BY <2>3, StableIdle DEF IdleAfter
      <4>3. \A v : DedicatedDisconnect(b, v, Profs).timers = b.timers
        BY <2>3, DisconnectSameWork
      <4> QED
        BY <2>5, <3>1, <4>1, <4>2, <4>3 DEF PreparePairing
    <3>2. CASE bp' = LinkbackSched(b, links)
      BY <2>3, <2>5, <3>2, SchedOK
    <3> QED
      BY <2>4, <3>1, <3>2
  <2>9. bp'.state # "shutdown_step"
    BY <1>5, <2>1, PowerOnTimeoutWorks DEF Working
  <2>10. PagesSearch'
    <3>1. \A a \in Addrs : acl[a] = "down"
      BY <2>1 DEF Quiet
    <3>2. CASE acl' = acl
      BY <3>1, <3>2 DEF PagesSearch
    <3>3. CASE /\ acl' = Paged(acl, Wanted(LinkbackSched(b, links)))
               /\ search' = search \cup Wanted(LinkbackSched(b, links))
      BY <3>1, <3>3 DEF PagesSearch, Paged
    <3> QED
      BY <1>5, <3>2, <3>3 DEF PowerOnTimeout, b
  <2> QED
    BY <2>6, <2>7, <2>8, <2>9, <2>10 DEF SearchInv, ConnAwaited
<1>6. CASE LinkbackTimeout
  <2>1. /\ "linkback" \in bp.timers /\ TimeoutNow /\ links' = links
        /\ device' = device /\ conns' = conns
    BY <1>6 DEF LinkbackTimeout
  <2>2. bp.active.valid /\ ~Quiet
    BY <1>0, <2>1 DEF InWork, Quiet
  <2>3. SameWork(bp, bp') /\ InWork(bp')
    BY <1>0, <2>1, <2>2, TimeoutSameWork DEF TimeoutNow
  <2>4. search' \subseteq search
    BY <2>1, <2>2 DEF TimeoutNow
  <2>5. Later(bp, bp') /\ GoesToWork(bp, bp')
    BY <1>6, <2>1, TimeoutPages, LinkbackTimeoutWorks
  <2>6. PagesKept
    BY <2>1, <2>2, TimeoutPagesKept
  <2>7. /\ search' \subseteq Wanted(bp')
        /\ search' = {} \/ conns' = {}
        /\ \A c, d \in conns' : c = d
        /\ ConnAwaited'
        /\ PagesSearch'
    BY <2>1, <2>3, <2>4, <2>6, SearchKept
  <2> QED
    BY <2>1, <2>2, <2>3, <2>5, <2>7, FirstKept DEF SearchInv
<1> QED
  BY <1>1, <1>2, <1>3, <1>4, <1>5, <1>6 DEF Device

(* The commands. *)
LEMMA SearchHost ==
    ASSUME TableInv, PolicyInv, SleepInv, SearchInv, Host, NobodyRuns
    PROVE  SearchInv'
<1>0. /\ PolicyOK(bp) /\ InWork(bp) /\ Later(bp, bp') /\ GoesToWork(bp, bp')
      /\ device' = device /\ device = "on"
  <2>1. device = "on"
    BY DEF Host, EnterPairing, ExitPairing, DisconnectAll, CreateConnection,
           DefaultConnect, Disconnect
  <2> QED
    BY <2>1, PagesHost, HostWorks DEF PolicyInv, SearchInv
<1>1. /\ "power_on" \in bp'.timers => Quiet' /\ bp'.state \in {"stop", "shutdown"}
      /\ bp'.state = "shutdown_step" => device' = "off_ing"
  <2>1. CASE Quiet /\ "power_on" \in bp.timers
    <3>1. bp.state = "stop"
      BY <1>0, <2>1 DEF SearchInv, SleepInv
    <3>2. "create" \notin Inputs
      BY DEF NobodyRuns
    <3> QED
      BY <2>1, <3>1, <3>2, QuietHost
  <2>2. CASE "power_on" \notin bp.timers
    BY <1>0, <2>2 DEF Later, SearchInv, GoesToWork, Working
  <2> QED
    BY <2>1, <2>2 DEF SearchInv
<1>2. CASE bp'.active = bp.active /\ bp'.state = bp.state /\ bp'.timers = bp.timers
           /\ search' = search /\ conns' = conns /\ PagesKept
  <2>1. InWork(bp') /\ Wanted(bp') = Wanted(bp)
    BY <1>0, <1>2 DEF InWork, Wanted
  <2> QED
    BY <1>1, <1>2, <2>1 DEF SearchInv, PagesKept, PagesSearch, ConnAwaited
<1>3. ASSUME InWork(bp'), SameWork(bp, bp') \/ (search' = {} /\ ~bp'.active.valid),
             search' \subseteq search, conns' = conns, PagesKept
      PROVE  SearchInv'
  <2>1. /\ search' \subseteq Wanted(bp')
        /\ search' = {} \/ conns' = {}
        /\ \A c, d \in conns' : c = d
        /\ ConnAwaited'
        /\ PagesSearch'
    BY <1>3, SearchKept
  <2> QED
    BY <1>1, <1>3, <2>1 DEF SearchInv
<1>4. CASE EnterPairing
  <2>1. conns' = conns /\ acl' = acl
    BY <1>4 DEF EnterPairing
  <2>2. PICK force \in BOOLEAN :
           LET b == [bp EXCEPT !.forced = force]
               idle == [b EXCEPT !.timers = @ \ {"linkback"}, !.todo = <<>>,
                                 !.active = NoActive]
               given == Closed(closing, Wanted(bp))
           IN  \/ /\ bp' = [b EXCEPT !.enterPairing = TRUE]
                  /\ search' = search /\ closing' = closing
               \/ bp' = b /\ search' = search /\ closing' = closing
               \/ PreparePairing(idle, Stopped(search), given)
               \/ bp.state # "linkback" /\ PreparePairing(b, search, closing)
    BY <1>4 DEF EnterPairing
  <2> DEFINE b == [bp EXCEPT !.forced = force]
             tm == b.timers \ {"linkback"}
             c == [b EXCEPT !.timers = tm]
             d == [c EXCEPT !.todo = <<>>]
             idle == [d EXCEPT !.active = NoActive]
  <2>3. /\ PolicyOK(b) /\ b.timers = bp.timers /\ b.active = bp.active
        /\ b.state = bp.state
    <3>1. PolicyOK(b)
      BY <1>0, FieldsOK
    <3> QED
      BY <1>0, <3>1 DEF PolicyOK, Policy
  <2>4. [b EXCEPT !.timers = @ \ {"linkback"}, !.todo = <<>>, !.active = NoActive] = idle
    BY <2>3 DEF PolicyOK, Policy
  <2>5. \/ bp' = [b EXCEPT !.enterPairing = TRUE] /\ search' = search /\ closing' = closing
        \/ bp' = b /\ search' = search /\ closing' = closing
        \/ PreparePairing(idle, Stopped(search), Closed(closing, Wanted(bp)))
        \/ bp.state # "linkback" /\ PreparePairing(b, search, closing)
    BY <2>2, <2>4
  <2> HIDE DEF b
  <2>6. PolicyOK(idle) /\ ~idle.active.valid /\ "linkback" \notin idle.timers
    <3>1. tm \in SUBSET Timers /\ QueueOK(<<>>)
      BY <2>3, PolicyParts, NodeNumAssumption DEF QueueOK
    <3>2. PolicyOK(c)
      BY <2>3, <3>1, FieldsOK
    <3>3. c.timers = tm
      BY <2>3 DEF PolicyOK, Policy
    <3> HIDE DEF c
    <3>4. PolicyOK(d) /\ d.timers = tm
      <4>1. PolicyOK(d)
        BY <3>1, <3>2, FieldsOK
      <4> QED
        BY <3>2, <3>3, <4>1 DEF PolicyOK, Policy
    <3> HIDE DEF d
    <3>5. PolicyOK(idle)
      BY <3>4, NoActiveOK, FieldsOK
    <3>6. idle.timers = tm /\ idle.active = NoActive
      BY <3>4 DEF PolicyOK, Policy
    <3> QED
      BY <3>5, <3>6, NoActiveOK
  <2> HIDE DEF idle
  <2>7. CASE bp' = [b EXCEPT !.enterPairing = TRUE] /\ search' = search /\ closing' = closing
    <3>1. bp'.active = b.active /\ bp'.state = b.state /\ bp'.timers = b.timers
      BY <2>7
    <3>2. PagesKept
      BY <2>1, <2>7 DEF PagesKept
    <3> QED
      BY <1>2, <2>1, <2>3, <2>7, <3>1, <3>2
  <2>8. CASE bp' = b /\ search' = search /\ closing' = closing
    <3>1. PagesKept
      BY <2>1, <2>8 DEF PagesKept
    <3> QED
      BY <1>2, <2>1, <2>3, <2>8, <3>1
  <2>9. CASE PreparePairing(idle, Stopped(search), Closed(closing, Wanted(bp)))
    <3>1. InWork(bp') /\ ~bp'.active.valid /\ search' = Stopped(search)
      BY <2>6, <2>9, PrepareIdle
    <3>2. search' = {}
      BY <3>1 DEF Stopped, SearchInv
    <3>3. Closed(closing, Wanted(bp)) \subseteq closing'
      BY <2>9, PrepareCloses
    <3>4. PagesKept
      BY <2>1, <3>3 DEF PagesKept, Closed, SearchInv
    <3> QED
      BY <1>3, <2>1, <3>1, <3>2, <3>4
  <2>10. CASE bp.state # "linkback" /\ PreparePairing(b, search, closing)
    <3>1. ~b.active.valid /\ "linkback" \notin b.timers /\ search = {}
      BY <1>0, <2>3, <2>10 DEF InWork, SearchInv, Wanted
    <3>2. InWork(bp') /\ ~bp'.active.valid /\ search' = search
      BY <2>3, <2>10, <3>1, PrepareIdle
    <3>3. PagesKept
      BY <2>1, <2>10, <3>2, PrepareCloses DEF PagesKept
    <3> QED
      BY <1>3, <2>1, <3>1, <3>2, <3>3
  <2> QED
    BY <2>5, <2>7, <2>8, <2>9, <2>10
<1>5. CASE ExitPairing
  <2> DEFINE b == [bp EXCEPT !.enterPairing = FALSE]
  <2>1. /\ PolicyOK(b) /\ b.timers = bp.timers /\ b.active = bp.active
        /\ b.state = bp.state
    <3>1. PolicyOK(b)
      BY <1>0, FieldsOK
    <3> QED
      BY <1>0, <3>1 DEF PolicyOK, Policy
  <2>2. /\ \/ bp' = b
           \/ b.state \in Stable /\ bp' = StableNotPairing(b, links)
        /\ search' = search /\ conns' = conns /\ PagesKept
    BY <1>5 DEF ExitPairing, stack, PagesKept
  <2> HIDE DEF b
  <2>3. CASE bp' = b
    BY <1>2, <2>1, <2>2, <2>3
  <2>4. CASE b.state \in Stable /\ bp' = StableNotPairing(b, links)
    <3>1. ~b.active.valid /\ search = {}
      BY <1>0, <2>1, <2>4 DEF InWork, SearchInv, Wanted, Stable
    <3>2. StableNotPairing(b, links).active = b.active
          /\ IdleAfter(b, StableNotPairing(b, links))
      BY <2>1, StableModesOK, StableIdle
    <3>3. InWork(StableNotPairing(b, links))
      BY <3>1, <3>2, IdleInWork
    <3>4. ~bp'.active.valid
      BY <2>1, <2>4, <3>1, <3>2
    <3> QED
      BY <1>3, <2>2, <2>4, <3>1, <3>3, <3>4
  <2> QED
    BY <2>2, <2>3, <2>4
<1>6. CASE DisconnectAll
  BY <1>2, <1>6 DEF DisconnectAll, PagesKept, Closed
<1>7. ASSUME NEW a \in Addrs, NEW P \in Plans, CreateConnection(a, P) PROVE FALSE
  BY <1>7 DEF CreateConnection, Admitted, NobodyRuns
<1>8. ASSUME NEW a \in Addrs, NEW P \in Plans, DefaultConnect(a, P) PROVE SearchInv'
  <2>1. SameWork(bp, bp') /\ InWork(bp')
    BY <1>0, <1>8, ConnectSameWork DEF DefaultConnect
  <2> QED
    BY <1>3, <1>8, <2>1 DEF DefaultConnect, stack, PagesKept
<1>9. ASSUME NEW a \in Addrs, NEW P \in Plans, Disconnect(a, P) PROVE SearchInv'
  <2>1. SameWork(bp, bp') /\ InWork(bp')
    BY <1>0, <1>9, DisconnectSameWork DEF Disconnect
  <2> QED
    BY <1>3, <1>9, <2>1 DEF Disconnect, DisconnectLink, PagesKept
<1> QED
  BY <1>4, <1>5, <1>6, <1>7, <1>8, <1>9 DEF Host

(* The events of the stack. *)
LEMMA SearchStack ==
    ASSUME TableInv, PolicyInv, SearchInv, StackEvent, NobodyRuns
    PROVE  SearchInv'
<1>0. PolicyOK(bp) /\ InWork(bp) /\ acl \in [Addrs -> AclStates]
  BY DEF PolicyInv, SearchInv, TableInv
<1>1. /\ "power_on" \in bp'.timers => Quiet' /\ bp'.state \in {"stop", "shutdown"}
      /\ bp'.state = "shutdown_step" => device' = "off_ing"
  BY PagesStack, StackWorks, QuietStack, FirstKept
<1>2. ASSUME InWork(bp'), SameWork(bp, bp') \/ (search' = {} /\ ~bp'.active.valid),
             search' \subseteq search, conns' \subseteq conns, PagesKept
      PROVE  SearchInv'
  <2>1. /\ search' \subseteq Wanted(bp')
        /\ search' = {} \/ conns' = {}
        /\ \A c, d \in conns' : c = d
        /\ ConnAwaited'
        /\ PagesSearch'
    BY <1>2, SearchKept
  <2> QED
    BY <1>1, <1>2, <2>1 DEF SearchInv
<1>3. CASE bp' = bp /\ search' \subseteq search /\ conns' \subseteq conns /\ PagesKept
  BY <1>0, <1>2, <1>3 DEF SameWork
<1>4. ASSUME NEW a \in Addrs, AclConnSuccess(a) PROVE SearchInv'
  <2>1. bp' = bp \/ \E v : bp' = DedicatedDisconnect(bp, v, Profs)
    BY <1>4 DEF AclConnSuccess
  <2>2. SameWork(bp, bp') /\ InWork(bp')
    BY <1>0, <2>1, DisconnectSameWork DEF SameWork
  <2>3. PagesKept
    BY <1>0, <1>4 DEF AclConnSuccess, DisconnectLink, PagesKept
  <2> QED
    BY <1>2, <1>4, <2>2, <2>3 DEF AclConnSuccess
<1>5. ASSUME NEW a \in Addrs, PageTimeout(a) PROVE SearchInv'
  <2> DEFINE q == InsertNormal(<<>>, a, lastPlan, FALSE)
             b == [bp EXCEPT !.todo = q]
             al == [acl EXCEPT ![a] = "down"]
  <2>1. /\ acl[a] = "paging" /\ a \notin closing
        /\ RunAndSearch(b, links, al, search \ {a})
        /\ closing' = closing \ {a} /\ conns' = conns
    BY <1>5 DEF PageTimeout, Admitted, NobodyRuns
  <2>2. /\ a \in search /\ a \in Wanted(bp)
        /\ bp.active.valid /\ bp.active.addr = a /\ bp.state = "linkback"
    BY <1>0, <2>1 DEF SearchInv, PagesSearch, Wanted, InWork
  <2>3. search \ {a} = {} /\ conns = {}
    BY <2>2 DEF SearchInv, Wanted
  <2>4. QueueOK(q)
    <3>1. QueueOK(<<>>) /\ lastPlan \in SUBSET Profs
      BY NodeNumAssumption DEF QueueOK, PolicyInv
    <3> QED
      BY <3>1, InsertNormalOK
  <2>5. \A x \in Addrs : al[x] = "paging" => x \in closing'
    BY <1>0, <2>1, <2>3 DEF SearchInv, PagesSearch
  <2> HIDE DEF q, al
  <2>6. PolicyOK(b) /\ b.state = "linkback"
    BY <1>0, <2>2, <2>4, FieldsOK
  <2> HIDE DEF b
  <2>7. InWork(bp') /\ search' \subseteq Wanted(bp') /\ PagesSearch'
    BY <2>1, <2>3, <2>5, <2>6, RunSearch
  <2> QED
    BY <1>1, <2>1, <2>3, <2>7 DEF SearchInv, ConnAwaited
<1>6. ASSUME NEW a \in Addrs, AclAuthenSuccess(a) PROVE SearchInv'
  <2>1. CASE bp.state \in Stable
    <3>1. /\ bp' = StableAgain(bp, links) /\ search' = search /\ conns' = conns
          /\ PagesKept
      BY <1>6, <2>1 DEF AclAuthenSuccess, PagesKept
    <3>2. ~bp.active.valid /\ search = {}
      BY <1>0, <2>1 DEF InWork, SearchInv, Wanted, Stable
    <3>3. InWork(bp')
      BY <1>0, <3>1, <3>2, StableModesOK, StableIdle, IdleInWork
    <3>4. ~bp'.active.valid
      BY <1>0, <3>1, <3>2, StableModesOK
    <3> QED
      BY <1>2, <3>1, <3>2, <3>3, <3>4
  <2>2. CASE bp.active.valid /\ TimeoutNow
    <3>1. SameWork(bp, bp') /\ InWork(bp')
      BY <1>0, <2>2, TimeoutSameWork DEF TimeoutNow
    <3>2. search' \subseteq search /\ conns' = conns /\ PagesKept
      BY <1>6, <2>2, TimeoutPagesKept DEF TimeoutNow, AclAuthenSuccess
    <3> QED
      BY <1>2, <3>1, <3>2
  <2> QED
    BY <1>3, <1>6, <2>1, <2>2 DEF AclAuthenSuccess, PagesKept
<1>7. ASSUME NEW a \in Addrs, SdpAttrInfo(a) PROVE SearchInv'
  <2>1. bp' = [bp EXCEPT !.active.sdpOk = TRUE]
    BY <1>7 DEF SdpAttrInfo
  <2>2. SameWork(bp, bp') /\ bp'.timers = bp.timers
    BY <1>0, <2>1 DEF SameWork, PolicyOK, Policy, ActiveNode
  <2>3. InWork(bp')
    BY <1>0, <2>2, SameWorkWanted
  <2> QED
    BY <1>2, <1>7, <2>2, <2>3 DEF SdpAttrInfo, stack, PagesKept
<1>8. ASSUME NEW a \in Addrs, SdpDiscovCmpl(a) PROVE SearchInv'
  <2>1. /\ a \in search /\ a \in Wanted(bp)
        /\ bp.active.valid /\ bp.active.addr = a /\ bp.state = "linkback"
    BY <1>0, <1>8 DEF SdpDiscovCmpl, SearchInv, Wanted, InWork
  <2>2. search \ {a} = {} /\ conns = {}
    BY <2>1 DEF SearchInv, Wanted
  <2>6. acl[a] = "up" /\ closing' = closing
    BY <1>8 DEF SdpDiscovCmpl
  <2>3. CASE bp' = bp /\ search' = search \ {a} /\ acl' = acl /\ conns' = conns
    <3>1. PagesKept
      BY <2>3, <2>6 DEF PagesKept
    <3> QED
      BY <1>3, <2>3, <3>1
  <2>4. CASE /\ bp' = bp /\ search' = search \ {a} /\ acl' = acl
             /\ conns' = conns \cup {<<bp.active.addr, bp.active.doing>>}
    <3>1. PagesSearch'
      BY <2>4, <2>6 DEF SearchInv, PagesSearch
    <3> QED
      BY <1>0, <1>1, <2>2, <2>4, <3>1 DEF SearchInv, ConnAwaited
  <2>5. CASE /\ RunAndSearch([bp EXCEPT !.active = StepFail(@)], links, acl,
                             search \ {a})
             /\ conns' = conns
    <3> DEFINE b == [bp EXCEPT !.active = StepFail(@)]
    <3>1. PolicyOK(b) /\ b.state = bp.state
      <4>1. ActiveOK(StepFail(bp.active))
        BY <1>0, PolicyParts, StepFailOK
      <4> QED
        BY <1>0, <4>1, FieldsOK
    <3> HIDE DEF b
    <3>2. RunAndSearch(b, links, acl, search \ {a})
      BY <2>5 DEF b
    <3>4. \A x \in Addrs : acl[x] = "paging" => x \in closing'
      BY <2>2, <2>6 DEF SearchInv, PagesSearch
    <3>3. InWork(bp') /\ search' \subseteq Wanted(bp') /\ PagesSearch'
      BY <2>1, <2>2, <3>1, <3>2, <3>4, RunSearch
    <3> QED
      BY <1>1, <2>2, <2>5, <3>3 DEF SearchInv, ConnAwaited
  <2> QED
    BY <1>8, <2>3, <2>4, <2>5 DEF SdpDiscovCmpl
<1>9. ASSUME NEW a \in Addrs, NEW p \in Profs, ProfConnCmpl(a, p) PROVE SearchInv'
  <2>1. conns' = conns \ {<<a, p>>}
    BY <1>9 DEF ProfConnCmpl
  <2>3. CASE a \in links.on /\ IsDoing(bp, a, p)
    <3>5. conns \subseteq {<<a, p>>} /\ search \subseteq {a}
      BY <2>3 DEF IsDoing, IsActive, SearchInv, ConnAwaited, Wanted
    <3>6. search = {}
      BY <1>9, <2>3, <3>5 DEF ProfConnCmpl, OpensItself, Admitted, NobodyRuns, SearchInv
    <3>7. conns' = {}
      BY <2>1, <3>5
    <3> DEFINE b == [bp EXCEPT !.active = StepSuc(@)]
    <3>1. PolicyOK(b) /\ b.state = "linkback"
      <4>1. ActiveOK(StepSuc(bp.active))
        BY <1>0, PolicyParts, StepSucOK
      <4>2. bp.state = "linkback"
        BY <1>0, <2>3 DEF IsDoing, IsActive, InWork
      <4> QED
        BY <1>0, <4>1, <4>2, FieldsOK
    <3> HIDE DEF b
    <3>2. RunAndSearch(b, links', acl, search)
      BY <1>9, <2>3 DEF ProfConnCmpl, b
    <3>4. \A x \in Addrs : acl[x] = "paging" => x \in closing'
      BY <1>9, <3>6 DEF SearchInv, PagesSearch, ProfConnCmpl
    <3>3. InWork(bp') /\ search' \subseteq Wanted(bp') /\ PagesSearch'
      BY <3>1, <3>2, <3>4, <3>6, RunSearch
    <3> QED
      BY <1>1, <3>3, <3>7 DEF SearchInv, ConnAwaited
  <2>4. CASE ~(a \in links.on /\ IsDoing(bp, a, p))
    BY <1>3, <1>9, <2>1, <2>4 DEF ProfConnCmpl, PagesKept
  <2> QED
    BY <2>3, <2>4
<1> QED
  <2>1. ASSUME NEW a \in Addrs,
               AclConnInd(a) \/ AclCancelled(a) \/ AclConnDisconn(a)
        PROVE  SearchInv'
    BY <1>0, <1>3, <2>1 DEF AclConnInd, AclCancelled, AclConnDisconn, PagesKept
  <2>2. ASSUME NEW a \in Addrs, NEW p \in Profs,
               ProfConnFail(a, p) \/ ProfDisconnCmpl(a, p)
        PROVE  SearchInv'
    BY <1>3, <2>2 DEF ProfConnFail, ProfDisconnCmpl, PagesKept
  <2> QED
    BY <1>4, <1>5, <1>6, <1>7, <1>8, <1>9, <2>1, <2>2 DEF StackEvent

(* A step that is none leaves the search as it is.                          *)
LEMMA SearchStep ==
    ASSUME TableInv, PolicyInv, SchedAhead, SleepInv, SearchInv, NobodyRuns, [Next]_vars
    PROVE  SearchInv'
<1>1. CASE UNCHANGED vars
  BY <1>1 DEF vars, stack, SearchInv, InWork, Wanted, Quiet, PagesSearch, ConnAwaited
<1>2. CASE Device
  BY <1>2, SearchDevice
<1>3. CASE Host
  BY <1>3, SearchHost
<1>4. CASE StackEvent
  BY <1>4, SearchStack
<1> QED
  BY <1>1, <1>2, <1>3, <1>4 DEF Next

(* A shutdown in steps is left only by its own timer and by the reset.      *)
LEMMA ShutdownStep ==
    ASSUME TableInv, PolicyInv, SleepInv, SearchInv, NobodyRuns, Next,
           bp.state = "shutdown_step"
    PROVE  bp'.state \in {"shutdown_step", "shutdown", "startup"}
<1>1. /\ device = "off_ing" /\ ~bp.active.valid /\ search = {}
      /\ "linkback" \notin bp.timers /\ "power_on" \notin bp.timers
  BY DEF SearchInv, InWork, Wanted
<1>2. CASE StepTimeout
  <2>1. [bp EXCEPT !.timers = @ \ {"step"}].state = bp.state
    OBVIOUS
  <2> QED
    BY <1>2, <2>1, EnteredState
       DEF StepTimeout, StepIgnored, WaitForProfiles, CloseLinks, WaitForLinks
<1>3. CASE Reboot
  BY <1>3 DEF Reboot, BootPolicy
<1>4. CASE StackEvent
  <2>1. CASE bp' = bp
    BY <2>1
  <2>2. ASSUME NEW a \in Addrs, AclConnSuccess(a) PROVE bp'.state = bp.state
    BY <2>2, DisconnectPairs DEF AclConnSuccess
  <2>3. ASSUME NEW a \in Addrs, PageTimeout(a) PROVE FALSE
    BY <1>1, <2>3 DEF PageTimeout, Admitted, NobodyRuns, SearchInv, PagesSearch
  <2>4. ASSUME NEW a \in Addrs, AclAuthenSuccess(a) PROVE bp' = bp
    BY <2>4 DEF AclAuthenSuccess, Stable
  <2>5. ASSUME NEW a \in Addrs, SdpAttrInfo(a) \/ SdpDiscovCmpl(a) PROVE FALSE
    BY <1>1, <2>5 DEF SdpAttrInfo, SdpDiscovCmpl
  <2>6. ASSUME NEW a \in Addrs, NEW p \in Profs, ProfConnCmpl(a, p) PROVE bp' = bp
    BY <1>1, <2>6 DEF ProfConnCmpl, IsDoing, IsActive
  <2> QED
    BY <1>4, <2>1, <2>2, <2>3, <2>4, <2>5, <2>6
       DEF StackEvent, AclConnInd, AclCancelled, AclConnDisconn, ProfConnFail,
           ProfDisconnCmpl
<1> QED
  BY <1>1, <1>2, <1>3, <1>4
     DEF Next, Device, PowerOn, PowerOff, PowerOnTimeout, LinkbackTimeout, Host,
         EnterPairing, ExitPairing, DisconnectAll, CreateConnection, DefaultConnect,
         Disconnect

(* While nothing runs linkback from outside, the searches of the stack and  *)
(* the node in work end together, whatever timers, commands and events come *)
(* in whatever order.                                                       *)
THEOREM SearchInductive ==
    ASSUME NobodyRuns
    PROVE  Spec => [](TableInv /\ PolicyInv /\ SchedAhead /\ SleepInv /\ SearchInv)
<1>1. Init => SleepInv /\ SearchInv
  BY SleepInit, SearchInit
<1>2. TableInv /\ PolicyInv /\ SchedAhead /\ SleepInv /\ SearchInv /\ [Next]_vars
         => SleepInv' /\ SearchInv'
  BY SleepStep, SearchStep DEF NobodyRuns
<1> QED
  BY <1>1, <1>2, PolicyInductive, SchedOnce, PTL DEF Spec

(* The stack never searches a device other than the one in work, so that no *)
(* result is taken for another device's, although devices may open any      *)
(* profile themselves but the one just found for them.                      *)
THEOREM SearchIsOfNode ==
    ASSUME NobodyRuns
    PROVE  Spec => []OneSearch
<1>1. SearchInv => OneSearch
  BY DEF SearchInv, OneSearch
<1> QED
  BY <1>1, SearchInductive, PTL

(* Once the shutdown steps began they end in SHUTDOWN or the reset of the   *)
(* chip: no event that is still under way takes the policy back to work,    *)
(* and no profile that a device opens then.                                 *)
THEOREM ShutdownGoesOn ==
    ASSUME NobodyRuns
    PROVE  Spec => ShutdownRunsOut
<1>1. /\ TableInv /\ PolicyInv /\ SleepInv /\ SearchInv
      /\ [Next]_vars
      => [bp.state = "shutdown_step"
            => bp'.state \in {"shutdown_step", "shutdown", "startup"}]_vars
  BY ShutdownStep
<1> QED
  BY <1>1, SearchInductive, PTL DEF Spec, ShutdownRunsOut

-----------------------------------------------------------------------------
(***************************************************************************)
(* The idle states.  A stable state has nothing queued, because linkback    *)
(* enters it at the end of its queue only.  Its loop ends early at a node   *)
(* without profiles, and such a node would leave the rest of the queue      *)
(* behind: none is there as long as every bond has a profile to connect     *)
(* (each bond has where link_scenario is the last device's: the flags of    *)
(* HFP, HSP and A2DP that linkback_load_bond_list looks for all give some   *)
(* there), the host connects nothing by itself, and what takes profiles out *)
(* of queued nodes comes in stable states, so that no device over the limit *)
(* meets a queue.                                                           *)
(***************************************************************************)
NobodyQueues ==
    /\ NobodyRuns
    /\ "connect" \notin Inputs
    /\ {"incoming", "pairing", "disconnect", "partial"} \cap Inputs \subseteq StableOnly
    /\ \A i \in DOMAIN Bonds : Bonds[i].profs # {}

(* During linkback only the node in work is paged, and it has its place.    *)
Roomy ==
    bp.state = "linkback" =>
       /\ \A a \in Addrs : /\ acl[a] # "incoming"
                           /\ acl[a] = "paging" => a \in Wanted(bp)
       /\ ~Over(links)
       /\ bp.active.valid /\ bp.active.addr \notin links.on => ~Full(links)

PlanInv ==
    /\ PlanOK(bp)
    /\ "power_on" \in bp.timers => bp.todo = <<>>
    /\ Roomy

(* The queue of linkback_load_bond_list has work at every node.             *)
LEMMA BondsPlanned ==
    ASSUME NobodyQueues
    PROVE  Planned(BondQueue)
<1>1. Len(BondQueue) \in Nat /\ DOMAIN BondQueue = 1..Len(BondQueue)
  BY BondQueueOK DEF QueueOK
<1>2. DOMAIN BondQueue = DOMAIN Bonds
  BY DEF BondQueue
<1>3. \A i \in DOMAIN Bonds : BondQueue[i].profs = Bonds[i].profs /\ ~BondQueue[i].force
  BY DEF BondQueue
<1> QED
  BY <1>1, <1>2, <1>3 DEF Planned, NobodyQueues

(* Nothing can be taken out of an empty queue.                              *)
LEMMA EmptyQueue ==
    /\ QueueOK(<<>>) /\ Planned(<<>>)
    /\ \A a, P : RemoveProfs(<<>>, a, P) = <<>>
BY NodeNumAssumption DEF QueueOK, Planned, RemoveProfs

(* A device whose page timed out is queued alone.                           *)
LEMMA AlonePlanned ==
    ASSUME NEW a \in Addrs, NEW P \in SUBSET Profs
    PROVE  Planned(InsertNormal(<<>>, a, P, FALSE))
<1> DEFINE n == [addr |-> a, profs |-> P, force |-> FALSE, member |-> FALSE]
           w == Append(<<>>, n)
<1>1. InsertNormal(<<>>, a, P, FALSE) = w
  <2>1. ~HasAddr(<<>>, a)
    BY DEF HasAddr
  <2>2. Len(<<>>) < NodeNum
    BY NodeNumAssumption
  <2> QED
    BY <2>1, <2>2, Zenon DEF InsertNormal
<1>2. n \in Node /\ ~n.force
  BY DEF Node
<1> HIDE DEF n
<1>3. Len(w) = 1 /\ w[1] = n
  BY <1>2
<1> HIDE DEF w
<1>4. Planned(w)
  BY <1>2, <1>3 DEF Planned
<1> QED
  BY <1>1, <1>4

(* The same node is in work, with the queue or the part of it that stays.   *)
PlanKept(b, c) ==
    /\ c.state = b.state
    /\ c.active.valid = b.active.valid
    /\ c.active.addr = b.active.addr
    /\ c.active.force = b.active.force
    /\ Planned(b.todo) => Planned(c.todo)
    /\ b.todo = <<>> => c.todo = <<>>
    /\ "power_on" \in c.timers => "power_on" \in b.timers

(* Keeping the node and a part of its queue keeps the plan.                 *)
LEMMA KeptPlan ==
    ASSUME NEW b, NEW c, PlanKept(b, c)
    PROVE  PlanOK(b) => PlanOK(c)
BY DEF PlanKept, PlanOK

(* Deleting the members of a group keeps the plan.                          *)
LEMMA DeletedPlanned ==
    ASSUME NEW q, QueueOK(q), Planned(q)
    PROVE  Planned(DeleteGroup(q))
<1>1. /\ QueueOK(DeleteGroup(q)) /\ Len(DeleteGroup(q)) <= Len(q)
      /\ \A k \in 1..Len(DeleteGroup(q)) : \E i \in 1..Len(q) : DeleteGroup(q)[k] = q[i]
  BY DeleteGroupOK
<1>2. Len(q) \in Nat /\ Len(DeleteGroup(q)) \in Nat
  BY <1>1 DEF QueueOK
<1>3. Len(DeleteGroup(q)) > 1 => Len(q) > 1
  BY <1>1, <1>2
<1> QED
  BY <1>1, <1>3 DEF Planned

(* After a page timeout of the node in work the plan is that device alone.  *)
LEMMA TimeoutPlan ==
    ASSUME NEW b, PolicyOK(b), InWork(b), b.active.valid, NEW l
    PROVE  PlanOK(b) => PlanOK(ConnTimeout(b, l))
<1> DEFINE tm == b.timers \ {"linkback"}
           q == IF b.active.valid /\ b.active.member THEN DeleteGroup(b.todo) ELSE b.todo
           t == [b EXCEPT !.timers = tm, !.todo = q]
<1>1. t.todo = q /\ t.state = b.state /\ t.active = b.active
  BY DEF PolicyOK, Policy
<1>2. ConnTimeout(b, l) = t \/ ConnTimeout(b, l) = [t EXCEPT !.active.plan = {}]
  BY Zenon DEF ConnTimeout, InWork
<1>3. b.state = "linkback" /\ QueueOK(b.todo)
  BY PolicyParts DEF InWork
<1>4. Planned(b.todo) => Planned(q)
  BY <1>3, DeletedPlanned
<1>5. DOMAIN t = DOMAIN b /\ "active" \in DOMAIN b
  BY DEF PolicyOK, Policy
<1> HIDE DEF t, q
<1>6. /\ [t EXCEPT !.active.plan = {}].todo = t.todo
      /\ [t EXCEPT !.active.plan = {}].state = t.state
      /\ [t EXCEPT !.active.plan = {}].active = [t.active EXCEPT !.plan = {}]
      /\ [t.active EXCEPT !.plan = {}].valid = t.active.valid
      /\ [t.active EXCEPT !.plan = {}].force = t.active.force
  BY <1>5
<1> QED
  BY <1>1, <1>2, <1>3, <1>4, <1>6 DEF PlanOK, Stable

(* A handler that starts no page, adds no link and leaves the node in work. *)
LEMMA RoomyKept ==
    ASSUME Roomy, SameWork(bp, bp') \/ bp'.state # "linkback",
           \A a \in Addrs : acl'[a] \in {"paging", "incoming"} => acl'[a] = acl[a],
           links'.on = links.on /\ links'.num = links.num
    PROVE  Roomy'
BY SameWorkWanted DEF Roomy, SameWork, Over, Full

(* A run of linkback while nobody is paged.                                 *)
LEMMA PlanRun ==
    ASSUME NEW b, PolicyOK(b), b.state = "linkback", PlanOK(b), NEW al, NEW sr,
           RunAndSearch(b, links', al, sr), ~Over(links'),
           \A a \in Addrs : al[a] \notin {"paging", "incoming"}
    PROVE  PlanOK(bp') /\ Roomy'
<1>1. PlanOK(bp') /\ RunsOn(bp', links')
  BY RunOK DEF RunAndSearch
<1>2. acl' = Paged(al, Wanted(bp'))
  BY DEF RunAndSearch
<1>3. \A a \in Addrs : acl'[a] # "incoming" /\ (acl'[a] = "paging" => a \in Wanted(bp'))
  BY <1>2 DEF Paged
<1>4. /\ bp'.state = "linkback" /\ bp'.active.valid /\ bp'.active.addr \notin links'.on
      => ~Full(links')
  BY <1>1 DEF PlanOK, RunsOn
<1> QED
  BY <1>1, <1>3, <1>4 DEF Roomy

(* The actions. *)

(* Nothing is queued at the start.                                          *)
LEMMA PlanInit == Init => PlanInv
BY DEF Init, BootPolicy, PlanInv, PlanOK, Stable, Roomy

(* Timeouts leave the plans of the node in work and of the queue in order.  *)
LEMMA PlanTimeout ==
    ASSUME PolicyInv, SearchInv, PlanInv, ~Quiet, TimeoutNow, bp.active.valid, links' = links
    PROVE  PlanInv'
<1>1. PolicyOK(bp) /\ InWork(bp) /\ "power_on" \notin bp.timers
  BY DEF PolicyInv, SearchInv
<1>2. bp' = ConnTimeout(bp, links) /\ acl' = acl
  BY DEF TimeoutNow
<1>3. /\ SameWork(bp, bp') /\ bp'.timers \subseteq bp.timers
  BY <1>1, <1>2, TimeoutSameWork
<1>4. PlanOK(bp')
  BY <1>1, <1>2, TimeoutPlan DEF PlanInv
<1>5. Roomy'
  BY <1>2, <1>3, RoomyKept DEF PlanInv
<1> QED
  BY <1>1, <1>3, <1>4, <1>5 DEF PlanInv

(* The steps of the device leave no queue behind.                           *)
LEMMA PlanDevice ==
    ASSUME TableInv, PolicyInv, SchedAhead, SleepInv, SearchInv, PlanInv, NobodyQueues,
           Device
    PROVE  PlanInv'
<1>0. PolicyOK(bp) /\ InWork(bp)
  BY DEF PolicyInv, SearchInv
<1>1. CASE PowerOn
  <2>1. bp' = [BootPolicy EXCEPT !.state = "stop", !.timers = {"power_on"}]
    BY <1>1 DEF PowerOn
  <2>2. bp'.state = "stop" /\ bp'.todo = <<>>
    BY <2>1 DEF BootPolicy
  <2> QED
    BY <2>2 DEF PlanInv, PlanOK, Stable, Roomy
<1>2. CASE PowerOff
  <2>1. PICK left \in BOOLEAN :
           LET b == StopAll(bp, left)
           IN  bp' = IF links.num = 0 THEN EnterState(b, "shutdown", "idle")
                     ELSE EnterState([b EXCEPT !.timers = @ \cup {"step"}],
                                     "shutdown_step", "idle")
    BY <1>2 DEF PowerOff
  <2> DEFINE b == StopAll(bp, left)
  <2>2. \/ links.num = 0 /\ bp' = EnterState(b, "shutdown", "idle")
        \/ links.num # 0 /\ bp'.state = "shutdown_step"
    BY <2>1, EnteredState
  <2>3. PolicyOK(b) /\ b.timers = bp.timers \ {"linkback"}
    BY <1>0, StopAllOK, StopAllIdle
  <2>4. ASSUME "power_on" \in bp.timers PROVE b.todo = <<>>
    <3>1. ~bp.active.valid /\ bp.todo = <<>>
      BY <1>0, <2>4 DEF SearchInv, InWork, PlanInv
    <3>2. b = [bp EXCEPT !.timers = @ \ {"linkback"}]
      BY <3>1 DEF StopAll
    <3>3. b.todo = bp.todo
      BY <3>2
    <3> QED
      BY <3>1, <3>3
  <2> HIDE DEF b
  <2>5. /\ EnterState(b, "shutdown", "idle").timers = b.timers
        /\ EnterState(b, "shutdown", "idle").todo = b.todo
        /\ EnterState(b, "shutdown", "idle").state = "shutdown"
    BY <2>3 DEF EnterState, PolicyOK, Policy
  <2>6. SearchInv'
    BY <1>2, SearchDevice DEF Device
  <2>7. "power_on" \in bp'.timers => bp'.state = "shutdown"
    BY <2>2, <2>5, <2>6 DEF SearchInv
  <2> QED
    BY <2>2, <2>3, <2>4, <2>5, <2>7 DEF PlanInv, PlanOK, Stable, Roomy
<1>3. CASE StepTimeout
  <2> DEFINE t == [bp EXCEPT !.timers = @ \ {"step"}]
  <2>1. /\ t.active = bp.active /\ t.timers \subseteq bp.timers /\ t.state = bp.state
        /\ t.todo = bp.todo
    BY <1>0 DEF PolicyOK, Policy
  <2>2. \/ bp' = bp
        \/ bp' = t
        \/ bp' = EnterState(t, "shutdown", "idle") /\ bp.state = "shutdown_step"
    BY <1>3 DEF StepTimeout, StepIgnored, WaitForProfiles, CloseLinks, WaitForLinks
  <2>3. /\ EnterState(t, "shutdown", "idle").active = t.active
        /\ EnterState(t, "shutdown", "idle").todo = t.todo
        /\ EnterState(t, "shutdown", "idle").timers = t.timers
        /\ EnterState(t, "shutdown", "idle").state = "shutdown"
    BY <1>0 DEF EnterState, PolicyOK, Policy
  <2> HIDE DEF t
  <2>4. /\ bp'.todo = bp.todo /\ bp'.active = bp.active /\ bp'.timers \subseteq bp.timers
        /\ bp'.state = bp.state \/ bp'.state = "shutdown"
    BY <2>1, <2>2, <2>3
  <2>5. PlanOK(bp')
    BY <2>4 DEF PlanInv, PlanOK, Stable
  <2>6. Roomy'
    BY <1>3, <2>4, RoomyKept DEF PlanInv, StepTimeout, SameWork
  <2> QED
    BY <2>4, <2>5, <2>6 DEF PlanInv
<1>4. CASE Reboot
  BY <1>4 DEF Reboot, BootPolicy, PlanInv, PlanOK, Stable, Roomy
<1>5. CASE PowerOnTimeout
  <2> DEFINE b == [bp EXCEPT !.timers = @ \ {"power_on"}, !.linkbackFlag = FALSE,
                             !.enterPairing = FALSE]
  <2>1. Quiet /\ bp.state \in {"stop", "shutdown"} /\ bp.todo = <<>>
    BY <1>5 DEF PowerOnTimeout, SearchInv, PlanInv
  <2>2. /\ b.timers = bp.timers \ {"power_on"} /\ b.state = bp.state
        /\ b.active = bp.active /\ b.todo = bp.todo
    BY <1>0 DEF PolicyOK, Policy
  <2>3. PolicyOK(b)
    BY <1>0 DEF PolicyOK, Policy
  <2>4. \/ PreparePairing(b, search, closing) /\ acl' = acl
        \/ /\ bp' = LinkbackSched(b, links)
           /\ acl' = Paged(acl, Wanted(LinkbackSched(b, links)))
           /\ links' = links
    BY <1>5 DEF PowerOnTimeout
  <2> HIDE DEF b
  <2>5. /\ b.timers = {} /\ ~b.active.valid /\ b.state # "linkback" /\ b.todo = <<>>
    BY <1>0, <2>1, <2>2 DEF Quiet, InWork
  <2>6. ~Full(links) /\ ~Over(links)
    BY <2>1, EmptyIsNotFull, MaxLinksAssumption DEF Quiet, NoLinks, Over
  <2>7. CASE PreparePairing(b, search, closing) /\ acl' = acl
    <3>1. bp' = [StablePairing(b) EXCEPT !.forced = FALSE]
      BY <2>6, <2>7 DEF PreparePairing
    <3>2. IdleAfter(b, StablePairing(b))
      BY <2>3, StableIdle
    <3>3. /\ bp'.state = StablePairing(b).state /\ bp'.todo = StablePairing(b).todo
          /\ bp'.timers = StablePairing(b).timers
      BY <3>1
    <3>4. bp'.state \in Stable /\ bp'.todo = <<>> /\ bp'.timers = {}
      BY <2>5, <3>2, <3>3 DEF IdleAfter
    <3> QED
      BY <3>4 DEF PlanInv, PlanOK, Stable, Roomy
  <2>8. CASE /\ bp' = LinkbackSched(b, links)
             /\ acl' = Paged(acl, Wanted(LinkbackSched(b, links)))
             /\ links' = links
    <3>1. PlanOK(bp') /\ "power_on" \notin bp'.timers
      BY <2>3, <2>5, <2>8, SchedOK, BondsPlanned
    <3>2. acl' = Paged(acl, Wanted(bp'))
      BY <2>8
    <3>3. \A a \in Addrs : acl'[a] # "incoming" /\ (acl'[a] = "paging" => a \in Wanted(bp'))
      BY <2>1, <3>2 DEF Paged, Quiet
    <3> QED
      BY <2>6, <2>8, <3>1, <3>3 DEF PlanInv, Roomy
  <2> QED
    BY <2>4, <2>7, <2>8
<1>6. CASE LinkbackTimeout
  <2>1. bp.active.valid /\ ~Quiet
    BY <1>0, <1>6 DEF LinkbackTimeout, InWork, Quiet
  <2> QED
    BY <1>6, <2>1, PlanTimeout DEF LinkbackTimeout
<1> QED
  BY <1>1, <1>2, <1>3, <1>4, <1>5, <1>6 DEF Device

(* With nothing queued a request to disconnect has nothing to take back.    *)
LEMMA DisconnectEmpty ==
    ASSUME NEW b, PolicyOK(b), b.todo = <<>>, NEW a, NEW P
    PROVE  DedicatedDisconnect(b, a, P).todo = <<>>
<1>1. DedicatedDisconnect(b, a, P).todo = RemoveProfs(b.todo, a, P)
  BY DEF DedicatedDisconnect, PolicyOK, Policy
<1> QED
  BY <1>1, EmptyQueue

(* The commands of the host leave no queue behind.                          *)
LEMMA PlanHost ==
    ASSUME TableInv, PolicyInv, SearchInv, PlanInv, NobodyQueues, Host
    PROVE  PlanInv'
<1>0. PolicyOK(bp) /\ Later(bp, bp')
  BY PagesHost DEF PolicyInv
<1>1. ASSUME bp.state \in Stable, bp'.todo = <<>> PROVE PlanInv'
  BY <1>0, <1>1 DEF PlanInv, PlanOK, Roomy, Later, Stable, SearchInv
<1>2. bp.state \in Stable => bp.todo = <<>>
  BY DEF PlanInv, PlanOK
<1>3. \A i \in {"incoming", "pairing", "disconnect", "partial"} :
         Admitted(i) => bp.state \in Stable
  BY DEF Admitted, NobodyQueues
<1>4. CASE EnterPairing
  <2>1. bp.state \in Stable
    BY <1>3, <1>4 DEF EnterPairing
  <2>2. PICK force \in BOOLEAN :
           LET b == [bp EXCEPT !.forced = force]
           IN  bp' = b \/ PreparePairing(b, search, closing)
    BY <1>4, <2>1 DEF EnterPairing, Stable
  <2> DEFINE b == [bp EXCEPT !.forced = force]
  <2>3. PolicyOK(b) /\ b.todo = bp.todo
    <3>1. PolicyOK(b)
      BY <1>0, FieldsOK
    <3> QED
      BY <1>0, <3>1 DEF PolicyOK, Policy
  <2>4. bp' = b \/ PreparePairing(b, search, closing)
    BY <2>2
  <2> HIDE DEF b
  <2>5. b.todo = <<>>
    BY <1>2, <2>1, <2>3
  <2>6. CASE PreparePairing(b, search, closing)
    <3>1. ASSUME NEW c, c.todo = <<>>, bp' = [c EXCEPT !.forced = FALSE]
          PROVE  bp'.todo = <<>>
      BY <3>1
    <3>2. StablePairing(b).todo = <<>>
      BY <2>3, <2>5, StableIdle DEF IdleAfter
    <3>3. \A v : DedicatedDisconnect(b, v, Profs).todo = <<>>
      BY <2>3, <2>5, DisconnectEmpty
    <3>4. bp'.todo = <<>>
      BY <2>5, <2>6, <3>1, <3>2, <3>3 DEF PreparePairing
    <3> QED
      BY <1>1, <2>1, <3>4
  <2> QED
    BY <1>1, <2>1, <2>4, <2>5, <2>6
<1>5. CASE ExitPairing
  <2> DEFINE b == [bp EXCEPT !.enterPairing = FALSE]
  <2>1. PolicyOK(b) /\ b.todo = bp.todo
    <3>1. PolicyOK(b)
      BY <1>0, FieldsOK
    <3> QED
      BY <1>0, <3>1 DEF PolicyOK, Policy
  <2>2. bp.state \in Stable
    BY <1>3, <1>5 DEF ExitPairing
  <2>3. bp' = b \/ bp' = StableNotPairing(b, links)
    BY <1>5 DEF ExitPairing
  <2> HIDE DEF b
  <2>4. bp'.todo = <<>>
    BY <1>2, <2>1, <2>2, <2>3, StableIdle DEF IdleAfter
  <2> QED
    BY <1>1, <2>2, <2>4
<1>6. CASE DisconnectAll
  <2>1. bp' = bp /\ acl' = acl /\ links' = links
    BY <1>6 DEF DisconnectAll
  <2> QED
    BY <2>1 DEF PlanInv, Roomy
<1>7. ASSUME NEW a \in Addrs, NEW P \in Plans,
             CreateConnection(a, P) \/ DefaultConnect(a, P)
      PROVE  FALSE
  BY <1>7 DEF CreateConnection, DefaultConnect, Admitted, NobodyQueues, NobodyRuns
<1>8. ASSUME NEW a \in Addrs, NEW P \in Plans, Disconnect(a, P) PROVE PlanInv'
  <2>1. bp.state \in Stable /\ bp' = DedicatedDisconnect(bp, a, P)
    BY <1>3, <1>8 DEF Disconnect
  <2>2. bp'.todo = <<>>
    BY <1>0, <1>2, <2>1, DisconnectEmpty
  <2> QED
    BY <1>1, <2>1, <2>2
<1> QED
  BY <1>4, <1>5, <1>6, <1>7, <1>8 DEF Host

(* The events of the stack leave no queue behind.                           *)
LEMMA PlanStack ==
    ASSUME TableInv, PolicyInv, SearchInv, PlanInv, NobodyQueues, StackEvent
    PROVE  PlanInv'
<1>0. /\ PolicyOK(bp) /\ InWork(bp) /\ acl \in [Addrs -> AclStates] /\ links \in LinkTable
      /\ "power_on" \notin bp.timers /\ "power_on" \notin bp'.timers /\ ~Quiet
      /\ \A a \in Addrs : a \in links.on => acl[a] = "up"
  <2>1. ~Quiet /\ Later(bp, bp')
    BY QuietStack, PagesStack
  <2> QED
    BY <2>1 DEF PolicyInv, SearchInv, TableInv, LinkTableInv, Later
<1>1. CASE bp' = bp /\ Roomy'
  BY <1>1 DEF PlanInv
<1>2. ASSUME bp' = bp, \A a \in Addrs : acl'[a] \in {"paging", "incoming"} => acl'[a] = acl[a],
             links'.on = links.on /\ links'.num = links.num
      PROVE  PlanInv'
  <2>1. Roomy'
    BY <1>2, RoomyKept DEF PlanInv, SameWork
  <2> QED
    BY <1>1, <1>2, <2>1
<1>3. ASSUME NEW a \in Addrs, AclConnInd(a) PROVE PlanInv'
  <2>1. bp.state \in Stable
    BY <1>3 DEF AclConnInd, Admitted, NobodyQueues
  <2>2. bp' = bp
    BY <1>3 DEF AclConnInd
  <2>3. Roomy'
    BY <2>1, <2>2 DEF Roomy, Stable
  <2> QED
    BY <1>1, <2>2, <2>3
<1>4. ASSUME NEW a \in Addrs, AclConnSuccess(a) PROVE PlanInv'
  <2>1. acl[a] \in {"paging", "incoming"} /\ acl' = [acl EXCEPT ![a] = "up"]
    BY <1>4 DEF AclConnSuccess
  <2>2. CASE bp.state = "linkback"
    <3>1. bp.active.valid /\ bp.active.addr = a /\ ~Full(links) /\ ~Over(links)
      BY <1>0, <2>1, <2>2 DEF PlanInv, Roomy, Wanted
    <3>2. links.num \in Nat /\ MaxLinks \in Nat
      BY <1>0, LinkNumAssumption, MaxLinksAssumption DEF LinkTable
    <3>3. \/ /\ Added(a).on = links.on \cup {a} /\ Added(a).num = links.num + 1
          \/ Added(a) = links
      BY <1>0 DEF Added, LinkTable
    <3>4. ~Over(Added(a))
      BY <3>1, <3>2, <3>3 DEF Over, Full
    <3>5. links' = Added(a) /\ bp' = bp
      BY <1>4, <3>4 DEF AclConnSuccess
    <3>6. Roomy'
      BY <1>0, <2>1, <2>2, <3>1, <3>3, <3>4, <3>5 DEF PlanInv, Roomy
    <3> QED
      BY <1>1, <3>5, <3>6
  <2>3. CASE bp.state # "linkback"
    <3>1. CASE bp' = bp
      BY <1>1, <2>3, <3>1 DEF Roomy
    <3>2. ASSUME NEW v, bp' = DedicatedDisconnect(bp, v, Profs) PROVE PlanInv'
      <4>1. bp'.state = bp.state
        BY <3>2, DisconnectPairs
      <4>2. bp.todo = <<>> => bp'.todo = <<>>
        BY <1>0, <3>2, DisconnectEmpty
      <4> QED
        BY <1>0, <2>3, <4>1, <4>2 DEF PlanInv, PlanOK, Roomy
    <3> QED
      BY <1>4, <3>1, <3>2 DEF AclConnSuccess
  <2> QED
    BY <2>2, <2>3
<1>5. ASSUME NEW a \in Addrs, PageTimeout(a) PROVE PlanInv'
  <2> DEFINE q == InsertNormal(<<>>, a, lastPlan, FALSE)
             b == [bp EXCEPT !.todo = q]
             al == [acl EXCEPT ![a] = "down"]
  <2>1. /\ acl[a] = "paging" /\ a \notin closing
        /\ RunAndSearch(b, links, al, search \ {a}) /\ links' = links
    BY <1>5 DEF PageTimeout, Admitted, NobodyQueues, NobodyRuns
  <2>2. bp.active.valid /\ bp.active.addr = a /\ bp.state = "linkback"
    BY <1>0, <2>1 DEF SearchInv, PagesSearch, Wanted, InWork
  <2>3. lastPlan \in SUBSET Profs
    BY DEF PolicyInv
  <2>4. QueueOK(q) /\ Planned(q)
    BY <2>3, EmptyQueue, InsertNormalOK, AlonePlanned
  <2>5. ~Over(links) /\ \A x \in Addrs : al[x] \notin {"paging", "incoming"}
    BY <1>0, <2>2 DEF PlanInv, Roomy, Wanted
  <2> HIDE DEF q, al
  <2>6. PolicyOK(b) /\ b.state = "linkback" /\ b.todo = q /\ b.active = bp.active
    <3>1. PolicyOK(b)
      BY <1>0, <2>4, FieldsOK
    <3> QED
      BY <1>0, <2>2, <3>1 DEF PolicyOK, Policy
  <2> HIDE DEF b
  <2>7. PlanOK(b)
    BY <2>2, <2>4, <2>6 DEF PlanInv, PlanOK, Stable
  <2>8. RunAndSearch(b, links', al, search \ {a}) /\ ~Over(links')
    BY <2>1, <2>5
  <2>9. PlanOK(bp') /\ Roomy'
    BY <2>5, <2>6, <2>7, <2>8, PlanRun
  <2> QED
    BY <1>0, <2>9 DEF PlanInv
<1>6. ASSUME NEW a \in Addrs, AclCancelled(a) PROVE PlanInv'
  BY <1>0, <1>2, <1>6 DEF AclCancelled
<1>7. ASSUME NEW a \in Addrs, AclAuthenSuccess(a) PROVE PlanInv'
  <2>1. CASE bp.state \in Stable
    <3>1. bp' = StableAgain(bp, links)
      BY <1>7, <2>1 DEF AclAuthenSuccess
    <3>2. bp'.state \in Stable /\ bp'.todo = bp.todo
      BY <1>0, <3>1, StableIdle DEF IdleAfter
    <3> QED
      BY <1>0, <2>1, <3>2 DEF PlanInv, PlanOK, Roomy, Stable
  <2>2. CASE bp.active.valid /\ TimeoutNow
    BY <1>0, <1>7, <2>2, PlanTimeout DEF AclAuthenSuccess
  <2> QED
    BY <1>2, <1>7, <2>1, <2>2 DEF AclAuthenSuccess
<1>8. ASSUME NEW a \in Addrs, AclConnDisconn(a) PROVE PlanInv'
  <2>1. bp' = bp /\ acl' = [acl EXCEPT ![a] = "down"] /\ links' = Deleted(a)
    BY <1>8 DEF AclConnDisconn
  <2>2. links.num \in Nat /\ MaxLinks \in Nat \ {0}
    BY <1>0, LinkNumAssumption, MaxLinksAssumption DEF LinkTable
  <2>3. \/ Deleted(a) = links
        \/ /\ Deleted(a).on = links.on \ {a}
           /\ Deleted(a).num = IF links.num > 0 THEN links.num - 1 ELSE 0
    BY DEF Deleted
  <2>4. ASSUME bp.state = "linkback" PROVE Roomy'
    <3>1. ~Over(links)
      BY <2>4 DEF PlanInv, Roomy
    <3>2. ~Over(links') /\ (~Full(links') \/ links' = links)
      BY <2>1, <2>2, <2>3, <3>1 DEF Over, Full
    <3>3. \A x \in Addrs : acl'[x] \in {"paging", "incoming"} => acl'[x] = acl[x]
      BY <1>0, <2>1
    <3> QED
      BY <2>1, <2>4, <3>2, <3>3 DEF PlanInv, Roomy, Wanted
  <2>5. bp.state # "linkback" => Roomy'
    BY <2>1 DEF Roomy
  <2> QED
    BY <1>1, <2>1, <2>4, <2>5
<1>9. ASSUME NEW a \in Addrs, SdpAttrInfo(a) PROVE PlanInv'
  <2>1. bp' = [bp EXCEPT !.active.sdpOk = TRUE] /\ acl' = acl /\ links' = links
    BY <1>9 DEF SdpAttrInfo, stack
  <2>2. /\ SameWork(bp, bp') /\ bp'.timers = bp.timers /\ bp'.todo = bp.todo
        /\ bp'.active.force = bp.active.force
    BY <1>0, <2>1 DEF SameWork, PolicyOK, Policy, ActiveNode
  <2>3. PlanOK(bp')
    BY <2>2 DEF PlanInv, PlanOK, SameWork
  <2>4. Roomy'
    BY <2>1, <2>2, RoomyKept DEF PlanInv
  <2> QED
    BY <1>0, <2>3, <2>4 DEF PlanInv
<1>10. ASSUME NEW act, ActiveOK(act), act.valid = bp.active.valid,
              act.force = bp.active.force, NEW sr,
              RunAndSearch([bp EXCEPT !.active = act], links', acl, sr),
              links'.num = links.num,
              bp.active.valid, acl[bp.active.addr] = "up"
       PROVE  PlanInv'
  <2> DEFINE b == [bp EXCEPT !.active = act]
  <2>1. PolicyOK(b) /\ b.state = bp.state /\ b.todo = bp.todo /\ b.active = act
    <3>1. PolicyOK(b)
      BY <1>0, <1>10, FieldsOK
    <3> QED
      BY <1>0, <3>1 DEF PolicyOK, Policy
  <2>2. RunAndSearch(b, links', acl, sr)
    BY <1>10
  <2> HIDE DEF b
  <2>3. bp.state = "linkback"
    BY <1>0, <1>10 DEF InWork
  <2>4. PlanOK(b)
    BY <1>10, <2>1 DEF PlanInv, PlanOK
  <2>5. ~Over(links') /\ \A x \in Addrs : acl[x] \notin {"paging", "incoming"}
    BY <1>10, <2>3 DEF PlanInv, Roomy, Wanted, Over
  <2>6. PlanOK(bp') /\ Roomy'
    BY <2>1, <2>2, <2>3, <2>4, <2>5, PlanRun
  <2> QED
    BY <1>0, <2>6 DEF PlanInv
<1>11. ASSUME NEW a \in Addrs, SdpDiscovCmpl(a) PROVE PlanInv'
  <2>1. /\ bp.active.valid /\ bp.active.addr = a /\ acl[a] = "up" /\ links' = links
    BY <1>11 DEF SdpDiscovCmpl, SearchInv, Wanted
  <2>2. CASE bp' = bp /\ acl' = acl
    BY <1>2, <2>1, <2>2
  <2>3. CASE RunAndSearch([bp EXCEPT !.active = StepFail(@)], links, acl, search \ {a})
    <3>1. /\ ActiveOK(StepFail(bp.active)) /\ StepFail(bp.active).valid = bp.active.valid
          /\ StepFail(bp.active).force = bp.active.force
      BY <1>0, PolicyParts, StepFailOK, StepKeeps
    <3>2. RunAndSearch([bp EXCEPT !.active = StepFail(bp.active)], links', acl, search \ {a})
      BY <2>1, <2>3
    <3> QED
      BY <1>10, <2>1, <3>1, <3>2
  <2> QED
    BY <1>11, <2>2, <2>3 DEF SdpDiscovCmpl
<1>12. ASSUME NEW a \in Addrs, NEW p \in Profs, ProfConnCmpl(a, p) PROVE PlanInv'
  <2>1. links'.on = links.on /\ links'.num = links.num
    BY <1>12 DEF ProfConnCmpl
  <2>2. CASE bp' = bp /\ acl' = acl
    BY <1>2, <2>1, <2>2
  <2>3. CASE /\ a \in links.on /\ IsDoing(bp, a, p)
             /\ RunAndSearch([bp EXCEPT !.active = StepSuc(@)], links', acl, search)
    <3>1. /\ ActiveOK(StepSuc(bp.active)) /\ StepSuc(bp.active).valid = bp.active.valid
          /\ StepSuc(bp.active).force = bp.active.force
      BY <1>0, PolicyParts, StepSucOK, StepKeeps
    <3>2. RunAndSearch([bp EXCEPT !.active = StepSuc(bp.active)], links', acl, search)
      BY <2>3
    <3>3. bp.active.valid /\ acl[bp.active.addr] = "up"
      BY <1>0, <2>3 DEF IsDoing, IsActive
    <3> QED
      BY <1>10, <2>1, <3>1, <3>2, <3>3
  <2> QED
    BY <1>12, <2>2, <2>3 DEF ProfConnCmpl
<1>13. ASSUME NEW a \in Addrs, NEW p \in Profs,
              ProfConnFail(a, p) \/ ProfDisconnCmpl(a, p)
       PROVE  PlanInv'
  <2> DEFINE l == [links EXCEPT !.profs[a] = @ \ {p}]
  <2>1. bp' = bp /\ acl' = acl
    BY <1>13 DEF ProfConnFail, ProfDisconnCmpl
  <2>2. links' = links \/ links' = l \/ links' = [l EXCEPT !.leaving = @ \ {a}]
    BY <1>13 DEF ProfConnFail, ProfDisconnCmpl
  <2>3. l.on = links.on /\ l.num = links.num
    OBVIOUS
  <2>4. /\ [l EXCEPT !.leaving = @ \ {a}].on = l.on
        /\ [l EXCEPT !.leaving = @ \ {a}].num = l.num
    OBVIOUS
  <2> HIDE DEF l
  <2>5. links'.on = links.on /\ links'.num = links.num
    BY <2>2, <2>3, <2>4, Zenon
  <2> QED
    BY <1>2, <2>1, <2>5
<1> QED
  BY <1>3, <1>4, <1>5, <1>6, <1>7, <1>8, <1>9, <1>11, <1>12, <1>13 DEF StackEvent

(* Linkback ends with an empty queue, so that in a stable state no node is  *)
(* in work, none is queued and the linkback timer is off.                   *)
THEOREM StableHasNoWork ==
    ASSUME NobodyQueues
    PROVE  Spec => []StableIsIdle
<1>1. Init => PlanInv
  BY PlanInit
<1>2. /\ TableInv /\ PolicyInv /\ SchedAhead /\ SleepInv /\ SearchInv /\ PlanInv
      /\ [Next]_vars
      => PlanInv'
  <2>1. PlanInv /\ UNCHANGED vars => PlanInv'
    BY DEF PlanInv, Roomy, vars, stack
  <2> QED
    BY <2>1, PlanDevice, PlanHost, PlanStack DEF Next
<1>3. SearchInv /\ PlanInv => StableIsIdle
  BY DEF SearchInv, InWork, PlanInv, PlanOK, StableIsIdle, Stable
<1>4. NobodyRuns
  BY DEF NobodyQueues
<1>5. Spec => [](TableInv /\ PolicyInv /\ SchedAhead /\ SleepInv /\ SearchInv)
  BY <1>4, SearchInductive
<1> QED
  BY <1>1, <1>2, <1>3, <1>5, PTL DEF Spec

=============================================================================
