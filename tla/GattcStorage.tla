---------------------------- MODULE GattcStorage ----------------------------
(***************************************************************************)
(* The flash store for the GATT tables of bonded LE devices                 *)
(* (ble/gatt_client/gattc_tbl_storage.c).  A header in flash holds one      *)
(* entry per device and the bitmap of unused blocks; the tables and CCCD    *)
(* settings lie in blocks behind it.  Every call loads the header into      *)
(* RAM, changes the copy, writes data blocks and saves the header last.     *)
(* A call runs to its end in the application task; what can come between    *)
(* two flash writes is a failed one or the loss of power, which leave the   *)
(* same: the writes so far, and the old header.                             *)
(*                                                                          *)
(* A block is named by its place in the bitmap, bit n % Width of byte       *)
(* n \div Width.  Lengths are counted in blocks, and a crc16 stands for the *)
(* data it is the crc of.                                                   *)
(***************************************************************************)
EXTENDS Naturals, FiniteSets

CONSTANTS
    Devs,       \* identity addresses of devices
    SlotNum,    \* GATTC_FTL_MAX_DEV_NUM
    ByteNum,    \* GATTC_FTL_BITMAP_MAX_NUM
    Width,      \* bits of a bitmap byte: 8
    FreeNum,    \* block_unused_num of a fresh header
    Tables,     \* service tables the GATT client may discover
    Cccds,      \* CCCD settings
    Hashes,     \* database hashes
    Size,       \* data_len of each table and setting, in blocks
    CccdSize,   \* cccd_data_len of each table, in blocks
    Garbage,    \* bound: what a length may read as in freed memory
    Faults,     \* flash calls that may fail: "load", "save"
    Nothing     \* no value: a free slot, a zero crc16 or data_exist, no answer

Values == Tables \cup Cccds
Slots == 1..SlotNum
Blocks == 0..(ByteNum * Width) - 1

(* T_GATTC_FTL_DEV of a slot in use; cccdNum, the room for the CCCDs, is    *)
(* where the table begins.                                                  *)
EntryType ==
    [addr : Devs, svc : Tables, cccdNum : Nat, cccdLen : Nat,
     cccd : Cccds \cup {Nothing}, gatt : Hashes \cup {Nothing},
     used : SUBSET Blocks]

(* What an entry says of its device, whatever its blocks.                   *)
ClaimType ==
    [table : Tables, cccd : Cccds \cup {Nothing}, gatt : Hashes \cup {Nothing}]

ASSUME SizesAssumption ==
    /\ SlotNum \in Nat \ {0} /\ ByteNum \in Nat \ {0} /\ Width \in Nat \ {0}
    /\ FreeNum \in 0..ByteNum * Width
ASSUME LengthsAssumption ==
    /\ Size \in [Values -> Nat \ {0}]
    /\ CccdSize \in [Tables -> Nat]
    /\ Garbage \subseteq Nat
ASSUME BytesAssumption == FreeNum < 256 /\ \A v \in Values : Size[v] < 256
ASSUME FaultsAssumption == Faults \subseteq {"load", "save"}
ASSUME NothingAssumption ==
    Nothing \notin Devs \cup Values \cup Hashes \cup EntryType \cup ClaimType

VARIABLES
    header,     \* T_GATTC_FTL_CB in flash
    flash,      \* the data blocks
    reply       \* the data the last call gave the GATT client, or Nothing

vars == <<header, flash, reply>>

(* The k-th member of a set of numbers, from the smallest. *)
Below(S, n) == {m \in S : m < n}
Nth(S, k) == CHOOSE n \in S : Cardinality(Below(S, n)) = k - 1

-----------------------------------------------------------------------------
(* The header.  sync is "none" for a zero sync_word, "old" for that of      *)
(* another version, "ok" otherwise.                                         *)
Blank ==
    [sync |-> "none", num |-> 0, unused |-> {}, dev |-> [s \in Slots |-> Nothing]]

Old == [Blank EXCEPT !.sync = "old"]

(* gattc_tbl_bitmap_init *)
Fresh == [Blank EXCEPT !.sync = "ok", !.num = FreeNum, !.unused = Below(Blocks, FreeNum)]

(* gattc_tbl_storage_find_dev *)
SlotsOf(h, d) == {s \in Slots : h.dev[s] # Nothing /\ h.dev[s].addr = d}
Has(h, d) == SlotsOf(h, d) # {}
EntryOf(h, d) == h.dev[CHOOSE s \in SlotsOf(h, d) : TRUE]

(* gattc_tbl_storage_find_unused_dev *)
FreeSlots(h) == {s \in Slots : h.dev[s] = Nothing}
FirstFree(h) == Nth(FreeSlots(h), 1)

(* Faulty variants, named Bad..., show that the properties can fail: here   *)
(* the blocks are not given back.                                           *)
BadFreed(h, s) == [h EXCEPT !.dev[s] = Nothing]

(* gattc_tbl_bitmap_free and the entry set to zero *)
Freed(h, s) ==
    [h EXCEPT !.unused = @ \cup h.dev[s].used,
              !.num = @ + Cardinality(h.dev[s].used),
              !.dev[s] = Nothing]

CanFree(h, s) == h.unused \cap h.dev[s].used = {}

(* gattc_tbl_bitmap_assign: the lowest unused blocks *)
Lowest(S, k) == {n \in S : Cardinality(Below(S, n)) < k}

Assigned(h, s, e, k) ==
    [h EXCEPT !.unused = @ \ Lowest(h.unused, k),
              !.num = @ - k,
              !.dev[s] = [e EXCEPT !.used = Lowest(h.unused, k)]]

(* A count of blocks as a uint8_t. *)
Byte(r) == r % 256

(* The entry gattc_tbl_storage_add_dev makes for a table whose CCCD data    *)
(* takes r blocks: cccd_data_len is the length it was given, cccd_block_num *)
(* what of the count fits into a byte.                                      *)
NewEntry(d, t, r) ==
    [addr |-> d, svc |-> t, cccdNum |-> Byte(r), cccdLen |-> r, cccd |-> Nothing,
     gatt |-> Nothing, used |-> {}]

-----------------------------------------------------------------------------
(* The data blocks. *)

(* What gattc_tbl_write_data and gattc_tbl_read_data take for the number of  *)
(* bit n of the bitmap S: block_idx counts the shifts so far, and a byte is  *)
(* left after its highest set bit.                                           *)
Cell(S, n) ==
    Cardinality({m \in Below(Blocks, n) :
                    \E x \in S : x \div Width = m \div Width /\ m <= x})

(* The data blocks of a bitmap, in the order they are written and read. *)
CellsOf == [S \in SUBSET Blocks |-> [k \in 1..Cardinality(S) |-> Cell(S, Nth(S, k))]]

(* The data block that holds the k-th block of an entry. *)
CellOf(e, k) == CellsOf[e.used][k]

(* A value as it lies in its blocks. *)
Image(v) == [k \in 1..Size[v] |-> <<v, k>>]

(* gattc_tbl_read_data: the data from block start on, and its crc check *)
Read(e, start, len) == [k \in 1..len |-> flash[CellOf(e, start + k)]]
TableData(e) == Read(e, e.cccdNum, Size[e.svc])
CccdData(e) == Read(e, 0, e.cccdLen)
TableGood(e) == TableData(e) = Image(e.svc)

(* gattc_tbl_write_data, its first n blocks *)
Written(e, start, v, n) ==
    [b \in Blocks |->
        IF \E k \in 1..n : CellOf(e, start + k) = b
        THEN <<v, CHOOSE k \in 1..n : CellOf(e, start + k) = b>>
        ELSE flash[b]]

-----------------------------------------------------------------------------
(* Flash calls. *)
LoadFails == "load" \in Faults
SaveFails == "save" \in Faults

(* gattc_tbl_storage_save_header *)
SaveHeader(h) == header' = h \/ (SaveFails /\ UNCHANGED header)

(* Writes v, then saves the header h; cut short, the header stays what      *)
(* gattc_tbl_storage_get_header left of it, one of L.                       *)
WriteThenSave(h, e, start, v, L) ==
    \/ /\ flash' = Written(e, start, v, Size[v])
       /\ header' = h
    \/ \E n \in 0..Size[v] :
          /\ SaveFails
          /\ flash' = Written(e, start, v, n)
          /\ header' \in L

(* gattc_tbl_storage_get_header: a header of another version is cleared.    *)
Opened == header.sync = "ok"
Cleared ==
    (IF header.sync = "old" THEN {Blank} ELSE {header})
        \cup (IF SaveFails THEN {header} ELSE {})

(* A call that needs the entry of d gives up: the header cannot be loaded   *)
(* or is not valid, or there is no such entry.                              *)
Refused(d) ==
    /\ \/ LoadFails /\ UNCHANGED header
       \/ ~Opened /\ header' \in Cleared
       \/ Opened /\ ~Has(header, d) /\ UNCHANGED header
    /\ reply' = Nothing
    /\ UNCHANGED flash

(* The entry of d is found. *)
Found(d) == Opened /\ Has(header, d)

(* A data block cannot be loaded, or a call has nothing to do. *)
Idle == reply' = Nothing /\ UNCHANGED <<header, flash>>

Gives(d, data) == reply' = [dev |-> d, data |-> data]

-----------------------------------------------------------------------------
(* The calls. *)
Init ==
    /\ header \in {Blank, Old}
    /\ flash = [b \in Blocks |-> Nothing]
    /\ reply = Nothing

(* gattc_tbl_storage_remove_dev *)
RemoveDev(d) ==
    LET s == CHOOSE s \in SlotsOf(header, d) : TRUE
    IN  IF CanFree(header, s) THEN SaveHeader(Freed(header, s)) ELSE UNCHANGED header

(* gattc_tbl_storage_remove: by gattc_tbl_storage_del, or by                *)
(* gattc_tbl_storage_bond_cb for a bond repaired or removed.                *)
Remove(d) ==
    \/ Found(d) /\ RemoveDev(d) /\ reply' = Nothing /\ UNCHANGED flash
    \/ ~Found(d) /\ Idle

(* gattc_tbl_storage_clear: BT_BOND_MSG_LE_BOND_CLEAR *)
Clear == SaveHeader(Blank) /\ reply' = Nothing /\ UNCHANGED flash

(* The headers gattc_tbl_storage_add_dev starts from: the one in flash, or  *)
(* a fresh one when that is not valid or cannot be loaded.                  *)
Bases == (IF Opened THEN {header} ELSE {Fresh}) \cup (IF LoadFails THEN {Fresh} ELSE {})

(* Faulty: the entry of the old table stays. *)
BadWithout(h, d) == h

(* The base without the entry of d: the table changed. *)
Without(h, d) == IF Has(h, d) THEN Freed(h, CHOOSE s \in SlotsOf(h, d) : TRUE) ELSE h

CanReplace(h, d) == \A s \in SlotsOf(h, d) : CanFree(h, s)

Allocated(h, d, t, r) ==
    Assigned(h, FirstFree(h), NewEntry(d, t, r), Byte(r) + Size[t])

(* gattc_tbl_storage_add_dev, its effect on the flash.  A sum of blocks past *)
(* 255 may wrap below block_unused_num: the room alone then exceeds what is *)
(* assigned, gattc_tbl_write_data finds no block behind it, and the call    *)
(* fails as for want of blocks.                                             *)
AddDev(d, t, r) ==
    \E h \in Bases :
       IF Has(h, d) /\ EntryOf(h, d).svc = t
       THEN UNCHANGED <<header, flash>>
       ELSE LET g == Without(h, d)
            IN  IF /\ CanReplace(h, d)
                   /\ FreeSlots(g) # {}
                   /\ Byte(r) + Size[t] <= g.num
                THEN LET a == Allocated(g, d, t, r)
                     IN  WriteThenSave(a, a.dev[FirstFree(g)], Byte(r), t, Cleared)
                ELSE header' \in Cleared /\ UNCHANGED flash

(* GATT_STORAGE_EVENT_SVC_TBL_SET_IND *)
SetTable(d, t) == AddDev(d, t, CccdSize[t]) /\ reply' = Nothing

(* Faulty: the data is given without its check. *)
BadLookUp(d, e) == Gives(d, TableData(e)) /\ UNCHANGED <<header, flash>>

(* The table of an entry is given to d, unless its blocks cannot be loaded;  *)
(* an entry whose crc fails is dropped.                                      *)
LookUp(d, e) ==
    \/ LoadFails /\ Idle
    \/ /\ TableGood(e)
       /\ Gives(d, TableData(e))
       /\ UNCHANGED <<header, flash>>
    \/ /\ ~TableGood(e)
       /\ RemoveDev(e.addr)
       /\ reply' = Nothing
       /\ UNCHANGED flash

(* GATT_STORAGE_EVENT_SVC_TBL_GET_IND: gattc_tbl_storage_get_dev *)
GetTable(d) == Refused(d) \/ (Found(d) /\ LookUp(d, EntryOf(header, d)))

(* Entries with the hash h; the last one is taken. *)
Matching(h) ==
    {s \in Slots : header.dev[s] # Nothing /\ header.dev[s].gatt = h}
LastMatch(h) ==
    header.dev[CHOOSE s \in Matching(h) : \A r \in Matching(h) : r <= s]

(* The room for CCCDs of the copy: cccd_data_len of the entry it is made    *)
(* from, read after the header that holds it was freed, so that it may be   *)
(* anything.                                                                 *)
CopiedRoom(e) == {e.cccdLen} \cup Garbage

(* GATT_STORAGE_EVENT_SVC_TBL_USING_DATABASE_HASH_GET_IND: a device without *)
(* an entry is given that of another one with the same hash, and its own    *)
(* copy; the hash is not compared for a device that has an entry.           *)
GetTableByHash(d, h) ==
    \/ Matching(h) = {} /\ Refused(d)
    \/ LoadFails /\ Idle
    \/ Found(d) /\ LookUp(d, EntryOf(header, d))
    \/ /\ Opened /\ ~Found(d) /\ Matching(h) # {}
       /\ \/ ~TableGood(LastMatch(h)) /\ LookUp(d, LastMatch(h))
          \/ /\ TableGood(LastMatch(h))
             /\ Gives(d, TableData(LastMatch(h)))
             /\ \E r \in CopiedRoom(LastMatch(h)) : AddDev(d, LastMatch(h).svc, r)

(* GATT_STORAGE_EVENT_SVC_CCCD_GET_IND.  Blocks that cannot be loaded count  *)
(* as nothing set, and a failed crc leaves the entry.                        *)
GetCccd(d) ==
    \/ Refused(d)
    \/ LoadFails /\ Idle
    \/ LET e == EntryOf(header, d)
       IN  /\ Found(d)
           /\ IF e.cccd # Nothing /\ CccdData(e) = Image(e.cccd)
              THEN Gives(d, CccdData(e)) /\ UNCHANGED <<header, flash>>
              ELSE Idle

(* Faulty: the room for CCCDs is not asked for. *)
BadFits(e, c) == TRUE
Fits(e, c) == Size[c] <= e.cccdNum

(* GATT_STORAGE_EVENT_SVC_CCCD_SET_IND *)
SetCccd(d, c) ==
    \/ Refused(d)
    \/ LET e == EntryOf(header, d)
           s == CHOOSE s \in SlotsOf(header, d) : TRUE
       IN  /\ Found(d)
           /\ IF Fits(e, c)
              THEN /\ WriteThenSave([header EXCEPT !.dev[s].cccdLen = Size[c],
                                                  !.dev[s].cccd = c],
                                    e, 0, c, {header})
                   /\ reply' = Nothing
              ELSE Idle

(* GATT_STORAGE_EVENT_SVC_GATT_SET_IND *)
SetGattData(d, h) ==
    \/ Refused(d)
    \/ LET s == CHOOSE s \in SlotsOf(header, d) : TRUE
       IN  /\ Found(d)
           /\ SaveHeader([header EXCEPT !.dev[s].gatt = h])
           /\ reply' = Nothing
           /\ UNCHANGED flash

Next ==
    \/ Clear
    \/ \E d \in Devs :
          \/ Remove(d) \/ GetTable(d) \/ GetCccd(d)
          \/ \E t \in Tables : SetTable(d, t)
          \/ \E c \in Cccds : SetCccd(d, c)
          \/ \E h \in Hashes : GetTableByHash(d, h) \/ SetGattData(d, h)

Spec == Init /\ [][Next]_vars

-----------------------------------------------------------------------------
Entries(h) == {s \in Slots : h.dev[s] # Nothing}

(* Types, and what the lengths of an entry say of its blocks: they hold the *)
(* table behind the room for its CCCDs, and a stored setting fits into it.  *)
TypeOK ==
    /\ header \in [sync : {"none", "old", "ok"}, num : 0..FreeNum,
                   unused : SUBSET Blocks, dev : [Slots -> EntryType \cup {Nothing}]]
    /\ flash \in [Blocks -> {Nothing} \cup (Values \X Nat)]
    /\ \A s \in Entries(header) :
          LET e == header.dev[s]
          IN  /\ Cardinality(e.used) = e.cccdNum + Size[e.svc]
              /\ e.cccd # Nothing => e.cccdLen <= e.cccdNum

(* No block of the bitmap is in two hands or lost, and block_unused_num     *)
(* counts the unused ones, after any order of calls cut short anywhere.     *)
BlocksPartitioned ==
    Opened =>
       /\ \A s \in Entries(header) : header.dev[s].used \cap header.unused = {}
       /\ \A r, s \in Entries(header) :
             r # s => header.dev[r].used \cap header.dev[s].used = {}
       /\ header.unused \cup UNION {header.dev[s].used : s \in Entries(header)}
             = Below(Blocks, FreeNum)
       /\ header.num = Cardinality(header.unused)

(* A device has one entry: gattc_tbl_storage_find_dev takes the first.      *)
OneEntryPerDevice ==
    \A r, s \in Entries(header) : header.dev[r].addr = header.dev[s].addr => r = s

(* The store is a cache that may forget and never makes anything up.        *)
Claim(d) ==
    IF Has(header, d)
    THEN LET e == EntryOf(header, d)
         IN  [table |-> e.svc, cccd |-> e.cccd, gatt |-> e.gatt]
    ELSE Nothing

Cache == INSTANCE GattcCache WITH cache <- [d \in Devs |-> Claim(d)]

ImplementsCache == Cache!Spec

Readable(s) == header.dev[s] # Nothing /\ TableGood(header.dev[s])

(* A CCCD setting never runs into the table behind it, also when the room   *)
(* was copied from another device with a shorter setting, and when the      *)
(* writes are cut short.                                                    *)
CccdKeepsTable ==
    [][\A s \in Slots :
          flash' # flash /\ Readable(s) /\ ~Readable(s)'
             => \A c \in Cccds : ~SetCccd(header.dev[s].addr, c)]_vars

(* What was stored is read back: the purpose of the store. *)
StoredIsFound == \A s \in Entries(header) : Readable(s)
=============================================================================
