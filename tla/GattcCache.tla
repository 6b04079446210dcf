----------------------------- MODULE GattcCache -----------------------------
(***************************************************************************)
(* What the GATT client may expect of the store for discovered tables       *)
(* (ble/gatt_client/gattc_tbl_storage.c): a cache that may forget and never *)
(* makes anything up.  A device has at most one entry: its service table,   *)
(* the CCCD values set since that table was stored, and its GATT data.  An  *)
(* answer is what the entry says; any call may instead be refused, and any  *)
(* call may lose the entry it is about, or all of them.                     *)
(***************************************************************************)
CONSTANTS
    Devs,       \* devices, by identity address
    Tables,     \* service tables
    Cccds,      \* CCCD settings
    Hashes,     \* database hashes
    Nothing,    \* no entry, nothing set, no answer
    Image(_)    \* the data of a table or a setting

VARIABLES
    cache,      \* the entry of each device, or Nothing
    reply       \* what the last call gave the GATT client, or Nothing

vars == <<cache, reply>>

Fresh(t) == [table |-> t, cccd |-> Nothing, gatt |-> Nothing]

Init ==
    /\ cache = [d \in Devs |-> Nothing]
    /\ reply = Nothing

Known(d) == cache[d] # Nothing

Answered(d, v) == reply' = [dev |-> d, data |-> Image(v)]

(* Keeps every entry, or loses one, or loses all of them. *)
Refuse ==
    /\ reply' = Nothing
    /\ \/ UNCHANGED cache
       \/ cache' = [d \in Devs |-> Nothing]
       \/ \E d \in Devs : Known(d) /\ cache' = [cache EXCEPT ![d] = Nothing]

(* The table of d is replaced, and with it all that was set for the old     *)
(* one; the entries of the others stay, or all are lost.                    *)
Stored(d, t) ==
    \/ cache' = [cache EXCEPT ![d] = Fresh(t)]
    \/ cache' = [e \in Devs |-> IF e = d THEN Fresh(t) ELSE Nothing]

Store(d, t) == Stored(d, t) /\ reply' = Nothing

SetCccd(d, c) ==
    /\ Known(d)
    /\ cache' = [cache EXCEPT ![d].cccd = c]
    /\ reply' = Nothing

SetGatt(d, h) ==
    /\ Known(d)
    /\ cache' = [cache EXCEPT ![d].gatt = h]
    /\ reply' = Nothing

GetTable(d) == Known(d) /\ Answered(d, cache[d].table) /\ UNCHANGED cache

GetCccd(d) ==
    /\ Known(d) /\ cache[d].cccd # Nothing
    /\ Answered(d, cache[d].cccd)
    /\ UNCHANGED cache

(* A device without an entry is given the table of another one whose        *)
(* database has the same hash, and may keep it for its own.                 *)
Borrow(d, e) ==
    /\ ~Known(d) /\ Known(e) /\ cache[e].gatt # Nothing
    /\ Answered(d, cache[e].table)
    /\ UNCHANGED cache \/ Stored(d, cache[e].table)

Next ==
    \/ Refuse
    \/ \E d \in Devs :
          \/ GetTable(d) \/ GetCccd(d)
          \/ \E t \in Tables : Store(d, t)
          \/ \E c \in Cccds : SetCccd(d, c)
          \/ \E h \in Hashes : SetGatt(d, h)
          \/ \E e \in Devs : Borrow(d, e)

Spec == Init /\ [][Next]_vars
=============================================================================
