------------------------------ MODULE Storage ------------------------------
(***************************************************************************)
(* The database: DatabaseProxy, DatabaseManager, Storage and               *)
(* DomianBatchVector (database/) over RocksDB.  Writes are not synced: a   *)
(* crash of the host may lose the last ones, history being what RocksDB    *)
(* would recover to.  A write batch lives in a slot of a vector; its owner *)
(* knows the slot's index only.                                            *)
(***************************************************************************)
EXTENDS Naturals, Sequences, FiniteSets

CONSTANTS
    Key,            \* keys written by batches
    Single,         \* a key written by DBPut and DBDelete
    Batch,          \* the BatchIndex objects, and the ConsistentWriteBatch of each
    NoBatch,
    Slots,          \* size of domain_batch_record_ (100)
    MAX_BATCH_COUNT,\* 10000
    Overlap,        \* may two calls of NewWriteBatch overlap?
    MaxLive,        \* bound on the batches alive at a time
    MaxWrites       \* bound on the writes

ASSUME StorageAssumption ==
    /\ Slots \in Nat \ {0} /\ MAX_BATCH_COUNT \in Nat /\ Slots < MAX_BATCH_COUNT
    /\ Single \notin Key /\ NoBatch \notin Batch /\ IsFiniteSet(Batch)
    /\ MaxLive \in Nat

VARIABLES
    history,        \* the contents since the last sync: the last one is the present
    writes,
    stage,          \* batch -> none, index (it has its index), live, released
    batch_index_,   \* batch -> slot
    record,         \* slot -> the batch object in it, or NoBatch
    content         \* batch object -> key -> the value put, or NoBatch

storageVars == <<history, writes, stage, batch_index_, record, content>>

Empty == [k \in Key |-> NoBatch]

db == history[Len(history)]

StorageInit ==
    /\ history = <<[k \in Key \cup {Single} |-> NoBatch]>>
    /\ writes = 0
    /\ stage = [b \in Batch |-> "none"]
    /\ batch_index_ = [b \in Batch |-> 0]
    /\ record = [i \in 0 .. Slots - 1 |-> NoBatch]
    /\ content = [b \in Batch |-> Empty]

Live == {b \in Batch : stage[b] \in {"index", "live"}}

(***************************************************************************)
(* Batches.                                                                *)
(***************************************************************************)
\* The first free slot; the size of the vector when there is none.
ThreadSafeGetIndex ==
    LET free == {i \in 0 .. Slots - 1 : record[i] = NoBatch}
    IN  IF free = {} THEN Slots ELSE CHOOSE i \in free : \A j \in free : i <= j

\* NewWriteBatch takes the lock twice: once for the index, once for the slot.
NewWriteBatch(b) ==
    /\ stage[b] = "none"
    /\ Cardinality(Live) < MaxLive
    /\ Overlap \/ \A c \in Batch : stage[c] # "index"
    /\ batch_index_' = [batch_index_ EXCEPT ![b] = ThreadSafeGetIndex]
    /\ stage' = [stage EXCEPT ![b] = "index"]
    /\ UNCHANGED <<history, writes, record, content>>

\* ThreadSafeAdd: past the end of the vector it writes somewhere else.
ThreadSafeAdd(i, v) == record' = [j \in DOMAIN record |-> IF j = i THEN v ELSE record[j]]

NewWriteBatchAdd(b) ==
    /\ stage[b] = "index"
    /\ stage' = [stage EXCEPT ![b] = "live"]
    /\ ThreadSafeAdd(batch_index_[b], b)
    /\ content' = [content EXCEPT ![b] = Empty]
    /\ UNCHANGED <<history, writes, batch_index_>>

ThreadSafeGetByIndex(i) ==
    IF i >= MAX_BATCH_COUNT \/ i \notin DOMAIN record THEN NoBatch ELSE record[i]

Object(b) == ThreadSafeGetByIndex(batch_index_[b])

BatchPut(b, k) ==
    /\ stage[b] = "live" /\ Object(b) # NoBatch
    /\ content' = [content EXCEPT ![Object(b)][k] = b]
    /\ UNCHANGED <<history, writes, stage, batch_index_, record>>

BatchClear(b) ==
    /\ stage[b] = "live" /\ Object(b) # NoBatch
    /\ content' = [content EXCEPT ![Object(b)] = Empty]
    /\ UNCHANGED <<history, writes, stage, batch_index_, record>>

Written(kv) ==
    [k \in DOMAIN db |-> IF k \in Key /\ kv[k] # NoBatch THEN kv[k] ELSE db[k]]

\* Mutant: the operations are written one by one.
WriteBatchOneByOne(kv) ==
    LET k == CHOOSE x \in Key : TRUE
    IN  history' = history \o <<Written([Empty EXCEPT ![k] = kv[k]]), Written(kv)>>

\* RocksDbDriver::WriteBatch: one Write.
WriteToDb(kv) == history' = Append(history, Written(kv))

\* The owner writes its batch when it has put every key.
WriteBatch(b) ==
    /\ stage[b] = "live" /\ Object(b) # NoBatch
    /\ writes < MaxWrites
    /\ writes' = writes + 1
    /\ \A k \in Key : content[Object(b)][k] # NoBatch
    /\ WriteToDb(content[Object(b)])
    /\ content' = [content EXCEPT ![Object(b)] = Empty]
    /\ UNCHANGED <<stage, batch_index_, record>>

\* ~BatchIndex.
ReleaseBatch(b) ==
    /\ stage[b] = "live"
    /\ stage' = [stage EXCEPT ![b] = "released"]
    /\ ThreadSafeAdd(batch_index_[b], NoBatch)
    /\ UNCHANGED <<history, writes, batch_index_, content>>

(***************************************************************************)
(* Single writes, and crashes.                                             *)
(***************************************************************************)
DBPut(v) ==
    /\ writes < MaxWrites
    /\ writes' = writes + 1
    /\ history' = Append(history, [db EXCEPT ![Single] = v])
    /\ UNCHANGED <<stage, batch_index_, record, content>>

DBDelete ==
    /\ db[Single] # NoBatch /\ writes < MaxWrites
    /\ writes' = writes + 1
    /\ history' = Append(history, [db EXCEPT ![Single] = NoBatch])
    /\ UNCHANGED <<stage, batch_index_, record, content>>

\* RocksDB writes its log to the disk.
Flush ==
    /\ Len(history) > 1
    /\ history' = <<db>>
    /\ UNCHANGED <<writes, stage, batch_index_, record, content>>

\* The process, or the host, stops and starts again: what was written is there, or
\* for the host a prefix of it.
Restarted(h) ==
    /\ history' = h
    /\ stage' = [b \in Batch |-> IF stage[b] = "none" THEN "none" ELSE "released"]
    /\ record' = [i \in DOMAIN record |-> NoBatch]
    /\ UNCHANGED <<writes, batch_index_, content>>

ProcessCrash == Live # {} /\ Restarted(history)

HostCrash == \E n \in 1 .. Len(history) - 1 : Restarted(SubSeq(history, 1, n))

(***************************************************************************)
(* Specification.                                                          *)
(***************************************************************************)
StorageNext ==
    \/ \E b \in Batch : \/ NewWriteBatch(b) \/ NewWriteBatchAdd(b)
                        \/ \E k \in Key : BatchPut(b, k)
                        \/ BatchClear(b) \/ WriteBatch(b) \/ ReleaseBatch(b)
    \/ \E v \in Batch : DBPut(v)
    \/ DBDelete \/ Flush \/ ProcessCrash \/ HostCrash

StorageSpec == StorageInit /\ [][StorageNext]_storageVars

(***************************************************************************)
(* Properties.                                                             *)
(***************************************************************************)
\* A batch that is alive is alone in its slot, so that no other owner's put,
\* clear, write or release reaches it.
OwnSlot == \A b \in Batch : stage[b] = "live" => Object(b) = b

\* Each batch sets all the keys of Key to itself: they never differ in the
\* database, after any crash.  (WriteBatch is one Write of RocksDB.)
KeysTogether == \A k1, k2 \in Key : db[k1] = db[k2]

\* A slot whose batch was released can be used again: with no batch alive, the
\* next one gets the first slot.
SlotsFreed == Live = {} => ThreadSafeGetIndex = 0

\* The keys a write batch sets together never differ in the database, after any crash: a
\* batch that is alive is alone in its slot of the vector, so that no other owner's put,
\* clear, write or release reaches it, and the slot of a released batch can be used again.
BatchAllOrNothing == KeysTogether /\ OwnSlot /\ SlotsFreed
=============================================================================
