-------------------------- MODULE MemoryHierarchy --------------------------
(***************************************************************************)
(* The tiered store of agents/memory_hierarchy.py: an LRU store in memory  *)
(* (RAMStore) in front of an append-only store on disk (NVMeStore), behind *)
(* MemoryHierarchy.set, get, delete and clear.                             *)
(*                                                                         *)
(* One thread calls it, but a call is not atomic: evicting is a loop, and  *)
(* a disk write is an append to a chunk file followed by a rewrite of the  *)
(* index file, either of which may fail, or be cut off by a crash of the   *)
(* process.  After a crash only the files are left.                        *)
(*                                                                         *)
(* Keys are spread over the chunk files by 32 bits of a hash, so two keys  *)
(* may share one.  Sizes are in units of the budget; the last_access times *)
(* are kept as the order of the entries, oldest first.                     *)
(***************************************************************************)
EXTENDS Naturals, Sequences, FiniteSets, Functions, SequencesExt

CONSTANTS
    Key,
    Value,
    None,         \* what get returns for a key that is not there
    Torn,         \* a line of a chunk file that does not parse
    Size,         \* Value -> bytes of its JSON
    Budget,       \* RAMStore.max_bytes
    Chunk,        \* chunk files
    ChunkOf,      \* Key -> Chunk, _chunk_path
    MaxRecords    \* bound on the lines of a chunk file

ASSUME BudgetAssumption == Budget \in Nat \ {0} /\ Size \in [Value -> Nat \ {0}]
ASSUME ChunkAssumption == ChunkOf \in [Key -> Chunk]
ASSUME NoneAssumption ==
    None \notin Value /\ None # "unsure" /\ MaxRecords \in Nat

VARIABLES
    ram,        \* RAMStore._data: key -> data and pinned, for the keys in it
    lru,        \* its keys, least recently used first
    used,       \* RAMStore._current_bytes
    chunks,     \* the chunk files, each a sequence of lines
    index,      \* NVMeStore._index: the keys in it
    saved,      \* what loading the index file would give
    phase,      \* idle, or where the running call is
    request,    \* its arguments
    written,    \* history: per key, the values set() was called with
    last        \* history: per key, the last value stored for sure

ramVars == <<ram, lru, used>>
diskVars == <<chunks, index, saved>>
history == <<written, last>>
memoryVars == <<ramVars, diskVars, phase, request, history>>

InRam == DOMAIN ram

NoRequest == [op |-> "none"]

-----------------------------------------------------------------------------

MemoryInit ==
    /\ ram = <<>> /\ lru = <<>> /\ used = 0
    /\ chunks = [c \in Chunk |-> <<>>]
    /\ index = {} /\ saved = {}
    /\ phase = "idle" /\ request = NoRequest
    /\ written = [k \in Key |-> {}]
    /\ last = [k \in Key |-> None]

\* NVMeStore.__getitem__: the first line of the key's chunk file with that
\* key, unless a line that does not parse comes before it.
Lines(k) == chunks[ChunkOf[k]]

\* Mutant of Found: the first line of the file, whatever its key.
FoundAnyKey(k) == IF Lines(k) = <<>> THEN 0 ELSE 1

Found(k) == SelectInSeq(Lines(k), LAMBDA line : line = Torn \/ line.key = k)

NvmeRead(k) ==
    IF k \notin index \/ Found(k) = 0 \/ Lines(k)[Found(k)] = Torn
    THEN None
    ELSE Lines(k)[Found(k)].data

\* What get(k) answers.
Answer(k) == IF k \in InRam THEN ram[k].data ELSE NvmeRead(k)

\* The other keys in RAM, least recently used first.
Without(k) == IF k \in InRam THEN RemoveAt(lru, CHOOSE i \in DOMAIN lru : lru[i] = k) ELSE lru

\* del self.ram[key]
DropFromRam(k) ==
    /\ ram' = [j \in InRam \ {k} |-> ram[j]]
    /\ lru' = Without(k)
    /\ used' = IF k \in InRam THEN used - Size[ram[k].data] ELSE used

-----------------------------------------------------------------------------
(***************************************************************************)
(* set                                                                     *)
(***************************************************************************)

\* The tier set() settles on.  vramFree: vram_free_fn reports enough memory.
Tier(asked, vramFree) ==
    CASE asked = "auto" -> IF vramFree THEN "vram"
                           ELSE IF 10 * used < 9 * Budget THEN "ram" ELSE "nvme"
      [] asked = "vram" -> IF vramFree THEN "vram" ELSE "ram"
      [] OTHER          -> asked

\* No tier stores anything in VRAM: set() returns False.
Set(k, v, asked, pin, vramFree) ==
    /\ phase = "idle"
    /\ written' = [written EXCEPT ![k] = @ \cup {v}]
    /\ CASE Tier(asked, vramFree) = "ram" ->
              /\ phase' = "evict"
              /\ request' = [op |-> "set", key |-> k, data |-> v, pin |-> pin]
              /\ last' = [last EXCEPT ![k] = "unsure"]
         [] Tier(asked, vramFree) = "nvme" ->
              /\ phase' = "append"
              /\ request' = [op |-> "set", key |-> k, data |-> v, pin |-> pin]
              /\ last' = [last EXCEPT ![k] = "unsure"]
         [] OTHER -> UNCHANGED <<phase, request, last>>
    /\ UNCHANGED <<ramVars, diskVars>>

\* Mutant of TooFull: an empty store is evicted from.
TooFullWhenEmpty == used + Size[request.data] > Budget

TooFull == used + Size[request.data] > Budget /\ InRam # {}

Evictable == {k \in InRam : ~ram[k].pinned}

\* One turn of the eviction loop: the least recently used entry that is not
\* pinned goes.
EvictOne ==
    /\ phase = "evict"
    /\ TooFull
    /\ \E i \in DOMAIN lru :
         /\ lru[i] \in Evictable
         /\ \A j \in 1 .. i - 1 : lru[j] \notin Evictable
         /\ DropFromRam(lru[i])
    /\ UNCHANGED <<diskVars, phase, request, history>>

\* With every entry pinned the loop turns without evicting anything.
EvictNothing ==
    /\ phase = "evict"
    /\ TooFull
    /\ Evictable = {}
    /\ UNCHANGED memoryVars

\* Mutant of StoreInRam: the size of the entry it replaces stays counted.
StoreInRamKeepsOldSize ==
    /\ phase = "evict"
    /\ ~TooFull
    /\ Size[request.data] <= Budget
    /\ LET k == request.key IN
         /\ ram' = [j \in InRam \cup {k} |->
                      IF j = k THEN [data |-> request.data, pinned |-> request.op = "set" /\ request.pin]
                      ELSE ram[j]]
         /\ lru' = Append(Without(k), k)
         /\ used' = used + Size[request.data]
         /\ last' = IF request.op = "set" THEN [last EXCEPT ![k] = request.data] ELSE last
    /\ phase' = "idle" /\ request' = NoRequest
    /\ UNCHANGED <<diskVars, written>>

\* The loop is over and the value fits: replace the entry, unpinned unless
\* this call pins it.
StoreInRam ==
    /\ phase = "evict"
    /\ ~TooFull
    /\ Size[request.data] <= Budget
    /\ LET k == request.key IN
         /\ ram' = [j \in InRam \cup {k} |->
                      IF j = k THEN [data |-> request.data, pinned |-> request.op = "set" /\ request.pin]
                      ELSE ram[j]]
         /\ lru' = Append(Without(k), k)
         /\ used' = used + Size[request.data] - IF k \in InRam THEN Size[ram[k].data] ELSE 0
         /\ last' = IF request.op = "set" THEN [last EXCEPT ![k] = request.data] ELSE last
    /\ phase' = "idle" /\ request' = NoRequest
    /\ UNCHANGED <<diskVars, written>>

\* It does not fit: set() spills to disk, a promotion is given up.
DoesNotFit ==
    /\ phase = "evict"
    /\ ~TooFull
    /\ Size[request.data] > Budget
    /\ IF request.op = "set"
       THEN phase' = "append" /\ UNCHANGED request
       ELSE phase' = "idle" /\ request' = NoRequest
    /\ UNCHANGED <<ramVars, diskVars, history>>

\* NVMeStore.__setitem__ appends the record and enters the key in the index.
AppendRecord ==
    /\ phase = "append"
    /\ LET k == request.key IN
         /\ Len(Lines(k)) < MaxRecords
         /\ chunks' = [chunks EXCEPT ![ChunkOf[k]] = Append(@, [key |-> k, data |-> request.data])]
         /\ index' = index \cup {k}
    /\ phase' = "save"
    /\ UNCHANGED <<ramVars, saved, request, history>>

\* The write fails, with nothing or with a part of the line in the file:
\* set() returns False.
AppendFails ==
    /\ phase = "append"
    /\ LET c == ChunkOf[request.key] IN
         \/ UNCHANGED chunks
         \/ Len(chunks[c]) < MaxRecords /\ chunks' = [chunks EXCEPT ![c] = Append(@, Torn)]
    /\ phase' = "idle" /\ request' = NoRequest
    /\ UNCHANGED <<ramVars, index, saved, history>>

\* _save_index rewrites the file, and set() pins the entry in RAM, if any.
SaveIndex ==
    /\ phase = "save"
    /\ saved' = index
    /\ LET k == request.key IN
         IF request.op = "set"
         THEN /\ last' = [last EXCEPT ![k] = request.data]
              /\ ram' = IF k \in InRam /\ request.pin THEN [ram EXCEPT ![k].pinned = TRUE] ELSE ram
         ELSE UNCHANGED <<last, ram>>
    /\ phase' = IF request.op = "clear" THEN "clear" ELSE "idle"
    /\ request' = NoRequest
    /\ UNCHANGED <<lru, used, chunks, index, written>>

\* Writing the index fails after open() has truncated the file: set() returns
\* False, delete() and clear() raise.
SaveIndexFails ==
    /\ phase = "save"
    /\ saved' = {}
    /\ phase' = "idle" /\ request' = NoRequest
    /\ UNCHANGED <<ramVars, chunks, index, history>>

-----------------------------------------------------------------------------
(***************************************************************************)
(* get, delete, clear, crash                                               *)
(***************************************************************************)

\* get() finds the key in RAM and touches the entry.
GetFromRam(k) ==
    /\ phase = "idle"
    /\ k \in InRam
    /\ lru' = Append(Without(k), k)
    /\ UNCHANGED <<ram, used, diskVars, phase, request, history>>

\* get() finds it on disk and promotes it to RAM.
GetFromNvme(k) ==
    /\ phase = "idle"
    /\ k \notin InRam
    /\ NvmeRead(k) # None
    /\ phase' = "evict"
    /\ request' = [op |-> "promote", key |-> k, data |-> NvmeRead(k)]
    /\ UNCHANGED <<ramVars, diskVars, history>>

\* NVMeStore.__delitem__ unlinks the chunk file of the key, with the records
\* of other keys that are in it, and goes on to save the index.
Unlink(op, k) ==
    /\ chunks' = [chunks EXCEPT ![ChunkOf[k]] = <<>>]
    /\ index' = index \ {k}
    /\ last' = [last EXCEPT ![k] = None]
    /\ phase' = "save" /\ request' = [op |-> op, key |-> k]

\* unlink() raises, and the call with it.
UnlinkFails(k) ==
    /\ last' = [last EXCEPT ![k] = "unsure"]
    /\ phase' = "idle" /\ request' = NoRequest
    /\ UNCHANGED <<chunks, index>>

\* Mutant of Delete: a key that is in RAM is not deleted from disk.
DeleteFirstTier(k) ==
    /\ phase = "idle"
    /\ DropFromRam(k)
    /\ \/ k \in index /\ k \notin InRam /\ (Unlink("delete", k) \/ UnlinkFails(k))
       \/ /\ k \notin index \/ k \in InRam
          /\ last' = [last EXCEPT ![k] = None]
          /\ UNCHANGED <<chunks, index, phase, request>>
    /\ UNCHANGED <<saved, written>>

\* delete() drops the key from RAM, then from disk if the index has it.
Delete(k) ==
    /\ phase = "idle"
    /\ DropFromRam(k)
    /\ \/ k \in index /\ (Unlink("delete", k) \/ UnlinkFails(k))
       \/ /\ k \notin index
          /\ last' = [last EXCEPT ![k] = None]
          /\ UNCHANGED <<chunks, index, phase, request>>
    /\ UNCHANGED <<saved, written>>

\* clear() empties RAM and deletes the keys of the index one by one, saving
\* the index after each.
Clear ==
    /\ phase = "idle"
    /\ ram' = <<>> /\ lru' = <<>> /\ used' = 0
    /\ phase' = "clear"
    /\ UNCHANGED <<diskVars, request, history>>

ClearOne(k) ==
    /\ phase = "clear"
    /\ k \in index
    /\ Unlink("clear", k) \/ UnlinkFails(k)
    /\ UNCHANGED <<ramVars, saved, written>>

Cleared ==
    /\ phase = "clear"
    /\ index = {}
    /\ last' = [k \in Key |-> None]
    /\ phase' = "idle"
    /\ UNCHANGED <<ramVars, diskVars, request, written>>

\* The process dies.  Cut off in _save_index it may leave an index file that
\* does not parse, which loads as an empty index; cut off in the append it may
\* leave a torn line.
Crash ==
    /\ phase # "boot"
    /\ ram' = <<>> /\ lru' = <<>> /\ used' = 0
    /\ saved' \in IF phase = "save" THEN {saved, index, {}} ELSE {saved}
    /\ \/ UNCHANGED chunks
       \/ /\ phase = "append"
          /\ Len(Lines(request.key)) < MaxRecords
          /\ chunks' = [chunks EXCEPT ![ChunkOf[request.key]] = Append(@, Torn)]
    /\ phase' = "boot" /\ request' = NoRequest
    /\ UNCHANGED <<index, history>>

\* NVMeStore.__init__ loads the index file.
Reload ==
    /\ phase = "boot"
    /\ index' = saved
    /\ phase' = "idle"
    /\ UNCHANGED <<ramVars, chunks, saved, request, history>>

\* What a call under way does next.
Progress ==
    \/ EvictOne
    \/ StoreInRam
    \/ DoesNotFit
    \/ AppendRecord
    \/ AppendFails
    \/ SaveIndex
    \/ SaveIndexFails
    \/ \E k \in Key : ClearOne(k)
    \/ Cleared
    \/ Reload

MemoryNext ==
    \/ \E k \in Key, v \in Value, asked \in {"auto", "ram", "nvme", "vram"}, pin, vramFree \in BOOLEAN :
         Set(k, v, asked, pin, vramFree)
    \/ \E k \in Key : GetFromRam(k) \/ GetFromNvme(k) \/ Delete(k)
    \/ Clear
    \/ Crash
    \/ Progress
    \/ EvictNothing

\* A call under way goes on; nobody has to make the next one.
MemorySpec == MemoryInit /\ [][MemoryNext]_memoryVars /\ WF_memoryVars(Progress)

-----------------------------------------------------------------------------
(***************************************************************************)
(* Properties                                                              *)
(***************************************************************************)

Line == [key : Key, data : Value] \cup {Torn}

Call ==
    [op : {"set"}, key : Key, data : Value, pin : BOOLEAN]
        \cup [op : {"promote"}, key : Key, data : Value]
        \cup [op : {"delete", "clear"}, key : Key]
        \cup {NoRequest}

\* The state of the two stores is well formed.
TypeOK ==
    /\ InRam \subseteq Key /\ ram \in [InRam -> [data : Value, pinned : BOOLEAN]]
    /\ lru \in Seq(Key) /\ ToSet(lru) = InRam /\ Len(lru) = Cardinality(InRam)
    /\ used \in 0 .. Budget
    /\ chunks \in [Chunk -> Seq(Line)]
    /\ index \subseteq Key /\ saved \subseteq Key
    /\ phase \in {"idle", "evict", "append", "save", "clear", "boot"}
    /\ request \in Call
    /\ written \in [Key -> SUBSET Value]
    /\ last \in [Key -> Value \cup {None, "unsure"}]

\* _current_bytes, kept by hand through evictions, replacements, promotions
\* and deletions, is the size of what RAM holds, and within the budget; the
\* keys of the LRU list are those in RAM (TypeOK).
BytesBalance ==
    /\ TypeOK
    /\ used = SumFunctionOnSet([k \in InRam |-> Size[ram[k].data]], InRam)
    /\ used <= Budget

\* Whatever tears, collides, is evicted or promoted, get(k) never answers with
\* something that was not set under k: not another key's record from the
\* same chunk file, and not a torn line.
ReadsAreWrites ==
    \A k \in Key : Answer(k) \in written[k] \cup {None}

\* Once delete(k) or clear() is done, k stays gone until somebody sets it
\* again, across crashes and through chunk files that other keys share: no
\* tier, no leftover record and no promotion brings it back.
DeletedStaysGone ==
    phase = "idle" => \A k \in Key : last[k] = None => Answer(k) = None

\* Every call ends, unless it waits for room that only pinned entries take up.
CallsEnd ==
    phase # "idle" ~> \/ phase = "idle"
                      \/ phase = "evict" /\ InRam # {} /\ \A k \in InRam : ram[k].pinned

\* set's docstring: "Store value."  A get() that finds something after a set()
\* that returned True finds what that call stored, not an earlier value.
\* The code does not keep this (README, section 6), and no run checks it.
ReadsSeeLastWrite ==
    phase = "idle" => \A k \in Key : last[k] \in Value => Answer(k) \in {last[k], None}

=============================================================================
