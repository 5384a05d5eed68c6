----------------------------- MODULE PluginHeap -----------------------------
(***************************************************************************)
(* The allocator that serves the heap of a plugin                          *)
(* (ubpf/tools/heap_management.c).  The heap is one fixed buffer inside    *)
(* the argument structure of an insertion point; the pluglets of that      *)
(* insertion point share it and keep blocks in it from one run to the      *)
(* next.  Calls are serialised by lock_current_context, so each call is    *)
(* one step.                                                               *)
(*                                                                         *)
(* Addresses are offsets from heap_start.  block[a] is the meta_data read  *)
(* at offset a; offsets where no header was written hold the zeros left by *)
(* calloc.  heap_start itself is set by every insertion point before a     *)
(* pluglet runs, so the branch of plugin_malloc for a NULL heap_start is   *)
(* never taken and is left out.                                            *)
(***************************************************************************)
EXTENDS Integers, FiniteSets

CONSTANTS
    MEM_BUFFER,         \* bytes of the heap (SIZE_PLUGIN_HEAP)
    METADATA_SIZE,      \* sizeof(meta_data)
    ALIGNMENT_FACTOR,   \* smallest chunk
    UintMod,            \* 2^32, the modulus of unsigned int
    Ids,                \* block identifiers; 0 is what calloc leaves
    Sizes,              \* sizes plugin_malloc and plugin_realloc are asked
    IdSizes             \* sizes plugin_malloc_with_id is asked

ASSUME HeapConstants ==
    /\ MEM_BUFFER \in Nat
    /\ METADATA_SIZE \in Nat \ {0}
    /\ ALIGNMENT_FACTOR \in Nat \ {0}
    /\ UintMod \in Nat \ {0}
    /\ Ids \subseteq Nat
    /\ 0 \in Ids
    /\ Sizes \subseteq 0 .. UintMod - 1
    /\ IdSizes \subseteq 0 .. UintMod - 1

VARIABLES
    block,              \* the headers in the buffer, by offset
    heap_end,           \* offset of the first byte never handed out
    heap_last_block,    \* offset of the block extend made last, or Null
    ret,                \* pointer the last call returned
    tag                 \* history: the id the owner of a block asked for

vars == <<block, heap_end, heap_last_block, ret, tag>>

Null  == -1
NoId  == -1
MAGIC == 83             \* MAGIC_NUMBER, octal 0123

Addr == 0 .. MEM_BUFFER

meta_data ==
    [size: Nat, available: {0, 1}, next_block: Addr \cup {Null},
     id: Ids, magic_number: {0, MAGIC}]

Blocks == {a \in Addr : block[a].magic_number = MAGIC}

Live == {a \in Blocks : block[a].available = 0}

BlockEnd(a) == a + METADATA_SIZE + block[a].size

-----------------------------------------------------------------------------
(* The blocks a walk along next_block visits when it starts at x. *)
ListFrom(x) ==
    LET visited[n \in Nat] ==
            IF n = 0
            THEN {x}
            ELSE LET v == visited[n - 1]
                 IN  v \cup {block[a].next_block : a \in v \cap Blocks}
    IN  Blocks \cap visited[Cardinality(Blocks)]

List == ListFrom(0)

align_size(size) ==
    IF size % ALIGNMENT_FACTOR # 0
    THEN (size + ALIGNMENT_FACTOR - (size % ALIGNMENT_FACTOR)) % UintMod
    ELSE size

(* Seeded fault: forgets to test available. *)
find_slot_any(size) ==
    LET fit == {a \in List : block[a].size >= size}
    IN  IF heap_end = 0 \/ heap_end < size
        THEN {}
        ELSE {a \in fit : fit \subseteq ListFrom(a)}

(* The first block of the list that is free and large enough, if any. *)
find_slot(size) ==
    LET fit == {a \in List : block[a].available = 1 /\ block[a].size >= size}
    IN  IF heap_end = 0 \/ heap_end < size
        THEN {}
        ELSE {a \in fit : fit \subseteq ListFrom(a)}

(* Seeded fault: the new header is placed without counting the old one. *)
divide_slot_close(slot, size, garbage) ==
    LET new_slot == slot + size
    IN  [block EXCEPT
            ![new_slot] = [size |-> block[slot].size - size - METADATA_SIZE,
                           available |-> 1,
                           next_block |-> block[slot].next_block,
                           id |-> garbage,
                           magic_number |-> MAGIC],
            ![slot].size = size,
            ![slot].available = 0,
            ![slot].next_block = new_slot]

(* The id field of the new header is not written: it keeps the pluglet data *)
(* that was there, so garbage may be any id.                                *)
divide_slot(slot, size, garbage) ==
    LET new_slot == slot + METADATA_SIZE + size
    IN  [block EXCEPT
            ![new_slot] = [size |-> block[slot].size - size - METADATA_SIZE,
                           available |-> 1,
                           next_block |-> block[slot].next_block,
                           id |-> garbage,
                           magic_number |-> MAGIC],
            ![slot].size = size,
            ![slot].available = 0,
            ![slot].next_block = new_slot]

occupy_slot(slot, size, garbage) ==
    IF block[slot].size > size + METADATA_SIZE
    THEN divide_slot(slot, size, garbage)
    ELSE [block EXCEPT ![slot].available = 0]

Failed ==
    [slot |-> Null, block |-> block, end |-> heap_end, last |-> heap_last_block]

(* Seeded fault: the new block is hung before heap_last_block. *)
extend_back(size) ==
    IF heap_end + size + METADATA_SIZE > MEM_BUFFER
    THEN Failed
    ELSE [slot  |-> heap_end,
          block |-> [block EXCEPT ![heap_end] =
                        [size |-> size, available |-> 0, next_block |-> heap_last_block,
                         id |-> block[heap_end].id, magic_number |-> MAGIC]],
          end   |-> heap_end + size + METADATA_SIZE,
          last  |-> heap_end]

(* my_sbrk refuses to grow past the buffer; otherwise the new block starts *)
(* at the old heap_end and is hung behind heap_last_block.                 *)
extend(size) ==
    LET new_block == [size |-> size, available |-> 0, next_block |-> Null,
                      id |-> block[heap_end].id, magic_number |-> MAGIC]
        linked    == IF heap_last_block = Null
                     THEN block
                     ELSE [block EXCEPT ![heap_last_block].next_block = heap_end]
    IN  IF heap_end + size + METADATA_SIZE > MEM_BUFFER
        THEN Failed
        ELSE [slot  |-> heap_end,
              block |-> [linked EXCEPT ![heap_end] = new_block],
              end   |-> heap_end + size + METADATA_SIZE,
              last  |-> heap_end]

(* What plugin_malloc can leave behind for an aligned size: the slot it *)
(* found or Null, and the heap after it.                                *)
allocate(size) ==
    LET slots == find_slot(size)
    IN  IF slots = {}
        THEN {extend(size)}
        ELSE {[slot |-> s, block |-> occupy_slot(s, size, g),
               end |-> heap_end, last |-> heap_last_block] :
                  s \in slots, g \in Ids}

Pointer(slot) == IF slot = Null THEN Null ELSE slot + METADATA_SIZE

-----------------------------------------------------------------------------
Init ==
    /\ block = [a \in Addr |-> [size |-> 0, available |-> 0,
                                next_block |-> Null, id |-> 0,
                                magic_number |-> 0]]
    /\ heap_end = 0
    /\ heap_last_block = Null
    /\ ret = Null
    /\ tag = [a \in Addr |-> NoId]

plugin_malloc(size) ==
    \E o \in allocate(align_size(size)) :
        /\ block' = o.block
        /\ heap_end' = o.end
        /\ heap_last_block' = o.last
        /\ ret' = Pointer(o.slot)
        /\ tag' = IF o.slot = Null THEN tag ELSE [tag EXCEPT ![o.slot] = NoId]

(* Seeded fault: the id is only written into a block that extend made. *)
plugin_malloc_with_id_once(id, size) ==
    \E o \in allocate(align_size(size)) :
        /\ block' = IF o.slot = heap_end
                    THEN [o.block EXCEPT ![o.slot].id = id]
                    ELSE o.block
        /\ heap_end' = o.end
        /\ heap_last_block' = o.last
        /\ ret' = Pointer(o.slot)
        /\ tag' = IF o.slot = Null THEN tag ELSE [tag EXCEPT ![o.slot] = id]

plugin_malloc_with_id(id, size) ==
    \E o \in allocate(align_size(size)) :
        /\ block' = IF o.slot = Null
                    THEN o.block
                    ELSE [o.block EXCEPT ![o.slot].id = id]
        /\ heap_end' = o.end
        /\ heap_last_block' = o.last
        /\ ret' = Pointer(o.slot)
        /\ tag' = IF o.slot = Null THEN tag ELSE [tag EXCEPT ![o.slot] = id]

(* The first live block of the list that carries the id, if any. *)
WithId(id) ==
    LET found == {a \in List : block[a].available = 0 /\ block[a].id = id}
    IN  IF heap_end = 0 THEN {} ELSE {a \in found : found \subseteq ListFrom(a)}

plugin_get_memory_with_id(id) ==
    /\ ret' \in IF WithId(id) = {} THEN {Null} ELSE {Pointer(a) : a \in WithId(id)}
    /\ UNCHANGED <<block, heap_end, heap_last_block, tag>>

(* Pluglets free pointers they were given, and may free one twice. *)
plugin_free(a) ==
    /\ block' = [block EXCEPT ![a].available = 1]
    /\ ret' = Null
    /\ UNCHANGED <<heap_end, heap_last_block, tag>>

(* Lowering the size keeps the block; raising it moves the data to a new *)
(* block, and frees the old one whether or not there was room.           *)
realloc_in_place(a, size) ==
    /\ size <= block[a].size
    /\ block' = [block EXCEPT ![a].size = size]
    /\ ret' = Pointer(a)
    /\ UNCHANGED <<heap_end, heap_last_block, tag>>

realloc_move(a, size) ==
    /\ size > block[a].size
    /\ \E o \in allocate(align_size(size)) :
        /\ block' = [o.block EXCEPT ![a].available = 1]
        /\ heap_end' = o.end
        /\ heap_last_block' = o.last
        /\ ret' = Pointer(o.slot)
        /\ tag' = IF o.slot = Null THEN tag ELSE [tag EXCEPT ![o.slot] = NoId]

plugin_realloc(a, size) == realloc_in_place(a, size) \/ realloc_move(a, size)

Next ==
    \/ \E size \in Sizes : plugin_malloc(size)
    \/ \E id \in Ids, size \in IdSizes : plugin_malloc_with_id(id, size)
    \/ \E id \in Ids : plugin_get_memory_with_id(id)
    \/ \E a \in Blocks : plugin_free(a)
    \/ \E a \in Live, size \in Sizes : plugin_realloc(a, size)

Spec == Init /\ [][Next]_vars

-----------------------------------------------------------------------------
(* Properties *)

(* Every header field, heap_end and heap_last_block hold values of the types *)
(* of meta_data and heap_t.                                                  *)
TypeOK ==
    /\ block \in [Addr -> meta_data]
    /\ heap_end \in Addr
    /\ heap_last_block \in Addr \cup {Null}
    /\ ret \in Int
    /\ tag \in [Addr -> Ids \cup {NoId}]

(* No call of the allocator ever makes a block run past heap_end, hence past *)
(* the buffer: divide_slot, extend and a shrinking plugin_realloc included.  *)
BlocksInHeap == \A a \in Blocks : BlockEnd(a) <= heap_end

(* Two blocks, header and data, never share a byte, whatever sequence of     *)
(* splits, extensions and reallocations made them.                           *)
BlocksDisjoint == \A a, b \in Blocks : a < b => BlockEnd(a) <= b

(* next_block leads from a header to a header further up, so the loops of    *)
(* find_slot and plugin_get_memory_with_id end.                              *)
ListAscends ==
    \A a \in Blocks :
        block[a].next_block # Null =>
            block[a].next_block \in Blocks /\ a < block[a].next_block

(* heap_last_block is NULL exactly as long as nothing was allocated, and     *)
(* otherwise names a header, the one extend hangs the next block behind.     *)
(* The walk of find_slot starts at offset 0, a header from then on.          *)
EndsAreBlocks ==
    /\ heap_last_block = Null <=> heap_end = 0
    /\ heap_end > 0 => heap_last_block \in Blocks /\ 0 \in Blocks

(* A step that allocates size takes no live block and shrinks none. *)
SparesLive(size) ==
    ( \/ plugin_malloc(size)
      \/ \E id \in Ids : plugin_malloc_with_id(id, size)
      \/ \E a \in Live : realloc_move(a, size) )
    => /\ ret' # Null => ret' - METADATA_SIZE \notin Live
       /\ \A b \in Live :
            /\ block'[b].size = block[b].size
            /\ block'[b].available = 1 => realloc_move(b, size)

(* plugin_malloc, plugin_malloc_with_id and a moving plugin_realloc hand out *)
(* a block that no pluglet owned, and leave every other block that one owns  *)
(* allocated and as large as before.                                         *)
AllocationSparesLive ==
    [][\A size \in Sizes \cup IdSizes : SparesLive(size)]_vars

(* A step that returns a pointer for size returns a block that large. *)
CoversRequest(size) ==
    ( \/ plugin_malloc(size)
      \/ \E id \in Ids : plugin_malloc_with_id(id, size)
      \/ \E a \in Live : plugin_realloc(a, size) )
    /\ size <= UintMod - ALIGNMENT_FACTOR
    /\ ret' # Null
    => block'[ret' - METADATA_SIZE].size >= size

(* A block handed out has room for what was asked, as long as rounding the   *)
(* size up does not wrap around unsigned int.                                *)
GrantCoversRequest ==
    [][\A size \in Sizes \cup IdSizes : CoversRequest(size)]_vars

(* The block plugin_get_memory_with_id finds was taken with the id it is     *)
(* asked, or with plugin_malloc, which leaves the id an earlier owner wrote; *)
(* never with another id, although plugin_free and divide_slot leave ids     *)
(* behind in free headers.                                                   *)
LookupFindsOwner ==
    \A id \in Ids : \A a \in WithId(id) : tag[a] = id \/ (tag[a] = NoId /\ Sizes # {})

(* The blocks pluglets own, without their headers. *)
Owned == {<<a + METADATA_SIZE, block[a].size>> : a \in Live}

Promise == INSTANCE Allocator WITH Limit <- MEM_BUFFER, owned <- Owned

(* plugin_malloc, plugin_malloc_with_id, plugin_free and plugin_realloc keep *)
(* the promise of an allocator, whatever headers they split, hang into the   *)
(* list, leave behind or reuse: each call gives out, takes back, shrinks or  *)
(* moves one region, and touches no other that is owned.                     *)
ImplementsAllocator == Promise!Spec
=============================================================================
