---------------------------- MODULE PluginProofs ----------------------------
(***************************************************************************)
(* What a pluglet and the code it is called from can rely on: the memory   *)
(* that PluginHeap hands out, and the table of PluginTab that the pluglet  *)
(* is found in.                                                            *)
(***************************************************************************)
EXTENDS PluginTab, PluginHeap, TLAPS

-----------------------------------------------------------------------------
(***************************************************************************)
(* The layout of the plugin heap is sound for every buffer size, header    *)
(* size, alignment and set of requests.  The inductive invariant is the    *)
(* conjunction of the invariants of PluginHeap.  It is stated over an      *)
(* arbitrary heap <<b, e, l>>, because plugin_realloc passes through the   *)
(* heap that plugin_malloc leaves before it frees the old block.           *)
(***************************************************************************)

Heads(b) == {a \in Addr : b[a].magic_number = MAGIC}

Layout(b, e, l) ==
    /\ b \in [Addr -> meta_data]
    /\ e \in Addr
    /\ l \in Addr \cup {Null}
    /\ \A a \in Heads(b) : a + METADATA_SIZE + b[a].size <= e
    /\ \A a, c \in Heads(b) : a < c => a + METADATA_SIZE + b[a].size <= c
    /\ \A a \in Heads(b) :
          b[a].next_block # Null =>
              b[a].next_block \in Heads(b) /\ a < b[a].next_block
    /\ l = Null <=> e = 0
    /\ e > 0 => l \in Heads(b) /\ 0 \in Heads(b)

LiveIn(b) == {a \in Heads(b) : b[a].available = 0}

HeapInv == TypeOK /\ BlocksInHeap /\ BlocksDisjoint /\ ListAscends /\ EndsAreBlocks

(* The invariant of the specification is the layout of the current heap. *)
LEMMA InvIsLayout ==
    HeapInv <=> /\ Layout(block, heap_end, heap_last_block)
             /\ ret \in Int
             /\ tag \in [Addr -> Ids \cup {NoId}]
BY Zenon DEF HeapInv, TypeOK, BlocksInHeap, BlocksDisjoint, ListAscends, EndsAreBlocks,
       Layout, Heads, Blocks, BlockEnd

(* align_size yields a natural number. *)
LEMMA AlignNat ==
    ASSUME NEW size \in 0 .. UintMod - 1
    PROVE  align_size(size) \in Nat
BY HeapConstants DEF align_size

(* Writing the available or the id field of a header, or lowering its size, *)
(* keeps the layout.                                                        *)
LEMMA RewriteKeepsLayout ==
    ASSUME NEW b, NEW e, NEW l, Layout(b, e, l), NEW a \in Heads(b),
           NEW m \in meta_data,
           m.magic_number = MAGIC, m.next_block = b[a].next_block,
           m.size <= b[a].size
    PROVE  /\ Layout([b EXCEPT ![a] = m], e, l)
           /\ Heads([b EXCEPT ![a] = m]) = Heads(b)
<1> DEFINE c == [b EXCEPT ![a] = m]
<1>1. c \in [Addr -> meta_data] /\ a \in Addr /\ b \in [Addr -> meta_data]
  BY Zenon DEF Layout, Heads
<1>2. Heads(c) = Heads(b)
  BY <1>1, Zenon DEF Heads
<1>3. \A d \in Heads(b) : c[d].size <= b[d].size /\ c[d].next_block = b[d].next_block
  BY <1>1 DEF Heads, meta_data
<1>4. \A d \in Heads(b) : d \in Int /\ c[d].size \in Nat /\ b[d].size \in Nat
  BY <1>1 DEF Heads, meta_data, Addr
<1>5. e \in Int /\ METADATA_SIZE \in Int
  BY HeapConstants DEF Layout, Addr
<1>6. \A d \in Heads(c) : d + METADATA_SIZE + c[d].size <= e
  <2> SUFFICES ASSUME NEW d \in Heads(c)
               PROVE  d + METADATA_SIZE + c[d].size <= e
    BY Zenon
  <2>1. d + METADATA_SIZE + b[d].size <= e
    BY <1>2, Zenon DEF Layout
  <2> QED BY <2>1, <1>2, <1>3, <1>4, <1>5
<1>7. \A d, f \in Heads(c) : d < f => d + METADATA_SIZE + c[d].size <= f
  <2> SUFFICES ASSUME NEW d \in Heads(c), NEW f \in Heads(c), d < f
               PROVE  d + METADATA_SIZE + c[d].size <= f
    BY Zenon
  <2>1. d + METADATA_SIZE + b[d].size <= f
    BY <1>2, Zenon DEF Layout
  <2> QED BY <2>1, <1>2, <1>3, <1>4, <1>5
<1>8. \A d \in Heads(c) :
        c[d].next_block # Null => c[d].next_block \in Heads(c) /\ d < c[d].next_block
  BY <1>2, <1>3, Zenon DEF Layout
<1> QED BY <1>1, <1>2, <1>6, <1>7, <1>8, Zenon DEF Layout

(* divide_slot splits a block that is larger than the request and a header. *)
LEMMA DivideKeepsLayout ==
    ASSUME HeapInv, NEW old \in Blocks, NEW size \in Nat, NEW g \in Ids,
           block[old].size > size + METADATA_SIZE
    PROVE  /\ Layout(divide_slot(old, size, g), heap_end, heap_last_block)
           /\ old \in Heads(divide_slot(old, size, g))
           /\ divide_slot(old, size, g)[old].available = 0
           /\ LiveIn(divide_slot(old, size, g)) = Live \cup {old}
<1> DEFINE n == old + METADATA_SIZE + size
           d == divide_slot(old, size, g)
           rest == [size |-> block[old].size - size - METADATA_SIZE,
                    available |-> 1, next_block |-> block[old].next_block,
                    id |-> g, magic_number |-> MAGIC]
           head == [block[old] EXCEPT !.size = size, !.available = 0,
                                       !.next_block = n]
<1>1. /\ Layout(block, heap_end, heap_last_block)
      /\ Blocks = Heads(block)
  BY InvIsLayout, Zenon DEF Blocks, Heads
<1>2. /\ block \in [Addr -> meta_data] /\ old \in Addr
      /\ block[old] \in meta_data /\ block[old].magic_number = MAGIC
      /\ heap_end \in Addr
  BY <1>1, Zenon DEF Layout, Heads
<1>3. /\ old \in Nat /\ block[old].size \in Nat /\ n \in Nat
      /\ old < n /\ heap_end \in Nat /\ heap_end <= MEM_BUFFER
      /\ METADATA_SIZE \in Nat /\ METADATA_SIZE > 0 /\ MEM_BUFFER \in Nat
      /\ block[old].next_block \in Addr \cup {Null}
  BY <1>2, HeapConstants DEF meta_data, Addr
<1>4. /\ old + METADATA_SIZE + block[old].size <= heap_end
      /\ n + METADATA_SIZE + rest.size = old + METADATA_SIZE + block[old].size
      /\ rest.size \in Nat
      /\ n + METADATA_SIZE < old + METADATA_SIZE + block[old].size
  BY <1>1, <1>2, <1>3 DEF Layout
<1>5. n \in Addr /\ n # old /\ n < heap_end
  <2> HIDE DEF n, rest
  <2> QED BY <1>3, <1>4 DEF Addr
<1>6. rest \in meta_data /\ head \in meta_data
  BY <1>2, <1>3, <1>4, <1>5, Zenon DEF meta_data
<1>7. d = [a \in Addr |-> IF a = old THEN head ELSE IF a = n THEN rest ELSE block[a]]
  BY <1>2, <1>5, Zenon DEF divide_slot
<1>8. d \in [Addr -> meta_data]
  BY <1>2, <1>6, <1>7, Zenon
<1>9. Heads(d) = Heads(block) \cup {n} /\ old \in Heads(block)
  BY <1>1, <1>2, <1>5, <1>7 DEF Heads
<1>10. n \notin Heads(block)
  <2> SUFFICES ASSUME n \in Heads(block) PROVE FALSE
    BY Zenon
  <2>1. old + METADATA_SIZE + block[old].size <= n
    BY <1>1, <1>3, Zenon DEF Layout
  <2> QED BY <2>1, <1>3, <1>4
<1>11. \A a \in Heads(block) : a \in Nat /\ block[a].size \in Nat
  BY <1>2 DEF Heads, meta_data, Addr
<1>12. /\ \A a \in Heads(block) : a # old => d[a] = block[a]
       /\ d[old] = head /\ d[n] = rest
  BY <1>2, <1>5, <1>7, <1>10, Zenon DEF Heads
<1>13. /\ head.size = size /\ head.next_block = n /\ head.available = 0
       /\ rest.next_block = block[old].next_block
  BY <1>2, Zenon DEF meta_data
<1>14. \A a \in Heads(d) : a + METADATA_SIZE + d[a].size <= heap_end
  <2> SUFFICES ASSUME NEW a \in Heads(d)
               PROVE  a + METADATA_SIZE + d[a].size <= heap_end
    BY Zenon
  <2>1. CASE a = n BY <2>1, <1>12, <1>4, Zenon
  <2>2. CASE a = old BY <2>2, <1>12, <1>13, <1>3, <1>4
  <2>3. CASE a # n /\ a # old BY <2>3, <1>1, <1>9, <1>12, Zenon DEF Layout
  <2> QED BY <2>1, <2>2, <2>3, Zenon
<1>15. \A a, c \in Heads(d) : a < c => a + METADATA_SIZE + d[a].size <= c
  <2> SUFFICES ASSUME NEW a \in Heads(d), NEW c \in Heads(d), a < c
               PROVE  a + METADATA_SIZE + d[a].size <= c
    BY Zenon
  <2>1. \A x, y \in Heads(block) : x < y => x + METADATA_SIZE + block[x].size <= y
    BY <1>1, Zenon DEF Layout
  <2>2. CASE a = n
    <3>1. c \in Heads(block) /\ old < c
      BY <2>2, <1>3, <1>9, <1>11
    <3>2. old + METADATA_SIZE + block[old].size <= c
      BY <3>1, <2>1, <1>9, Zenon
    <3> QED BY <3>2, <2>2, <1>4, <1>12, Zenon
  <2>3. CASE a = old
    <3>1. CASE c = n
      <4>1. d[a].size = size BY <2>3, <1>12, <1>13, Zenon
      <4> QED BY <4>1, <3>1, <2>3, <1>3
    <3>2. CASE c # n
      <4>1. c \in Heads(block) BY <3>2, <1>9, Zenon
      <4>2. old + METADATA_SIZE + block[old].size <= c
        BY <4>1, <2>1, <2>3, <1>9, Zenon
      <4> QED BY <4>1, <4>2, <2>3, <1>3, <1>11, <1>12, <1>13
    <3> QED BY <3>1, <3>2, Zenon
  <2>4. CASE a # n /\ a # old
    <3>1. a \in Heads(block) /\ d[a] = block[a] BY <2>4, <1>9, <1>12, Zenon
    <3>2. CASE c # n BY <3>1, <3>2, <2>1, <1>9, Zenon
    <3>3. CASE c = n
      <4>1. a < old
        <5> SUFFICES ASSUME old < a PROVE FALSE
          BY <2>4, <3>1, <1>3, <1>11
        <5>1. old + METADATA_SIZE + block[old].size <= a
          BY <3>1, <2>1, <1>9, Zenon
        <5>2. a < n BY <3>3, Zenon
        <5> HIDE DEF n, rest
        <5> QED BY <5>1, <5>2, <3>1, <1>3, <1>4, <1>11
      <4>2. a + METADATA_SIZE + block[a].size <= old
        BY <4>1, <3>1, <2>1, <1>9, Zenon
      <4>3. a + METADATA_SIZE + d[a].size <= old BY <4>2, <3>1, Zenon
      <4>4. d[a].size \in Nat /\ a \in Nat BY <3>1, <1>11, Zenon
      <4> HIDE DEF n, d
      <4> QED BY <4>3, <4>4, <3>3, <1>3
    <3> QED BY <3>2, <3>3, Zenon
  <2> QED BY <2>2, <2>3, <2>4, Zenon
<1>16. \A a \in Heads(d) :
         d[a].next_block # Null => d[a].next_block \in Heads(d) /\ a < d[a].next_block
  <2> SUFFICES ASSUME NEW a \in Heads(d), d[a].next_block # Null
               PROVE  d[a].next_block \in Heads(d) /\ a < d[a].next_block
    BY Zenon
  <2>1. \A x \in Heads(block) : block[x].next_block # Null =>
            block[x].next_block \in Heads(block) /\ x < block[x].next_block
    BY <1>1, Zenon DEF Layout
  <2>2. CASE a = old BY <2>2, <1>3, <1>9, <1>12, <1>13, Zenon
  <2>3. CASE a # old /\ a # n BY <2>1, <2>3, <1>9, <1>12, Zenon
  <2>4. CASE a = n
    <3>1. /\ block[old].next_block \in Heads(block)
          /\ old < block[old].next_block
      BY <2>1, <2>4, <1>9, <1>12, <1>13, Zenon
    <3>2. old + METADATA_SIZE + block[old].size <= block[old].next_block
      BY <3>1, <1>1, <1>9, Zenon DEF Layout
    <3>3. n < block[old].next_block
      BY <3>1, <3>2, <1>3, <1>4, <1>11
    <3> QED BY <3>1, <3>3, <2>4, <1>9, <1>12, <1>13, Zenon
  <2> QED BY <2>2, <2>3, <2>4, Zenon
<1>17. /\ heap_last_block = Null <=> heap_end = 0
       /\ heap_end > 0 => heap_last_block \in Heads(d) /\ 0 \in Heads(d)
       /\ heap_last_block \in Addr \cup {Null}
  BY <1>1, <1>9, Zenon DEF Layout
<1> HIDE DEF d
<1>18. Layout(d, heap_end, heap_last_block)
  BY <1>2, <1>8, <1>14, <1>15, <1>16, <1>17, Zenon DEF Layout
<1>19. rest.available = 1
  BY Zenon
<1>20. \A a \in Heads(block) : a # n
  BY <1>10, Zenon
<1>21. LiveIn(d) = Live \cup {old}
  <2> HIDE DEF n, rest, head
  <2> QED BY <1>1, <1>9, <1>12, <1>13, <1>19, <1>20 DEF LiveIn, Live
<1> QED BY <1>18, <1>9, <1>12, <1>13, <1>21, Zenon DEF d

(* extend hangs a block that starts at heap_end behind heap_last_block. *)
LEMMA ExtendKeepsLayout ==
    ASSUME HeapInv, NEW size \in Nat,
           heap_end + size + METADATA_SIZE <= MEM_BUFFER
    PROVE  LET o == extend(size)
           IN  /\ Layout(o.block, o.end, o.last)
               /\ o.slot = heap_end
               /\ heap_end \in Addr /\ heap_end \notin Blocks
               /\ o.slot \in Heads(o.block)
               /\ o.block[heap_end].size = size
               /\ \A a \in Blocks :
                    /\ a \in Heads(o.block)
                    /\ o.block[a].size = block[a].size
                    /\ o.block[a].available = block[a].available
                    /\ o.block[a].id = block[a].id
               /\ LiveIn(o.block) = Live \cup {heap_end}
<1> DEFINE o == extend(size)
           d == o.block
           new == [size |-> size, available |-> 0, next_block |-> Null,
                   id |-> block[heap_end].id, magic_number |-> MAGIC]
           link(a) == IF a = heap_last_block
                      THEN [block[a] EXCEPT !.next_block = heap_end]
                      ELSE block[a]
<1>1. /\ Layout(block, heap_end, heap_last_block)
      /\ Blocks = Heads(block)
  BY InvIsLayout, Zenon DEF Blocks, Heads
<1>2. /\ block \in [Addr -> meta_data] /\ heap_end \in Addr
      /\ heap_last_block \in Addr \cup {Null}
      /\ heap_last_block = Null <=> heap_end = 0
      /\ heap_end > 0 => heap_last_block \in Heads(block) /\ 0 \in Heads(block)
  BY <1>1, Zenon DEF Layout
<1>3. /\ heap_end \in Nat /\ MEM_BUFFER \in Nat
      /\ METADATA_SIZE \in Nat /\ METADATA_SIZE > 0
      /\ heap_end + size + METADATA_SIZE \in Addr
      /\ heap_end < heap_end + size + METADATA_SIZE
      /\ Null \notin Addr
  BY <1>2, HeapConstants DEF Addr, Null
<1>4. \A a \in Heads(block) : /\ a \in Nat /\ a \in Addr /\ block[a].size \in Nat
                              /\ block[a] \in meta_data
                              /\ block[a].magic_number = MAGIC
  BY <1>2 DEF Heads, meta_data, Addr
<1>5. \A a \in Heads(block) : /\ a + METADATA_SIZE + block[a].size <= heap_end
                              /\ a < heap_end
  BY <1>1, <1>3, <1>4 DEF Layout
<1>6. heap_end \notin Heads(block) /\ heap_end # heap_last_block
  BY <1>2, <1>3, <1>4, <1>5
<1>7. new \in meta_data
  BY <1>2, <1>3, Zenon DEF meta_data
<1>8. o.slot = heap_end /\ o.end = heap_end + size + METADATA_SIZE /\ o.last = heap_end
  BY <1>3 DEF extend
<1>9. d = [a \in Addr |-> IF a = heap_end THEN new ELSE link(a)]
  <2> DEFINE linked == IF heap_last_block = Null
                       THEN block
                       ELSE [block EXCEPT ![heap_last_block].next_block = heap_end]
  <2>1. ~(heap_end + size + METADATA_SIZE > MEM_BUFFER)
    BY <1>3
  <2>2. d = [linked EXCEPT ![heap_end] = new]
    BY <2>1, Zenon DEF extend
  <2>3. linked = [a \in Addr |-> link(a)]
    <3>1. CASE heap_last_block = Null
      BY <3>1, <1>2, <1>3, Zenon
    <3>2. CASE heap_last_block # Null
      BY <3>2, <1>2, Zenon
    <3> QED BY <3>1, <3>2, Zenon
  <2> HIDE DEF linked, new, link, d
  <2> QED BY <2>2, <2>3, Zenon
<1>10. \A a \in Addr :
         /\ link(a) \in meta_data
         /\ link(a).size = block[a].size
         /\ link(a).available = block[a].available
         /\ link(a).id = block[a].id
         /\ link(a).magic_number = block[a].magic_number
         /\ link(a).next_block =
               IF a = heap_last_block THEN heap_end ELSE block[a].next_block
  BY <1>2 DEF meta_data
<1> HIDE DEF link, o
<1>11. d \in [Addr -> meta_data]
  BY <1>7, <1>9, <1>10
<1>12. /\ Heads(d) = Heads(block) \cup {heap_end}
       /\ d[heap_end] = new
       /\ \A a \in Heads(block) : d[a] = link(a)
  BY <1>2, <1>4, <1>6, <1>9, <1>10 DEF Heads
<1>13. \A a \in Heads(d) : a + METADATA_SIZE + d[a].size <= o.end
  BY <1>3, <1>4, <1>5, <1>8, <1>10, <1>12
<1>14. \A a, c \in Heads(d) : a < c => a + METADATA_SIZE + d[a].size <= c
  <2> SUFFICES ASSUME NEW a \in Heads(d), NEW c \in Heads(d), a < c
               PROVE  a + METADATA_SIZE + d[a].size <= c
    BY Zenon
  <2>1. a \in Heads(block) /\ d[a].size = block[a].size
    BY <1>3, <1>4, <1>5, <1>10, <1>12
  <2>2. CASE c = heap_end BY <2>1, <2>2, <1>5, Zenon
  <2>3. CASE c # heap_end BY <2>1, <2>3, <1>1, <1>12, Zenon DEF Layout
  <2> QED BY <2>2, <2>3, Zenon
<1>15. \A a \in Heads(d) :
         d[a].next_block # Null => d[a].next_block \in Heads(d) /\ a < d[a].next_block
  <2> SUFFICES ASSUME NEW a \in Heads(d), d[a].next_block # Null
               PROVE  d[a].next_block \in Heads(d) /\ a < d[a].next_block
    BY Zenon
  <2>1. a \in Heads(block) /\ d[a] = link(a)
    BY <1>12
  <2>2. CASE a = heap_last_block BY <2>1, <2>2, <1>4, <1>5, <1>10, <1>12
  <2>3. CASE a # heap_last_block
    <3>1. d[a].next_block = block[a].next_block
      BY <2>1, <2>3, <1>4, <1>10, Zenon
    <3> QED BY <3>1, <2>1, <1>1, <1>12, Zenon DEF Layout
  <2> QED BY <2>2, <2>3, Zenon
<1>16. 0 \in Heads(d)
  BY <1>2, <1>3, <1>12
<1>17. /\ o.end \in Addr /\ o.last \in Addr \cup {Null}
       /\ o.last = Null <=> o.end = 0
       /\ o.end > 0 => o.last \in Heads(d) /\ 0 \in Heads(d)
  BY <1>2, <1>3, <1>8, <1>12, <1>16
<1>18. Layout(d, o.end, o.last)
  <2> HIDE DEF d
  <2> QED BY <1>11, <1>13, <1>14, <1>15, <1>17, Zenon DEF Layout
<1>19. \A a \in Blocks : /\ a \in Heads(d)
                         /\ d[a].size = block[a].size
                         /\ d[a].available = block[a].available
                         /\ d[a].id = block[a].id
  BY <1>1, <1>4, <1>10, <1>12
<1>20. LiveIn(d) = Live \cup {heap_end}
  <2>1. new.available = 0
    BY Zenon
  <2> HIDE DEF d, new
  <2> QED BY <2>1, <1>1, <1>12, <1>19, Zenon DEF LiveIn, Live
<1> QED BY <1>1, <1>2, <1>6, <1>8, <1>12, <1>18, <1>19, <1>20 DEF o

(* Every outcome of an allocation is a sound heap.  A slot it names was not *)
(* live and has the size asked; live blocks stay as they were.              *)
LEMMA AllocateKeepsLayout ==
    ASSUME HeapInv, NEW size \in Nat, NEW o \in allocate(size)
    PROVE  /\ Layout(o.block, o.end, o.last)
           /\ o.slot \in Addr \cup {Null}
           /\ o.slot # Null => /\ o.slot \in Heads(o.block)
                               /\ o.slot \notin Live
                               /\ o.block[o.slot].size >= size
           /\ \A a \in Live : /\ a \in Heads(o.block)
                              /\ o.block[a].size = block[a].size
                              /\ o.block[a].available = 0
                              /\ o.block[a].id = block[a].id
           /\ LiveIn(o.block) = Live \cup ({o.slot} \ {Null})
<1>1. /\ Layout(block, heap_end, heap_last_block)
      /\ Blocks = Heads(block) /\ Blocks \subseteq Addr
      /\ block \in [Addr -> meta_data]
      /\ heap_end \in Nat /\ METADATA_SIZE \in Nat /\ MEM_BUFFER \in Nat
      /\ Null \notin Addr
  BY InvIsLayout, HeapConstants DEF Blocks, Heads, Layout, Addr, Null
<1>2. CASE o = extend(size)
  <2>1. CASE heap_end + size + METADATA_SIZE > MEM_BUFFER
    <3>1. /\ o.slot = Null /\ o.block = block /\ o.end = heap_end
          /\ o.last = heap_last_block
      BY <1>2, <2>1, Zenon DEF extend, Failed
    <3> QED BY <3>1, <1>1, Zenon DEF Live, LiveIn
  <2>2. CASE heap_end + size + METADATA_SIZE <= MEM_BUFFER
    <3> QED BY <1>1, <1>2, <2>2, ExtendKeepsLayout DEF Live
  <2> QED BY <2>1, <2>2, <1>1
<1>3. CASE \E s \in find_slot(size), g \in Ids :
             o = [slot |-> s, block |-> occupy_slot(s, size, g),
                  end |-> heap_end, last |-> heap_last_block]
  <2>1. PICK s \in find_slot(size), g \in Ids :
             o = [slot |-> s, block |-> occupy_slot(s, size, g),
                  end |-> heap_end, last |-> heap_last_block]
    BY <1>3, Zenon
  <2>2. s \in Blocks /\ block[s].available = 1 /\ block[s].size >= size
    BY <2>1, Zenon DEF find_slot, List, ListFrom
  <2>3. s \notin Live /\ s \in Addr /\ block[s] \in meta_data
    BY <2>2, <1>1 DEF Live
  <2>4. CASE block[s].size > size + METADATA_SIZE
    <3>1. o.block = divide_slot(s, size, g)
      BY <2>1, <2>4, Zenon DEF occupy_slot
    <3>2. Layout(o.block, o.end, o.last) /\ s \in Heads(o.block)
      BY <2>1, <2>2, <2>4, <3>1, DivideKeepsLayout, Zenon
    <3> DEFINE n == s + METADATA_SIZE + size
    <3>3. n \notin Blocks /\ n # s
      <4>1. s \in Nat /\ block[s].size \in Nat /\ METADATA_SIZE > 0
        BY <2>3, HeapConstants DEF meta_data, Addr
      <4>2. ASSUME n \in Blocks PROVE FALSE
        <5>1. s + METADATA_SIZE + block[s].size <= n
          BY <4>1, <4>2, <2>2, <1>1 DEF Layout
        <5> QED BY <5>1, <4>1, <2>4, <1>1
      <4> QED BY <4>1, <4>2, <1>1
    <3>4. \A a \in Live : o.block[a] = block[a]
      BY <3>1, <3>3, <2>3, <1>1, Zenon DEF divide_slot, Live
    <3>5. o.block[s].size = size
      BY <3>1, <3>3, <2>3, <1>1 DEF divide_slot, meta_data
    <3>6. \A a \in Live : a \in Heads(o.block) /\ block[a].available = 0
      BY <3>4, <1>1, Zenon DEF Live, Heads
    <3>7. o.slot = s
      BY <2>1, Zenon
    <3>8. LiveIn(o.block) = Live \cup {s}
      BY <2>2, <2>4, <3>1, DivideKeepsLayout
    <3> QED BY <3>2, <3>4, <3>5, <3>6, <3>7, <3>8, <2>3, <1>1
  <2>5. CASE ~(block[s].size > size + METADATA_SIZE)
    <3> DEFINE m == [block[s] EXCEPT !.available = 0]
    <3>1. o.block = [block EXCEPT ![s] = m]
      BY <2>1, <2>5, <2>3, <1>1, Zenon DEF occupy_slot
    <3>2. /\ m \in meta_data /\ m.magic_number = MAGIC
          /\ m.next_block = block[s].next_block /\ m.size = block[s].size
      BY <2>2, <2>3, Zenon DEF meta_data, Blocks
    <3>3. m.size <= block[s].size
      BY <3>2, <2>3 DEF meta_data
    <3> HIDE DEF m
    <3>4. /\ Layout(o.block, heap_end, heap_last_block)
          /\ Heads(o.block) = Heads(block)
      <4>1. s \in Heads(block) /\ m.size <= block[s].size
        BY <3>3, <2>2, <1>1, Zenon
      <4>2. /\ Layout([block EXCEPT ![s] = m], heap_end, heap_last_block)
            /\ Heads([block EXCEPT ![s] = m]) = Heads(block)
        BY <4>1, <3>2, <1>1, RewriteKeepsLayout, Zenon
      <4> QED BY <4>2, <3>1, Zenon
    <3>5. \A a \in Live : o.block[a] = block[a]
      BY <3>1, <2>3, <1>1, Zenon DEF Live
    <3>6. o.slot = s /\ o.end = heap_end /\ o.last = heap_last_block
      BY <2>1, Zenon
    <3>7. o.block[s].size >= size
      BY <3>1, <3>2, <2>2, <2>3, <1>1, Zenon
    <3>8. m.available = 0
      BY <2>3, Zenon DEF m, meta_data
    <3>9. LiveIn(o.block) = Live \cup {s}
      BY <3>1, <3>4, <3>8, <2>2, <2>3, <1>1 DEF LiveIn, Live
    <3> QED BY <3>4, <3>5, <3>6, <3>7, <3>9, <2>2, <2>3, <1>1, Zenon DEF Live
  <2> QED BY <2>4, <2>5, Zenon
<1> QED BY <1>2, <1>3 DEF allocate

(* The empty heap an insertion point sets up is sound. *)
LEMMA HeapInvInit == Init => HeapInv
<1> SUFFICES ASSUME Init PROVE HeapInv
  BY Zenon
<1>1. \A a \in Addr : block[a].magic_number # MAGIC
  BY DEF Init, MAGIC
<1>2. Blocks = {}
  BY <1>1, Zenon DEF Blocks
<1>3. TypeOK
  BY HeapConstants DEF Init, TypeOK, meta_data, Addr, Null, NoId, MAGIC
<1> QED BY <1>2, <1>3 DEF HeapInv, BlocksInHeap, BlocksDisjoint, ListAscends,
                         EndsAreBlocks, Init

(* Marking a header free keeps the layout. *)
LEMMA FreeKeepsLayout ==
    ASSUME NEW b, NEW e, NEW l, Layout(b, e, l), NEW a \in Heads(b)
    PROVE  Layout([b EXCEPT ![a].available = 1], e, l)
<1> DEFINE m == [b[a] EXCEPT !.available = 1]
<1>1. b \in [Addr -> meta_data] /\ a \in Addr /\ b[a].magic_number = MAGIC
  BY Zenon DEF Layout, Heads
<1>2. /\ m \in meta_data /\ m.magic_number = MAGIC
      /\ m.next_block = b[a].next_block /\ m.size <= b[a].size
  BY <1>1 DEF meta_data
<1>3. [b EXCEPT ![a].available = 1] = [b EXCEPT ![a] = m]
  BY <1>1, Zenon
<1> HIDE DEF m
<1>4. Layout([b EXCEPT ![a] = m], e, l)
  BY <1>2, RewriteKeepsLayout, Zenon
<1> QED BY <1>3, <1>4, Zenon

(* Writing an id into a header keeps the layout. *)
LEMMA IdKeepsLayout ==
    ASSUME NEW b, NEW e, NEW l, Layout(b, e, l), NEW a \in Heads(b),
           NEW i \in Ids
    PROVE  Layout([b EXCEPT ![a].id = i], e, l)
<1> DEFINE m == [b[a] EXCEPT !.id = i]
<1>1. b \in [Addr -> meta_data] /\ a \in Addr /\ b[a].magic_number = MAGIC
  BY Zenon DEF Layout, Heads
<1>2. /\ m \in meta_data /\ m.magic_number = MAGIC
      /\ m.next_block = b[a].next_block /\ m.size <= b[a].size
  BY <1>1 DEF meta_data
<1>3. [b EXCEPT ![a].id = i] = [b EXCEPT ![a] = m]
  BY <1>1, Zenon
<1> HIDE DEF m
<1>4. Layout([b EXCEPT ![a] = m], e, l)
  BY <1>2, RewriteKeepsLayout, Zenon
<1> QED BY <1>3, <1>4, Zenon

(* Lowering the size of a header keeps the layout. *)
LEMMA ShrinkKeepsLayout ==
    ASSUME NEW b, NEW e, NEW l, Layout(b, e, l), NEW a \in Heads(b),
           NEW size \in Nat, size <= b[a].size
    PROVE  Layout([b EXCEPT ![a].size = size], e, l)
<1> DEFINE m == [b[a] EXCEPT !.size = size]
<1>1. b \in [Addr -> meta_data] /\ a \in Addr /\ b[a].magic_number = MAGIC
  BY Zenon DEF Layout, Heads
<1>2. /\ m \in meta_data /\ m.magic_number = MAGIC
      /\ m.next_block = b[a].next_block /\ m.size <= b[a].size
  BY <1>1 DEF meta_data
<1>3. [b EXCEPT ![a].size = size] = [b EXCEPT ![a] = m]
  BY <1>1, Zenon
<1> HIDE DEF m
<1>4. Layout([b EXCEPT ![a] = m], e, l)
  BY <1>2, RewriteKeepsLayout, Zenon
<1> QED BY <1>3, <1>4, Zenon

(* A pointer computed from a slot is an integer, and a tag recorded for a   *)
(* slot keeps the type of the history variable.                             *)
LEMMA PointerAndTag ==
    ASSUME NEW s \in Addr \cup {Null}, NEW t \in Ids \cup {NoId},
           tag \in [Addr -> Ids \cup {NoId}]
    PROVE  /\ Pointer(s) \in Int
           /\ (IF s = Null THEN tag ELSE [tag EXCEPT ![s] = t])
                  \in [Addr -> Ids \cup {NoId}]
<1>1. Pointer(s) \in Int
  BY HeapConstants DEF Pointer, Addr, Null
<1>2. CASE s = Null BY <1>1, <1>2, Zenon
<1>3. CASE s # Null BY <1>1, <1>3, Zenon
<1> QED BY <1>2, <1>3, Zenon

(* The invariant is inductive: one step per function of the allocator. *)
LEMMA HeapInvNext == HeapInv /\ [Next]_vars => HeapInv'
<1> SUFFICES ASSUME HeapInv, [Next]_vars PROVE HeapInv'
  BY Zenon
<1>1. /\ Layout(block, heap_end, heap_last_block)
      /\ ret \in Int /\ tag \in [Addr -> Ids \cup {NoId}]
      /\ Blocks = Heads(block) /\ Live \subseteq Blocks
  BY InvIsLayout, Zenon DEF Blocks, Heads, Live
<1>2. SUFFICES /\ Layout(block', heap_end', heap_last_block')
               /\ ret' \in Int /\ tag' \in [Addr -> Ids \cup {NoId}]
  BY Zenon DEF HeapInv, TypeOK, BlocksInHeap, BlocksDisjoint, ListAscends,
         EndsAreBlocks, Layout, Heads, Blocks, BlockEnd
<1>3. ASSUME NEW size \in Sizes, plugin_malloc(size)
      PROVE  /\ Layout(block', heap_end', heap_last_block')
             /\ ret' \in Int /\ tag' \in [Addr -> Ids \cup {NoId}]
  <2>1. align_size(size) \in Nat
    BY AlignNat, HeapConstants, Zenon
  <2>2. PICK o \in allocate(align_size(size)) :
          /\ block' = o.block /\ heap_end' = o.end /\ heap_last_block' = o.last
          /\ ret' = Pointer(o.slot)
          /\ tag' = IF o.slot = Null THEN tag ELSE [tag EXCEPT ![o.slot] = NoId]
    BY <1>3, Zenon DEF plugin_malloc
  <2>3. Layout(o.block, o.end, o.last) /\ o.slot \in Addr \cup {Null}
    BY <2>1, <2>2, AllocateKeepsLayout, Zenon
  <2> QED BY <2>2, <2>3, <1>1, PointerAndTag, Zenon
<1>4. ASSUME NEW i \in Ids, NEW size \in IdSizes, plugin_malloc_with_id(i, size)
      PROVE  /\ Layout(block', heap_end', heap_last_block')
             /\ ret' \in Int /\ tag' \in [Addr -> Ids \cup {NoId}]
  <2>1. align_size(size) \in Nat
    BY AlignNat, HeapConstants, Zenon
  <2>2. PICK o \in allocate(align_size(size)) :
          /\ block' = IF o.slot = Null THEN o.block
                      ELSE [o.block EXCEPT ![o.slot].id = i]
          /\ heap_end' = o.end /\ heap_last_block' = o.last
          /\ ret' = Pointer(o.slot)
          /\ tag' = IF o.slot = Null THEN tag ELSE [tag EXCEPT ![o.slot] = i]
    BY <1>4, Zenon DEF plugin_malloc_with_id
  <2>3. /\ Layout(o.block, o.end, o.last) /\ o.slot \in Addr \cup {Null}
        /\ o.slot # Null => o.slot \in Heads(o.block)
    BY <2>1, <2>2, AllocateKeepsLayout, Zenon
  <2>4. o.slot # Null => Layout([o.block EXCEPT ![o.slot].id = i], o.end, o.last)
    BY <2>3, IdKeepsLayout, Zenon
  <2>5. Layout(block', heap_end', heap_last_block')
    BY <2>2, <2>3, <2>4, Zenon
  <2> QED BY <2>2, <2>3, <2>5, <1>1, PointerAndTag, Zenon
<1>5. ASSUME NEW i \in Ids, plugin_get_memory_with_id(i)
      PROVE  /\ Layout(block', heap_end', heap_last_block')
             /\ ret' \in Int /\ tag' \in [Addr -> Ids \cup {NoId}]
  <2>1. \A a \in WithId(i) : a \in Addr
    BY Zenon DEF WithId, List, ListFrom, Blocks
  <2>2. \A a \in WithId(i) : Pointer(a) \in Int
    BY <2>1, <1>1, PointerAndTag, Zenon
  <2>3. ret' \in Int
    BY <1>5, <2>2 DEF plugin_get_memory_with_id, Null
  <2> QED BY <1>1, <1>5, <2>3, Zenon DEF plugin_get_memory_with_id
<1>6. ASSUME NEW a \in Blocks, plugin_free(a)
      PROVE  /\ Layout(block', heap_end', heap_last_block')
             /\ ret' \in Int /\ tag' \in [Addr -> Ids \cup {NoId}]
  <2>1. Layout([block EXCEPT ![a].available = 1], heap_end, heap_last_block)
    BY <1>1, FreeKeepsLayout, Zenon
  <2>2. ret' \in Int
    BY <1>6 DEF plugin_free, Null
  <2>3. /\ block' = [block EXCEPT ![a].available = 1] /\ heap_end' = heap_end
        /\ heap_last_block' = heap_last_block /\ tag' = tag
    BY <1>6, Zenon DEF plugin_free
  <2>4. Layout(block', heap_end', heap_last_block')
    BY <2>1, <2>3, Zenon
  <2> QED BY <1>1, <2>2, <2>3, <2>4, Zenon
<1>7. ASSUME NEW a \in Live, NEW size \in Sizes, realloc_in_place(a, size)
      PROVE  /\ Layout(block', heap_end', heap_last_block')
             /\ ret' \in Int /\ tag' \in [Addr -> Ids \cup {NoId}]
  <2>1. size \in Nat /\ a \in Heads(block) /\ a \in Addr
    BY <1>1, HeapConstants DEF Heads
  <2>2. size <= block[a].size /\ block' = [block EXCEPT ![a].size = size]
    BY <1>7, Zenon DEF realloc_in_place
  <2>3. Layout([block EXCEPT ![a].size = size], heap_end, heap_last_block)
    BY <2>1, <2>2, <1>1, ShrinkKeepsLayout, Zenon
  <2>4. /\ ret' = Pointer(a) /\ heap_end' = heap_end
        /\ heap_last_block' = heap_last_block /\ tag' = tag
    BY <1>7, Zenon DEF realloc_in_place
  <2>5. ret' \in Int
    BY <2>1, <2>4, <1>1, PointerAndTag, Zenon
  <2>6. Layout(block', heap_end', heap_last_block')
    BY <2>2, <2>3, <2>4, Zenon
  <2> QED BY <1>1, <2>4, <2>5, <2>6, Zenon
<1>8. ASSUME NEW a \in Live, NEW size \in Sizes, realloc_move(a, size)
      PROVE  /\ Layout(block', heap_end', heap_last_block')
             /\ ret' \in Int /\ tag' \in [Addr -> Ids \cup {NoId}]
  <2>1. align_size(size) \in Nat
    BY AlignNat, HeapConstants, Zenon
  <2>2. PICK o \in allocate(align_size(size)) :
          /\ block' = [o.block EXCEPT ![a].available = 1]
          /\ heap_end' = o.end /\ heap_last_block' = o.last
          /\ ret' = Pointer(o.slot)
          /\ tag' = IF o.slot = Null THEN tag ELSE [tag EXCEPT ![o.slot] = NoId]
    BY <1>8, Zenon DEF realloc_move
  <2>3. /\ Layout(o.block, o.end, o.last) /\ o.slot \in Addr \cup {Null}
        /\ a \in Heads(o.block)
    BY <2>1, <2>2, AllocateKeepsLayout, Zenon
  <2>4. Layout([o.block EXCEPT ![a].available = 1], o.end, o.last)
    BY <2>3, FreeKeepsLayout, Zenon
  <2>5. Layout(block', heap_end', heap_last_block')
    BY <2>2, <2>4, Zenon
  <2> QED BY <2>2, <2>3, <2>5, <1>1, PointerAndTag, Zenon
<1>9. CASE UNCHANGED vars
  BY <1>1, <1>9, Zenon DEF vars
<1> QED BY <1>3, <1>4, <1>5, <1>6, <1>7, <1>8, <1>9, Zenon DEF Next, plugin_realloc

(* For every buffer, header size and alignment, and every sequence of calls *)
(* of the allocator: the fields stay typed, blocks stay in the heap, no two *)
(* blocks share a byte, the list only leads upwards and its ends are blocks.*)
THEOREM HeapLayoutSound ==
    Spec => [](TypeOK /\ BlocksInHeap /\ BlocksDisjoint /\ ListAscends
               /\ EndsAreBlocks)
<1>1. HeapInv => TypeOK /\ BlocksInHeap /\ BlocksDisjoint /\ ListAscends /\ EndsAreBlocks
  BY Zenon DEF HeapInv
<1> QED BY <1>1, HeapInvInit, HeapInvNext, PTL DEF Spec

(* For every buffer and every sequence of calls next_block leads upwards,   *)
(* so the loops of find_slot and plugin_get_memory_with_id end.             *)
THEOREM LinksAscend == Spec => []ListAscends
BY HeapLayoutSound, PTL

(* Rounding up never yields less than the request unless it wraps. *)
LEMMA AlignCovers ==
    ASSUME NEW size \in 0 .. UintMod - 1, size <= UintMod - ALIGNMENT_FACTOR
    PROVE  align_size(size) >= size
<1> DEFINE r == size % ALIGNMENT_FACTOR
           up == size + ALIGNMENT_FACTOR - r
<1>1. r \in 0 .. ALIGNMENT_FACTOR - 1
  BY HeapConstants
<1>2. CASE r = 0
  BY <1>2, HeapConstants DEF align_size
<1>3. CASE r # 0
  <2>1. up \in 0 .. UintMod - 1 /\ up > size
    BY <1>1, <1>3, HeapConstants
  <2>2. \A x \in 0 .. UintMod - 1 : x % UintMod = x
    BY HeapConstants
  <2>3. align_size(size) = up
    BY <2>1, <2>2, <1>3, Zenon DEF align_size
  <2> QED BY <2>1, <2>3
<1> QED BY <1>2, <1>3, Zenon

(* What AllocateKeepsLayout says of an outcome, for the three functions     *)
(* that install one.                                                        *)
LEMMA SpareStep ==
    ASSUME HeapInv, NEW size \in Sizes \cup IdSizes
    PROVE  SparesLive(size)
<1>1. align_size(size) \in Nat
  BY AlignNat, HeapConstants, Zenon
<1>2. /\ METADATA_SIZE \in Nat /\ Null \notin Addr
      /\ Live \subseteq Addr /\ Addr \subseteq Int
      /\ \A s \in Addr : s + METADATA_SIZE - METADATA_SIZE = s
  BY HeapConstants DEF Live, Blocks, Addr, Null
<1>3. ASSUME NEW s \in Addr \cup {Null}, Pointer(s) # Null,
             s # Null => s \notin Live
      PROVE  Pointer(s) - METADATA_SIZE \notin Live
  BY <1>2, <1>3 DEF Pointer
<1>4. ASSUME plugin_malloc(size)
      PROVE  /\ ret' # Null => ret' - METADATA_SIZE \notin Live
             /\ \A b \in Live : /\ block'[b].size = block[b].size
                                /\ block'[b].available = 0
  <2>1. PICK o \in allocate(align_size(size)) :
          block' = o.block /\ ret' = Pointer(o.slot)
    BY <1>4, Zenon DEF plugin_malloc
  <2> QED BY <2>1, <1>1, <1>3, AllocateKeepsLayout
<1>5. ASSUME NEW i \in Ids, plugin_malloc_with_id(i, size)
      PROVE  /\ ret' # Null => ret' - METADATA_SIZE \notin Live
             /\ \A b \in Live : /\ block'[b].size = block[b].size
                                /\ block'[b].available = 0
  <2>1. PICK o \in allocate(align_size(size)) :
          /\ block' = IF o.slot = Null THEN o.block
                      ELSE [o.block EXCEPT ![o.slot].id = i]
          /\ ret' = Pointer(o.slot)
    BY <1>5, Zenon DEF plugin_malloc_with_id
  <2>2. /\ o.slot \in Addr \cup {Null} /\ (o.slot # Null => o.slot \notin Live)
        /\ Layout(o.block, o.end, o.last)
        /\ \A a \in Live : /\ o.block[a].size = block[a].size
                           /\ o.block[a].available = 0
    BY <2>1, <1>1, AllocateKeepsLayout
  <2>3. \A b \in Live : block'[b] = o.block[b]
    BY <2>1, <2>2, <1>2, Zenon DEF Layout
  <2> QED BY <2>1, <2>2, <2>3, <1>3, Zenon
<1>6. ASSUME NEW a \in Live, realloc_move(a, size)
      PROVE  /\ ret' # Null => ret' - METADATA_SIZE \notin Live
             /\ \A b \in Live : /\ block'[b].size = block[b].size
                                /\ b # a => block'[b].available = 0
  <2>1. PICK o \in allocate(align_size(size)) :
          /\ block' = [o.block EXCEPT ![a].available = 1]
          /\ ret' = Pointer(o.slot)
    BY <1>6, Zenon DEF realloc_move
  <2>2. /\ o.slot \in Addr \cup {Null} /\ (o.slot # Null => o.slot \notin Live)
        /\ o.block \in [Addr -> meta_data]
        /\ \A b \in Live : /\ o.block[b].size = block[b].size
                           /\ o.block[b].available = 0
    BY <2>1, <1>1, AllocateKeepsLayout DEF Layout
  <2>3. \A b \in Live : /\ block'[b].size = o.block[b].size
                        /\ b # a => block'[b] = o.block[b]
    BY <2>1, <2>2, <1>2 DEF meta_data
  <2> QED BY <2>1, <2>2, <2>3, <1>3, Zenon
<1> DEFINE Spared == /\ ret' # Null => ret' - METADATA_SIZE \notin Live
                     /\ \A b \in Live :
                          /\ block'[b].size = block[b].size
                          /\ block'[b].available = 1 => realloc_move(b, size)
<1>7. plugin_malloc(size) => Spared
  <2> SUFFICES ASSUME plugin_malloc(size) PROVE Spared
    BY Zenon
  <2> QED BY <1>4
<1>8. ASSUME NEW i \in Ids PROVE plugin_malloc_with_id(i, size) => Spared
  <2> SUFFICES ASSUME plugin_malloc_with_id(i, size) PROVE Spared
    BY Zenon
  <2> QED BY <1>5
<1>9. ASSUME NEW a \in Live PROVE realloc_move(a, size) => Spared
  <2> SUFFICES ASSUME realloc_move(a, size) PROVE Spared
    BY Zenon
  <2>1. /\ ret' # Null => ret' - METADATA_SIZE \notin Live
        /\ \A b \in Live : /\ block'[b].size = block[b].size
                           /\ b # a => block'[b].available = 0
    BY <1>6, Zenon
  <2>2. \A b \in Live : block'[b].available = 1 => b = a
    <3> SUFFICES ASSUME NEW b \in Live, block'[b].available = 1, b # a
                 PROVE  FALSE
      BY Zenon
    <3>1. block'[b].available = 0
      BY <2>1, Zenon
    <3> QED BY <3>1
  <2>3. \A b \in Live : block'[b].available = 1 => realloc_move(b, size)
    BY <2>2, Zenon
  <2>4. /\ ret' # Null => ret' - METADATA_SIZE \notin Live
        /\ \A b \in Live : block'[b].size = block[b].size
    BY <2>1, Zenon
  <2> QED BY <2>3, <2>4, Zenon
<1> QED BY <1>7, <1>8, <1>9, Zenon DEF SparesLive

(* No sequence of calls makes the allocator hand out a block that is still  *)
(* owned, or release or resize a block other than the one being moved.      *)
THEOREM AllocationIsExclusive == Spec => AllocationSparesLive
<1>1. HeapInv => \A size \in Sizes \cup IdSizes : SparesLive(size)
  BY SpareStep, Zenon
<1>2. HeapInv /\ [Next]_vars => [\A size \in Sizes \cup IdSizes : SparesLive(size)]_vars
  BY <1>1, Zenon
<1> QED BY <1>2, HeapInvInit, HeapInvNext, PTL DEF Spec, AllocationSparesLive

(* A block that an allocating call returns is as large as was asked.        *)
LEMMA CoverStep ==
    ASSUME HeapInv, NEW size \in Sizes \cup IdSizes
    PROVE  CoversRequest(size)
<1> SUFFICES ASSUME size <= UintMod - ALIGNMENT_FACTOR, ret' # Null,
                    \/ plugin_malloc(size)
                    \/ \E id \in Ids : plugin_malloc_with_id(id, size)
                    \/ \E a \in Live : plugin_realloc(a, size)
             PROVE  block'[ret' - METADATA_SIZE].size >= size
  BY Zenon DEF CoversRequest
<1>1. align_size(size) \in Nat /\ align_size(size) >= size /\ size \in Nat
  BY AlignNat, AlignCovers, HeapConstants
<1>2. /\ METADATA_SIZE \in Nat /\ Null \notin Addr
      /\ Live \subseteq Addr /\ Addr \subseteq Int
      /\ \A s \in Addr : Pointer(s) - METADATA_SIZE = s
      /\ Pointer(Null) = Null
  BY HeapConstants DEF Live, Blocks, Addr, Null, Pointer
<1>3. ASSUME NEW o \in allocate(align_size(size)), ret' = Pointer(o.slot)
      PROVE  /\ o.slot \in Addr /\ ret' - METADATA_SIZE = o.slot
             /\ o.block[o.slot].size \in Nat
             /\ o.block[o.slot].size >= size
             /\ o.block \in [Addr -> meta_data]
             /\ o.slot \notin Live
  <2>1. o.slot \in Addr \cup {Null} /\ o.slot # Null
    BY <1>1, <1>2, <1>3, AllocateKeepsLayout, Zenon
  <2>2. /\ o.block[o.slot].size >= align_size(size) /\ o.slot \notin Live
        /\ o.block \in [Addr -> meta_data]
    BY <2>1, <1>1, AllocateKeepsLayout, Zenon DEF Layout
  <2>3. o.block[o.slot].size \in Nat
    BY <2>1, <2>2, Zenon DEF meta_data
  <2>4. o.block[o.slot].size >= size
    BY <2>2, <2>3, <1>1
  <2>5. o.slot \in Addr /\ ret' - METADATA_SIZE = o.slot
    BY <2>1, <1>2, <1>3, Zenon
  <2> QED BY <2>2, <2>3, <2>4, <2>5, Zenon
<1>4. CASE plugin_malloc(size)
  BY <1>3, <1>4, Zenon DEF plugin_malloc
<1>5. CASE \E id \in Ids : plugin_malloc_with_id(id, size)
  <2>1. PICK i \in Ids, o \in allocate(align_size(size)) :
          /\ block' = IF o.slot = Null THEN o.block
                      ELSE [o.block EXCEPT ![o.slot].id = i]
          /\ ret' = Pointer(o.slot)
    BY <1>5, Zenon DEF plugin_malloc_with_id
  <2>2. block'[o.slot].size = o.block[o.slot].size
    BY <2>1, <1>3 DEF meta_data
  <2> QED BY <2>1, <2>2, <1>3, Zenon
<1>6. CASE \E a \in Live : realloc_in_place(a, size)
  <2>1. PICK a \in Live : realloc_in_place(a, size)
    BY <1>6, Zenon
  <2>2. /\ block' = [block EXCEPT ![a].size = size] /\ ret' = Pointer(a)
        /\ a \in Addr /\ block \in [Addr -> meta_data]
    BY <2>1, <1>2, Zenon DEF realloc_in_place, HeapInv, TypeOK
  <2>3. block'[a].size = size
    BY <2>2, Zenon DEF meta_data
  <2> QED BY <2>2, <2>3, <1>1, <1>2
<1>7. CASE \E a \in Live : realloc_move(a, size)
  <2>1. PICK a \in Live, o \in allocate(align_size(size)) :
          /\ block' = [o.block EXCEPT ![a].available = 1]
          /\ ret' = Pointer(o.slot)
    BY <1>7, Zenon DEF realloc_move
  <2>2. block'[o.slot] = o.block[o.slot]
    BY <2>1, <1>2, <1>3, Zenon
  <2> QED BY <2>1, <2>2, <1>3, Zenon
<1> QED BY <1>4, <1>5, <1>6, <1>7, Zenon DEF plugin_realloc

(* A pluglet that is handed a block may use every byte it asked for.        *)
THEOREM GrantsAreLargeEnough == Spec => GrantCoversRequest
<1>1. HeapInv /\ [Next]_vars
        => [\A size \in Sizes \cup IdSizes : CoversRequest(size)]_vars
  BY CoverStep, Zenon
<1> QED BY <1>1, HeapInvInit, HeapInvNext, PTL DEF Spec, GrantCoversRequest

-----------------------------------------------------------------------------
(* The heap keeps the promise of Allocator. *)

Region(b, a) == <<a + METADATA_SIZE, b[a].size>>

OwnedIn(b) == {Region(b, a) : a \in LiveIn(b)}

(* The regions that are owned, before and after a step. *)
LEMMA OwnedNow == Owned = OwnedIn(block) /\ Live = LiveIn(block)
BY Zenon DEF Owned, OwnedIn, LiveIn, Live, Blocks, Heads, Region

LEMMA OwnedThen == Owned' = OwnedIn(block') /\ Live' = LiveIn(block')
BY Zenon DEF Owned, OwnedIn, LiveIn, Live, Blocks, Heads, Region

(* In a sound heap, what follows a header lies in the buffer, apart from    *)
(* what follows another one.                                                *)
LEMMA RegionsApart ==
    ASSUME NEW b, NEW e, NEW l, Layout(b, e, l), NEW a \in Heads(b), NEW c \in Heads(b)
    PROVE  /\ Region(b, a) \in Promise!Regions
           /\ a # c => Promise!Apart(Region(b, a), Region(b, c))
<1>1. /\ a \in Nat /\ c \in Nat /\ b[a].size \in Nat /\ b[c].size \in Nat
      /\ e \in Nat /\ e <= MEM_BUFFER /\ METADATA_SIZE \in Nat /\ MEM_BUFFER \in Nat
  BY HeapConstants DEF Layout, Heads, meta_data, Addr
<1>2. a + METADATA_SIZE + b[a].size <= e
  BY Zenon DEF Layout
<1>3. /\ a < c => a + METADATA_SIZE + b[a].size <= c
      /\ c < a => c + METADATA_SIZE + b[c].size <= a
  BY Zenon DEF Layout
<1>4. /\ Region(b, a)[1] = a + METADATA_SIZE /\ Region(b, a)[2] = b[a].size
      /\ Region(b, c)[1] = c + METADATA_SIZE /\ Region(b, c)[2] = b[c].size
  BY Zenon DEF Region
<1>5. Region(b, a) \in Promise!Regions
  <2>1. a + METADATA_SIZE \in 0..MEM_BUFFER /\ b[a].size \in 0..MEM_BUFFER
    BY <1>1, <1>2
  <2>2. Region(b, a) \in (0..MEM_BUFFER) \X (0..MEM_BUFFER)
    BY <2>1, Zenon DEF Region
  <2>3. Region(b, a)[1] + Region(b, a)[2] <= MEM_BUFFER
    BY <1>1, <1>2, <1>4
  <2> QED BY <2>2, <2>3, Zenon DEF Promise!Regions
<1>6. a # c => Promise!Apart(Region(b, a), Region(b, c))
  <2>1. a < c => a + METADATA_SIZE + b[a].size <= c + METADATA_SIZE
    BY <1>1, <1>3
  <2>2. c < a => c + METADATA_SIZE + b[c].size <= a + METADATA_SIZE
    BY <1>1, <1>3
  <2> QED BY <2>1, <2>2, <1>1, <1>4 DEF Promise!Apart
<1> QED BY <1>5, <1>6, Zenon

(* Freeing a live block takes its region back and no other. *)
LEMMA OwnedFree ==
    ASSUME NEW b \in [Addr -> meta_data], NEW a \in LiveIn(b)
    PROVE  OwnedIn([b EXCEPT ![a].available = 1]) = OwnedIn(b) \ {Region(b, a)}
<1> DEFINE c == [b EXCEPT ![a].available = 1]
<1>1. a \in Addr /\ \A d \in Addr : d \in Int /\ METADATA_SIZE \in Int
  BY HeapConstants DEF LiveIn, Heads, Addr
<1>2. /\ \A d \in Addr : c[d].size = b[d].size /\ c[d].magic_number = b[d].magic_number
      /\ \A d \in Addr : d # a => c[d] = b[d]
      /\ c[a].available = 1
  BY <1>1, Zenon DEF meta_data
<1>3. LiveIn(c) = LiveIn(b) \ {a}
  BY <1>1, <1>2 DEF LiveIn, Heads
<1>4. \A d \in LiveIn(b) : d \in Addr /\ Region(c, d) = Region(b, d)
  BY <1>2, Zenon DEF Region, LiveIn, Heads
<1>5. \A d \in LiveIn(b) : Region(b, d) = Region(b, a) => d = a
  <2> SUFFICES ASSUME NEW d \in LiveIn(b), Region(b, d) = Region(b, a)
               PROVE  d = a
    BY Zenon
  <2>1. Region(b, d)[1] = d + METADATA_SIZE /\ Region(b, a)[1] = a + METADATA_SIZE
    BY Zenon DEF Region
  <2>2. d + METADATA_SIZE = a + METADATA_SIZE
    BY <2>1, Zenon
  <2>3. d \in Int /\ a \in Int /\ METADATA_SIZE \in Int
    BY <1>1, <1>4, Zenon
  <2> QED BY <2>2, <2>3
<1> HIDE DEF c
<1>6. OwnedIn(c) = OwnedIn(b) \ {Region(b, a)}
  BY <1>3, <1>4, <1>5, Zenon DEF OwnedIn
<1> QED BY <1>6, Zenon DEF c

(* A successful allocation gives out a region nobody owned. *)
LEMMA OwnedGive ==
    ASSUME HeapInv, NEW size \in Nat, NEW o \in allocate(size)
    PROVE  /\ o.slot = Null => OwnedIn(o.block) = Owned
           /\ o.slot # Null => /\ OwnedIn(o.block) = Owned \cup {Region(o.block, o.slot)}
                               /\ Promise!Unowned(Region(o.block, o.slot))
<1>1. /\ Layout(o.block, o.end, o.last)
      /\ o.slot # Null => o.slot \in Heads(o.block) /\ o.slot \notin Live
      /\ \A a \in Live : a \in Heads(o.block) /\ o.block[a].size = block[a].size
      /\ LiveIn(o.block) = Live \cup ({o.slot} \ {Null})
  BY AllocateKeepsLayout, Zenon
<1>2. \A a \in Live : Region(o.block, a) = Region(block, a)
  BY <1>1, Zenon DEF Region
<1>3. Owned = {Region(block, a) : a \in Live}
  BY Zenon DEF Owned, Region
<1>4. CASE o.slot = Null
  BY <1>1, <1>2, <1>3, <1>4, Zenon DEF OwnedIn
<1>5. CASE o.slot # Null
  <2>1. OwnedIn(o.block) = Owned \cup {Region(o.block, o.slot)}
    BY <1>1, <1>2, <1>3, <1>5 DEF OwnedIn
  <2>2. Region(o.block, o.slot) \in Promise!Regions
    BY <1>1, <1>5, RegionsApart, Zenon
  <2>3. \A a \in Live : Promise!Apart(Region(o.block, o.slot), Region(o.block, a))
    BY <1>1, <1>5, RegionsApart, Zenon
  <2>4. \A s \in Owned : Promise!Apart(Region(o.block, o.slot), s)
    BY <2>3, <1>2, <1>3, Zenon
  <2>5. Promise!Unowned(Region(o.block, o.slot))
    BY <2>2, <2>4, Zenon DEF Promise!Unowned
  <2> QED BY <2>1, <2>5, <1>5, Zenon
<1> QED BY <1>4, <1>5, Zenon

(* Every call is a step of Allocator, or none that it can tell. *)
LEMMA PromiseStep == HeapInv /\ [Next]_vars => [Promise!Next]_Owned
<1> SUFFICES ASSUME HeapInv, [Next]_vars PROVE [Promise!Next]_Owned
  BY Zenon
<1>1. /\ block \in [Addr -> meta_data] /\ Live = LiveIn(block)
      /\ Owned = OwnedIn(block) /\ Owned' = OwnedIn(block')
      /\ \A a \in Live : a \in Addr /\ Region(block, a) \in Owned
  BY InvIsLayout, OwnedNow, OwnedThen, Zenon DEF Layout, LiveIn, Heads, OwnedIn
<1>2. ASSUME NEW size \in Sizes, plugin_malloc(size) PROVE [Promise!Next]_Owned
  <2>1. align_size(size) \in Nat
    BY AlignNat, HeapConstants
  <2>2. PICK o \in allocate(align_size(size)) : block' = o.block
    BY <1>2, Zenon DEF plugin_malloc
  <2>3. CASE o.slot = Null
    BY <2>1, <2>2, <2>3, <1>1, OwnedGive, Zenon
  <2>4. CASE o.slot # Null
    <3> DEFINE r == Region(o.block, o.slot)
    <3>1. Owned' = Owned \cup {r} /\ Promise!Unowned(r)
      BY <2>1, <2>2, <2>4, <1>1, OwnedGive, Zenon
    <3> HIDE DEF r
    <3>2. r \in Owned' /\ Promise!Allocate(r)
      BY <3>1, Zenon DEF Promise!Allocate
    <3> QED BY <3>2, Zenon DEF Promise!Next
  <2> QED BY <2>3, <2>4, Zenon
<1>3. ASSUME NEW i \in Ids, NEW size \in IdSizes, plugin_malloc_with_id(i, size)
      PROVE  [Promise!Next]_Owned
  <2>1. align_size(size) \in Nat
    BY AlignNat, HeapConstants
  <2>2. PICK o \in allocate(align_size(size)) :
          block' = IF o.slot = Null THEN o.block
                   ELSE [o.block EXCEPT ![o.slot].id = i]
    BY <1>3, Zenon DEF plugin_malloc_with_id
  <2>3. CASE o.slot = Null
    BY <2>1, <2>2, <2>3, <1>1, OwnedGive, Zenon
  <2>4. CASE o.slot # Null
    <3> DEFINE r == Region(o.block, o.slot)
    <3>1. o.block \in [Addr -> meta_data] /\ o.slot \in Addr
      BY <2>1, <2>4, AllocateKeepsLayout, Zenon DEF Layout
    <3>2. \A a \in Addr : /\ block'[a].size = o.block[a].size
                          /\ block'[a].available = o.block[a].available
                          /\ block'[a].magic_number = o.block[a].magic_number
      BY <2>2, <2>4, <3>1 DEF meta_data
    <3>3. LiveIn(block') = LiveIn(o.block) /\ LiveIn(o.block) \subseteq Addr
      BY <3>2, Zenon DEF LiveIn, Heads
    <3>4. OwnedIn(block') = OwnedIn(o.block)
      BY <3>2, <3>3, Zenon DEF OwnedIn, Region
    <3>5. Owned' = Owned \cup {r} /\ Promise!Unowned(r)
      BY <2>1, <2>4, <3>4, <1>1, OwnedGive, Zenon
    <3> HIDE DEF r
    <3>6. r \in Owned' /\ Promise!Allocate(r)
      BY <3>5, Zenon DEF Promise!Allocate
    <3> QED BY <3>6, Zenon DEF Promise!Next
  <2> QED BY <2>3, <2>4, Zenon
<1>4. ASSUME NEW i \in Ids, plugin_get_memory_with_id(i) PROVE [Promise!Next]_Owned
  BY <1>1, <1>4, Zenon DEF plugin_get_memory_with_id
<1>5. ASSUME NEW a \in Blocks, plugin_free(a) PROVE [Promise!Next]_Owned
  <2>1. block' = [block EXCEPT ![a].available = 1] /\ a \in Addr
    BY <1>5, Zenon DEF plugin_free, Blocks
  <2>2. CASE a \in Live
    <3>1. Owned' = Owned \ {Region(block, a)} /\ Region(block, a) \in Owned
      BY <2>1, <2>2, <1>1, OwnedFree, Zenon
    <3> QED BY <3>1, Zenon DEF Promise!Next, Promise!Release
  <2>3. CASE a \notin Live
    <3>1. block[a].available = 1
      BY <2>1, <2>3, <1>1, Zenon DEF Live, meta_data
    <3>2. block' = block
      BY <2>1, <3>1, <1>1, Zenon DEF meta_data
    <3> QED BY <3>2, <1>1, Zenon
  <2> QED BY <2>2, <2>3, Zenon
<1>6. ASSUME NEW a \in Live, NEW size \in Sizes, realloc_in_place(a, size)
      PROVE  [Promise!Next]_Owned
  <2> DEFINE r == Region(block, a)
  <2>1. /\ size <= block[a].size /\ block' = [block EXCEPT ![a].size = size]
        /\ size \in Nat /\ a \in Addr /\ block[a].size \in Nat
    BY <1>1, <1>6, HeapConstants DEF realloc_in_place, meta_data
  <2>2. /\ \A d \in Addr : /\ block'[d].available = block[d].available
                           /\ block'[d].magic_number = block[d].magic_number
        /\ \A d \in Addr : d # a => block'[d].size = block[d].size
        /\ block'[a].size = size
    BY <2>1, <1>1 DEF meta_data
  <2>3. LiveIn(block') = Live /\ Live \subseteq Addr
    BY <2>2, <1>1, Zenon DEF LiveIn, Heads
  <2>4. \A d \in Live : Region(block', d) = IF d = a THEN <<r[1], size>> ELSE Region(block, d)
    BY <2>2, <2>3, Zenon DEF Region
  <2>5. \A d \in Live : d # a => Region(block, d) # r
    <3> SUFFICES ASSUME NEW d \in Live, Region(block, d) = r PROVE d = a
      BY Zenon
    <3>1. d + METADATA_SIZE = a + METADATA_SIZE
      <4>1. Region(block, d)[1] = d + METADATA_SIZE /\ r[1] = a + METADATA_SIZE
        BY Zenon DEF Region
      <4> QED BY <4>1, Zenon
    <3>2. d \in Int /\ a \in Int /\ METADATA_SIZE \in Int
      BY <1>1, HeapConstants DEF Addr
    <3> QED BY <3>1, <3>2
  <2>6. r \in Owned /\ r[2] = block[a].size
    BY <1>1, Zenon DEF Region
  <2> HIDE DEF r
  <2>7. Owned' = (Owned \ {r}) \cup {<<r[1], size>>}
    <3>1. Owned' = {Region(block', d) : d \in Live}
      BY <2>3, <1>1, Zenon DEF OwnedIn
    <3>2. Owned = {Region(block, d) : d \in Live} /\ Region(block, a) = r
      BY <1>1, Zenon DEF OwnedIn, r
    <3> QED BY <3>1, <3>2, <2>4, <2>5, Zenon
  <2>8. Promise!Shrink(r, size) /\ size \in 0..r[2]
    BY <2>1, <2>6, <2>7 DEF Promise!Shrink
  <2> QED BY <2>6, <2>8, Zenon DEF Promise!Next
<1>7. ASSUME NEW a \in Live, NEW size \in Sizes, realloc_move(a, size)
      PROVE  [Promise!Next]_Owned
  <2>1. align_size(size) \in Nat
    BY AlignNat, HeapConstants
  <2>2. PICK o \in allocate(align_size(size)) :
          block' = [o.block EXCEPT ![a].available = 1]
    BY <1>7, Zenon DEF realloc_move
  <2>3. /\ o.block \in [Addr -> meta_data] /\ a \in LiveIn(o.block)
        /\ o.block[a].size = block[a].size
        /\ o.slot # Null => o.slot \in Heads(o.block) /\ o.slot # a
        /\ Layout(o.block, o.end, o.last)
    BY <2>1, AllocateKeepsLayout DEF Layout
  <2> DEFINE r == Region(block, a)
  <2>4. r \in Owned /\ Region(o.block, a) = r
    BY <2>3, <1>1, Zenon DEF Region
  <2>5. Owned' = OwnedIn(o.block) \ {r}
    BY <2>2, <2>3, <2>4, <1>1, OwnedFree, Zenon
  <2>6. CASE o.slot = Null
    <3>1. Owned' = Owned \ {r}
      BY <2>1, <2>5, <2>6, OwnedGive, Zenon
    <3> QED BY <3>1, <2>4, Zenon DEF Promise!Next, Promise!Release
  <2>7. CASE o.slot # Null
    <3> DEFINE s == Region(o.block, o.slot)
    <3>1. OwnedIn(o.block) = Owned \cup {s} /\ Promise!Unowned(s)
      BY <2>1, <2>7, OwnedGive, Zenon
    <3>2. s # r
      <4>1. s[1] = o.slot + METADATA_SIZE /\ r[1] = a + METADATA_SIZE
        BY Zenon DEF Region
      <4> HIDE DEF r, s
      <4>2. o.slot \in Int /\ a \in Int /\ METADATA_SIZE \in Int /\ o.slot # a
        BY <2>3, <2>7, <1>1, HeapConstants DEF Heads, Addr
      <4>3. s[1] # r[1]
        BY <4>1, <4>2
      <4> QED BY <4>3, Zenon
    <3> HIDE DEF r, s
    <3>3. Owned' = (Owned \ {r}) \cup {s} /\ s \in Owned'
      BY <3>1, <3>2, <2>5, Zenon
    <3>4. Promise!Move(r, s)
      BY <3>1, <3>3, Zenon DEF Promise!Move
    <3>5. \E q \in Owned : \E t \in Owned' : Promise!Move(q, t)
      BY <3>3, <3>4, <2>4, Zenon
    <3> QED BY <3>5, Zenon DEF Promise!Next
  <2> QED BY <2>6, <2>7, Zenon
<1>8. CASE UNCHANGED vars
  BY <1>1, <1>8, Zenon DEF vars
<1> QED BY <1>2, <1>3, <1>4, <1>5, <1>6, <1>7, <1>8, Zenon DEF Next, plugin_realloc

(* For every buffer and every sequence of calls, the heap of a plugin is an *)
(* allocator: no pluglet ever owns a byte outside the buffer or one that    *)
(* another owns.                                                            *)
THEOREM HeapIsAllocator == Spec => ImplementsAllocator
<1>1. Init => Promise!Init
  <2>1. Init => \A a \in Addr : block[a].magic_number # MAGIC
    BY DEF Init, MAGIC
  <2> QED BY <2>1, Zenon DEF Promise!Init, Owned, Live, Blocks
<1> QED BY <1>1, PromiseStep, HeapInvInit, HeapInvNext, PTL DEF Spec, ImplementsAllocator, Promise!Spec

-----------------------------------------------------------------------------
(* Ids *)

(* The header of a live block holds the id its owner asked for, if any. *)
TagsHold ==
    \A a \in Live : IF tag[a] = NoId THEN Sizes # {} ELSE block[a].id = tag[a]

(* Each function of the allocator keeps the ids of the blocks that are live. *)
LEMMA TagStep == HeapInv /\ TagsHold /\ [Next]_vars => TagsHold'
<1> SUFFICES ASSUME HeapInv, TagsHold, [Next]_vars PROVE TagsHold'
  BY Zenon
<1>1. /\ block \in [Addr -> meta_data] /\ tag \in [Addr -> Ids \cup {NoId}]
      /\ Live = LiveIn(block) /\ Live' = LiveIn(block') /\ Live \subseteq Addr
      /\ NoId \notin Ids
  BY InvIsLayout, OwnedNow, OwnedThen, HeapConstants DEF Layout, LiveIn, Heads, NoId
<1>2. ASSUME NEW size \in Sizes, NEW o \in allocate(align_size(size)),
             block' = o.block,
             tag' = IF o.slot = Null THEN tag ELSE [tag EXCEPT ![o.slot] = NoId]
      PROVE  TagsHold'
  <2>1. align_size(size) \in Nat
    BY AlignNat, HeapConstants, Zenon
  <2>2. /\ LiveIn(o.block) = Live \cup ({o.slot} \ {Null})
        /\ \A a \in Live : o.block[a].id = block[a].id
        /\ o.slot # Null => o.slot \notin Live /\ o.slot \in Addr
    BY <2>1, AllocateKeepsLayout, Zenon
  <2>3. \A a \in Live : tag'[a] = tag[a] /\ block'[a].id = block[a].id
    BY <1>1, <1>2, <2>2, Zenon
  <2>4. o.slot # Null => tag'[o.slot] = NoId
    BY <1>1, <1>2, <2>2, Zenon
  <2> QED BY <1>1, <1>2, <2>2, <2>3, <2>4 DEF TagsHold
<1>3. ASSUME NEW size \in Sizes, plugin_malloc(size) PROVE TagsHold'
  BY <1>2, <1>3, Zenon DEF plugin_malloc
<1>4. ASSUME NEW i \in Ids, NEW size \in IdSizes, plugin_malloc_with_id(i, size)
      PROVE  TagsHold'
  <2>1. align_size(size) \in Nat
    BY AlignNat, HeapConstants, Zenon
  <2>2. PICK o \in allocate(align_size(size)) :
          /\ block' = IF o.slot = Null THEN o.block
                      ELSE [o.block EXCEPT ![o.slot].id = i]
          /\ tag' = IF o.slot = Null THEN tag ELSE [tag EXCEPT ![o.slot] = i]
    BY <1>4, Zenon DEF plugin_malloc_with_id
  <2>3. /\ LiveIn(o.block) = Live \cup ({o.slot} \ {Null})
        /\ \A a \in Live : o.block[a].id = block[a].id
        /\ o.slot # Null => o.slot \notin Live /\ o.slot \in Addr
        /\ o.block \in [Addr -> meta_data]
    BY <2>1, AllocateKeepsLayout DEF Layout
  <2>4. /\ \A a \in Addr : /\ block'[a].available = o.block[a].available
                           /\ block'[a].magic_number = o.block[a].magic_number
                           /\ a # o.slot => block'[a].id = o.block[a].id
        /\ o.slot # Null => block'[o.slot].id = i
    BY <2>2, <2>3 DEF meta_data
  <2>5. LiveIn(block') = LiveIn(o.block)
    BY <2>4, Zenon DEF LiveIn, Heads
  <2>6. Live' = Live \cup ({o.slot} \ {Null})
    BY <2>3, <2>5, <1>1, Zenon
  <2>7. \A a \in Live : tag'[a] = tag[a] /\ block'[a].id = block[a].id
    BY <2>2, <2>3, <2>4, <1>1
  <2>8. o.slot # Null => tag'[o.slot] = i
    BY <2>2, <2>3, <1>1, Zenon
  <2> QED BY <2>4, <2>6, <2>7, <2>8, <1>1 DEF TagsHold
<1>5. ASSUME NEW i \in Ids, plugin_get_memory_with_id(i) PROVE TagsHold'
  BY <1>1, <1>5, Zenon DEF plugin_get_memory_with_id, TagsHold
<1>6. ASSUME NEW a \in Blocks, plugin_free(a) PROVE TagsHold'
  <2>1. /\ block' = [block EXCEPT ![a].available = 1] /\ tag' = tag
        /\ a \in Addr
    BY <1>6, Zenon DEF plugin_free, Blocks
  <2>2. \A d \in Addr : /\ block'[d].id = block[d].id
                        /\ block'[d].magic_number = block[d].magic_number
                        /\ block'[d].available = 0 => block[d].available = 0
    BY <2>1, <1>1 DEF meta_data
  <2>3. Live' \subseteq Live
    BY <2>2, <1>1, Zenon DEF LiveIn, Heads
  <2> QED BY <2>1, <2>2, <2>3, <1>1 DEF TagsHold
<1>7. ASSUME NEW a \in Live, NEW size \in Sizes, realloc_in_place(a, size)
      PROVE  TagsHold'
  <2>1. block' = [block EXCEPT ![a].size = size] /\ tag' = tag /\ a \in Addr
    BY <1>1, <1>7, Zenon DEF realloc_in_place
  <2>2. \A d \in Addr : /\ block'[d].id = block[d].id
                        /\ block'[d].magic_number = block[d].magic_number
                        /\ block'[d].available = block[d].available
    BY <2>1, <1>1 DEF meta_data
  <2>3. Live' = Live
    BY <2>2, <1>1, Zenon DEF LiveIn, Heads
  <2> QED BY <2>1, <2>2, <2>3, <1>1, Zenon DEF TagsHold
<1>8. ASSUME NEW a \in Live, NEW size \in Sizes, realloc_move(a, size)
      PROVE  TagsHold'
  <2>1. align_size(size) \in Nat
    BY AlignNat, HeapConstants, Zenon
  <2>2. PICK o \in allocate(align_size(size)) :
          /\ block' = [o.block EXCEPT ![a].available = 1]
          /\ tag' = IF o.slot = Null THEN tag ELSE [tag EXCEPT ![o.slot] = NoId]
    BY <1>8, Zenon DEF realloc_move
  <2>3. /\ LiveIn(o.block) = Live \cup ({o.slot} \ {Null})
        /\ \A d \in Live : o.block[d].id = block[d].id
        /\ o.slot # Null => o.slot \notin Live /\ o.slot \in Addr
        /\ o.block \in [Addr -> meta_data]
    BY <2>1, AllocateKeepsLayout DEF Layout
  <2>4. \A d \in Addr : /\ block'[d].id = o.block[d].id
                        /\ block'[d].magic_number = o.block[d].magic_number
                        /\ block'[d].available = 0 => o.block[d].available = 0
    BY <2>2, <2>3, <1>1 DEF meta_data
  <2>5. Live' \subseteq Live \cup ({o.slot} \ {Null})
    BY <2>3, <2>4, <1>1, Zenon DEF LiveIn, Heads
  <2>6. \A d \in Live : tag'[d] = tag[d] /\ block'[d].id = block[d].id
    BY <2>2, <2>3, <2>4, <1>1
  <2>7. o.slot # Null => tag'[o.slot] = NoId
    BY <2>2, <2>3, <1>1, Zenon
  <2> QED BY <2>5, <2>6, <2>7, <1>1 DEF TagsHold
<1>9. CASE UNCHANGED vars
  BY <1>1, <1>9, Zenon DEF vars, TagsHold
<1> QED BY <1>3, <1>4, <1>5, <1>6, <1>7, <1>8, <1>9, Zenon DEF Next, plugin_realloc

(* For every heap: plugin_get_memory_with_id never returns a block that was *)
(* taken with another id, and where no block is taken without an id it      *)
(* returns one that was taken with the id it is asked.                      *)
THEOREM LookupIsSound == Spec => []LookupFindsOwner
<1>1. Init => TagsHold
  <2>1. Init => \A a \in Addr : block[a].magic_number # MAGIC
    BY DEF Init, MAGIC
  <2> QED BY <2>1, Zenon DEF TagsHold, Live, Blocks
<1>2. HeapInv /\ TagsHold => LookupFindsOwner
  <2> SUFFICES ASSUME HeapInv, TagsHold, NEW id \in Ids, NEW a \in WithId(id)
               PROVE  tag[a] = id \/ (tag[a] = NoId /\ Sizes # {})
    BY Zenon DEF LookupFindsOwner
  <2>1. a \in Live /\ block[a].id = id
    BY Zenon DEF WithId, List, ListFrom, Live
  <2> QED BY <2>1, Zenon DEF TagsHold
<1> QED BY <1>1, <1>2, TagStep, HeapInvInit, HeapInvNext, PTL DEF Spec

-----------------------------------------------------------------------------
(***************************************************************************)
(* What the two unsynchronised threads of PluginTab can rely on, for every *)
(* set of insertion points, array length and sequence of requests.  The    *)
(* inductive invariant ties every half-built plugin or pluglet to the      *)
(* position of the one manager thread.                                     *)
(***************************************************************************)

Passing == pc \in {"test", "exec", "run", "native"}

(* A plugin without fields has no pluglets, and is the one being injected. *)
RawPlugin ==
    /\ \A p \in Point, s \in Slot : stage[p] # "set" => slot[p][s] = "null"
    /\ \A p \in Point : stage[p] = "raw" => mpc = "clear" /\ req.point = p

(* A pluglet that is not set up is the one being injected. *)
RawPluglet ==
    \A p \in Point, s \in Slot :
        /\ slot[p][s] = "raw" => mpc = "load" /\ req.point = p /\ target = s
        /\ slot[p][s] = "loaded" => mpc = "context" /\ req.point = p /\ target = s

(* What the manager remembers of its target is still so, unless released. *)
TargetKept ==
    mpc # "recv" /\ stage[req.point] # "absent" =>
        /\ mpc = "clear" => stage[req.point] = "raw"
        /\ mpc \in {"slot", "load", "context"} => stage[req.point] = "set"
        /\ mpc = "load" => slot[req.point][target] = "raw"
        /\ mpc = "context" => slot[req.point][target] = "loaded"

(* The history variable records every injection the passage overlaps. *)
OverlapSeen == Passing /\ Injecting(at) => overlap

(* Without an overlap the passage finds what its prologue and its tests saw. *)
QuietPassage ==
    /\ Passing /\ at \in Guarded /\ ~overlap /\ stage[at] # "absent" => at \in arguments
    /\ pc = "exec" /\ at \in Guarded /\ ~overlap =>
          stage[at] = "set" /\ slot[at][cursor] # "null"
    /\ pc = "run" => stage[at] = "set"

TabInv ==
    /\ TabTypeOK
    /\ RawPlugin
    /\ RawPluglet
    /\ TargetKept
    /\ OverlapSeen
    /\ QuietPassage
    /\ SlotsArePrefix
    /\ UnreadyOnlyInRace

(* Slots are pairs of an anchor and an index. *)
LEMMA SlotPairs ==
    /\ \A a \in Anchor, i \in Index : <<a, i>> \in Slot
    /\ \A c \in Slot : c[1] \in Anchor /\ c[2] \in Index /\ c = <<c[1], c[2]>>
    /\ 1 \in Index
    /\ \A a \in Anchor : Capacity(a) \in Index
    /\ \A a \in Anchor : 1 .. Capacity(a) \subseteq Index
    /\ "PRE" \in Anchor /\ "REP" \in Anchor /\ "POST" \in Anchor
BY TabConstants DEF Slot, Index, Capacity, Anchor

(* After a slot, or at a NULL, the main thread stands at a slot again. *)
LEMMA Advance ==
    ASSUME TabTypeOK, AfterSlot \/ AfterNull
    PROVE  /\ pc' \in {"test", "native", "idle"}
           /\ cursor' \in Slot
<1>1. /\ cursor[1] \in Anchor /\ cursor[2] \in Index /\ cursor \in Slot
      /\ MAX_NBR_PLUGLETS \in Nat
  BY SlotPairs, TabConstants, Zenon DEF TabTypeOK
<1>2. cursor[1] = "PRE" \/ cursor[1] = "REP" \/ cursor[1] = "POST"
  BY <1>1, Zenon DEF Anchor
<1>3. CASE AfterNull
  <2>1. /\ pc' \in {"test", "native", "idle"}
        /\ cursor' \in {cursor, <<"REP", 1>>}
    BY <1>2, <1>3, Zenon DEF AfterNull
  <2> QED BY <2>1, <1>1, SlotPairs, Zenon
<1>4. CASE AfterSlot
  <2>1. CASE at \in Bare
    BY <2>1, <1>1, <1>4, Zenon DEF AfterSlot
  <2>2. CASE at \notin Bare /\ cursor[2] < Capacity(cursor[1])
    <3>1. cursor[2] + 1 \in Index
      BY <2>2, <1>1, SlotPairs DEF Index
    <3>2. pc' = "test" /\ cursor' = <<cursor[1], cursor[2] + 1>>
      BY <2>2, <1>4, Zenon DEF AfterSlot
    <3> QED BY <3>1, <3>2, <1>1, SlotPairs, Zenon
  <2>3. CASE at \notin Bare /\ ~(cursor[2] < Capacity(cursor[1]))
    <3>1. /\ pc' \in {"test", "idle"}
          /\ cursor' \in {cursor, <<"REP", 1>>, <<"POST", 1>>}
      BY <2>3, <1>2, <1>4, Zenon DEF AfterSlot
    <3> QED BY <3>1, <1>1, SlotPairs
  <2> QED BY <2>1, <2>2, <2>3, Zenon
<1> QED BY <1>3, <1>4, Zenon

(* The empty table is sound. *)
LEMMA TabInvInit == TabInit => TabInv
<1> SUFFICES ASSUME TabInit PROVE TabInv
  BY Zenon
<1>1. at \in Point /\ req \in Requests /\ 1 \in Index
  BY TabConstants DEF TabInit, Point, Index
<1>2. TabTypeOK
  <2>1. /\ stage \in [Point -> Stage] /\ slot \in [Point -> [Slot -> SlotState]]
        /\ arguments \subseteq Point
    BY Zenon DEF TabInit, Stage, SlotState, Empty
  <2>2. target \in Slot /\ cursor \in Slot /\ sent \in 0 .. MaxRequests
    BY SlotPairs, TabConstants DEF TabInit
  <2>3. overlap \in BOOLEAN /\ mpc = "recv"
    BY Zenon DEF TabInit
  <2> QED BY <1>1, <2>1, <2>2, <2>3, Zenon DEF TabInit, TabTypeOK
<1>3. \A p \in Point, s \in Slot : slot[p][s] = "null" /\ stage[p] = "absent"
  BY Zenon DEF TabInit, Empty
<1>4. SlotsArePrefix
  BY <1>3 DEF SlotsArePrefix, Slot
<1> QED BY <1>2, <1>3, <1>4, Zenon DEF TabInit, TabInv, RawPlugin, RawPluglet, TargetKept,
           OverlapSeen, QuietPassage, Passing, UnreadyOnlyInRace

(* receive preserves the invariant. *)
LEMMA ReceiveKeeps ==
    ASSUME TabInv, NEW r \in Requests, receive(r)
    PROVE  TabInv'
<1> USE DEF Running, Injecting, Passing
<1>0. /\ TabTypeOK /\ RawPlugin /\ RawPluglet /\ TargetKept /\ OverlapSeen
      /\ QuietPassage /\ SlotsArePrefix /\ UnreadyOnlyInRace
  BY Zenon DEF TabInv
<1>1. TabTypeOK'
  BY <1>0, SlotPairs, TabConstants DEF receive, passageVars, injectorVars, TabTypeOK, Stage, SlotState, Empty
<1>2. RawPlugin'
  BY <1>0, TabConstants, Zenon DEF receive, passageVars, injectorVars, RawPlugin, TabTypeOK, TargetKept, Empty
<1>3. RawPluglet'
  BY <1>0, TabConstants DEF receive, passageVars, injectorVars, RawPluglet, RawPlugin, TabTypeOK, TargetKept, Empty
<1>4. TargetKept'
  BY <1>0, TabConstants, Zenon DEF receive, passageVars, injectorVars, TargetKept, RawPlugin, TabTypeOK, Stage, Empty
<1>5. OverlapSeen'
  BY <1>0, TabConstants, Zenon DEF receive, passageVars, injectorVars, OverlapSeen, TabTypeOK
<1>6. QuietPassage'
  BY <1>0, TabConstants, Zenon DEF receive, passageVars, injectorVars, QuietPassage, OverlapSeen, RawPlugin, TabTypeOK, TargetKept, Empty
<1>7. SlotsArePrefix'
  BY <1>0, TabConstants DEF receive, passageVars, injectorVars, SlotsArePrefix, TabTypeOK, TargetKept, Slot, Empty
<1>8. UnreadyOnlyInRace'
  BY <1>0, TabConstants, Zenon DEF receive, passageVars, injectorVars, UnreadyOnlyInRace, OverlapSeen, RawPlugin, RawPluglet, TabTypeOK
<1> QED BY <1>1, <1>2, <1>3, <1>4, <1>5, <1>6, <1>7, <1>8, Zenon DEF TabInv

(* create_plugin preserves the invariant. *)
LEMMA CreatePluginKeeps ==
    ASSUME TabInv, create_plugin
    PROVE  TabInv'
<1> USE DEF Running, Injecting, Passing
<1>0. /\ TabTypeOK /\ RawPlugin /\ RawPluglet /\ TargetKept /\ OverlapSeen
      /\ QuietPassage /\ SlotsArePrefix /\ UnreadyOnlyInRace
  BY Zenon DEF TabInv
<1>1. TabTypeOK'
  BY <1>0, SlotPairs, TabConstants, Zenon DEF create_plugin, passageVars, injectorVars, TabTypeOK, Stage, SlotState, Empty
<1>2. RawPlugin'
  BY <1>0, TabConstants DEF create_plugin, passageVars, injectorVars, RawPlugin, TabTypeOK, TargetKept, Empty
<1>3. RawPluglet'
  BY <1>0, TabConstants DEF create_plugin, passageVars, injectorVars, RawPluglet, RawPlugin, TabTypeOK, TargetKept, Empty
<1>4. TargetKept'
  BY <1>0, TabConstants DEF create_plugin, passageVars, injectorVars, TargetKept, RawPlugin, TabTypeOK, Stage, Empty
<1>5. OverlapSeen'
  BY <1>0, TabConstants, Zenon DEF create_plugin, passageVars, injectorVars, OverlapSeen, TabTypeOK
<1>6. QuietPassage'
  BY <1>0, TabConstants, Zenon DEF create_plugin, passageVars, injectorVars, QuietPassage, OverlapSeen, RawPlugin, TabTypeOK, TargetKept, Empty
<1>7. SlotsArePrefix'
  BY <1>0, TabConstants DEF create_plugin, passageVars, injectorVars, SlotsArePrefix, TabTypeOK, TargetKept, Slot, Empty
<1>8. UnreadyOnlyInRace'
  BY <1>0, TabConstants, Zenon DEF create_plugin, passageVars, injectorVars, UnreadyOnlyInRace, OverlapSeen, RawPlugin, RawPluglet, TabTypeOK
<1> QED BY <1>1, <1>2, <1>3, <1>4, <1>5, <1>6, <1>7, <1>8, Zenon DEF TabInv

(* plugin_gone preserves the invariant. *)
LEMMA PluginGoneKeeps ==
    ASSUME TabInv, plugin_gone
    PROVE  TabInv'
<1> USE DEF Running, Injecting, Passing
<1>0. /\ TabTypeOK /\ RawPlugin /\ RawPluglet /\ TargetKept /\ OverlapSeen
      /\ QuietPassage /\ SlotsArePrefix /\ UnreadyOnlyInRace
  BY DEF TabInv
<1>1. TabTypeOK'
  BY <1>0, SlotPairs, TabConstants, Zenon DEF plugin_gone, passageVars, injectorVars, TabTypeOK, Stage, SlotState, Empty
<1>2. RawPlugin'
  BY <1>0, TabConstants, Zenon DEF plugin_gone, passageVars, injectorVars, RawPlugin, TabTypeOK, TargetKept, Empty
<1>3. RawPluglet'
  BY <1>0, TabConstants DEF plugin_gone, passageVars, injectorVars, RawPluglet, RawPlugin, TabTypeOK, TargetKept, Empty
<1>4. TargetKept'
  BY <1>0, TabConstants, Zenon DEF plugin_gone, passageVars, injectorVars, TargetKept, RawPlugin, TabTypeOK, Stage, Empty
<1>5. OverlapSeen'
  BY <1>0, TabConstants, Zenon DEF plugin_gone, passageVars, injectorVars, OverlapSeen, TabTypeOK
<1>6. QuietPassage'
  BY <1>0, TabConstants, Zenon DEF plugin_gone, passageVars, injectorVars, QuietPassage, OverlapSeen, RawPlugin, TabTypeOK, TargetKept, Empty
<1>7. SlotsArePrefix'
  BY <1>0, TabConstants DEF plugin_gone, passageVars, injectorVars, SlotsArePrefix, TabTypeOK, TargetKept, Slot, Empty
<1>8. UnreadyOnlyInRace'
  BY <1>0, TabConstants, Zenon DEF plugin_gone, passageVars, injectorVars, UnreadyOnlyInRace, OverlapSeen, RawPlugin, RawPluglet, TabTypeOK
<1> QED BY <1>1, <1>2, <1>3, <1>4, <1>5, <1>6, <1>7, <1>8 DEF TabInv

(* clear_plugin preserves the invariant. *)
LEMMA ClearPluginKeeps ==
    ASSUME TabInv, clear_plugin
    PROVE  TabInv'
<1> USE DEF Running, Injecting, Passing
<1>0. /\ TabTypeOK /\ RawPlugin /\ RawPluglet /\ TargetKept /\ OverlapSeen
      /\ QuietPassage /\ SlotsArePrefix /\ UnreadyOnlyInRace
  BY DEF TabInv
<1>1. TabTypeOK'
  BY <1>0, SlotPairs, TabConstants, Zenon DEF clear_plugin, passageVars, injectorVars, TabTypeOK, Stage, SlotState, Empty
<1>2. RawPlugin'
  BY <1>0, TabConstants DEF clear_plugin, passageVars, injectorVars, RawPlugin, TabTypeOK, TargetKept, Empty
<1>3. RawPluglet'
  BY <1>0, TabConstants DEF clear_plugin, passageVars, injectorVars, RawPluglet, RawPlugin, TabTypeOK, TargetKept, Empty
<1>4. TargetKept'
  BY <1>0, TabConstants, Zenon DEF clear_plugin, passageVars, injectorVars, TargetKept, RawPlugin, TabTypeOK, Stage, Empty
<1>5. OverlapSeen'
  BY <1>0, TabConstants, Zenon DEF clear_plugin, passageVars, injectorVars, OverlapSeen, TabTypeOK
<1>6. QuietPassage'
  BY <1>0, TabConstants DEF clear_plugin, passageVars, injectorVars, QuietPassage, OverlapSeen, RawPlugin, TabTypeOK, TargetKept, Empty
<1>7. SlotsArePrefix'
  BY <1>0, TabConstants DEF clear_plugin, passageVars, injectorVars, SlotsArePrefix, TabTypeOK, TargetKept, Slot, Empty
<1>8. UnreadyOnlyInRace'
  BY <1>0, TabConstants, Zenon DEF clear_plugin, passageVars, injectorVars, UnreadyOnlyInRace, OverlapSeen, RawPlugin, RawPluglet, TabTypeOK
<1> QED BY <1>1, <1>2, <1>3, <1>4, <1>5, <1>6, <1>7, <1>8 DEF TabInv

(* refuse preserves the invariant. *)
LEMMA RefuseKeeps ==
    ASSUME TabInv, refuse
    PROVE  TabInv'
<1> USE DEF Running, Injecting, Passing
<1>0. /\ TabTypeOK /\ RawPlugin /\ RawPluglet /\ TargetKept /\ OverlapSeen
      /\ QuietPassage /\ SlotsArePrefix /\ UnreadyOnlyInRace
  BY DEF TabInv
<1>1. TabTypeOK'
  BY <1>0, SlotPairs, TabConstants, Zenon DEF refuse, passageVars, injectorVars, TabTypeOK, Stage, SlotState, Empty
<1>2. RawPlugin'
  BY <1>0, TabConstants, Zenon DEF refuse, passageVars, injectorVars, RawPlugin, TabTypeOK, TargetKept, Empty
<1>3. RawPluglet'
  BY <1>0, TabConstants DEF refuse, passageVars, injectorVars, RawPluglet, RawPlugin, TabTypeOK, TargetKept, Empty
<1>4. TargetKept'
  BY <1>0, TabConstants, Zenon DEF refuse, passageVars, injectorVars, TargetKept, RawPlugin, TabTypeOK, Stage, Empty
<1>5. OverlapSeen'
  BY <1>0, TabConstants, Zenon DEF refuse, passageVars, injectorVars, OverlapSeen, TabTypeOK
<1>6. QuietPassage'
  BY <1>0, TabConstants, Zenon DEF refuse, passageVars, injectorVars, QuietPassage, OverlapSeen, RawPlugin, TabTypeOK, TargetKept, Empty
<1>7. SlotsArePrefix'
  BY <1>0, TabConstants DEF refuse, passageVars, injectorVars, SlotsArePrefix, TabTypeOK, TargetKept, Slot, Empty
<1>8. UnreadyOnlyInRace'
  BY <1>0, TabConstants, Zenon DEF refuse, passageVars, injectorVars, UnreadyOnlyInRace, OverlapSeen, RawPlugin, RawPluglet, TabTypeOK
<1> QED BY <1>1, <1>2, <1>3, <1>4, <1>5, <1>6, <1>7, <1>8 DEF TabInv

(* take_slot preserves the invariant. *)
LEMMA TakeSlotKeeps ==
    ASSUME TabInv, take_slot
    PROVE  TabInv'
<1> USE DEF Running, Injecting, Passing
<1>0. /\ TabTypeOK /\ RawPlugin /\ RawPluglet /\ TargetKept /\ OverlapSeen
      /\ QuietPassage /\ SlotsArePrefix /\ UnreadyOnlyInRace
  BY DEF TabInv
<1>1. TabTypeOK'
  <2>1. PICK i \in FreeSlots(req.point, req.anchor) :
          /\ \A j \in FreeSlots(req.point, req.anchor) : i <= j
          /\ target' = <<req.anchor, i>>
          /\ slot' = [slot EXCEPT ![req.point][<<req.anchor, i>>] = "raw"]
    BY Zenon DEF take_slot
  <2>2. /\ i \in Index /\ <<req.anchor, i>> \in Slot /\ req.point \in Point
        /\ slot[req.point][<<req.anchor, i>>] = "null"
        /\ i <= Capacity(req.anchor)
    BY <2>1, <1>0, SlotPairs DEF FreeSlots, take_slot, TabTypeOK
  <2> QED BY <2>1, <2>2, <1>0, Zenon DEF take_slot, passageVars, injectorVars, TabTypeOK, SlotState
<1>2. RawPlugin'
  BY <1>0, TabConstants DEF take_slot, passageVars, injectorVars, RawPlugin, TabTypeOK, TargetKept, Empty
<1>3. RawPluglet'
  BY <1>0, TabConstants DEF take_slot, passageVars, injectorVars, RawPluglet, RawPlugin, TabTypeOK, TargetKept, Empty
<1>4. TargetKept'
  <2>1. PICK i \in FreeSlots(req.point, req.anchor) :
          /\ \A j \in FreeSlots(req.point, req.anchor) : i <= j
          /\ target' = <<req.anchor, i>>
          /\ slot' = [slot EXCEPT ![req.point][<<req.anchor, i>>] = "raw"]
    BY Zenon DEF take_slot
  <2>2. /\ i \in Index /\ <<req.anchor, i>> \in Slot /\ req.point \in Point
        /\ slot[req.point][<<req.anchor, i>>] = "null"
        /\ i <= Capacity(req.anchor)
    BY <2>1, <1>0, SlotPairs DEF FreeSlots, take_slot, TabTypeOK
  <2>3. slot'[req.point][target'] = "raw"
    BY <2>1, <2>2, <1>0, Zenon DEF TabTypeOK
  <2> QED BY <2>3, <1>0, Zenon DEF take_slot, passageVars, injectorVars, TargetKept, RawPlugin, TabTypeOK, Stage
<1>5. OverlapSeen'
  BY <1>0, TabConstants, Zenon DEF take_slot, passageVars, injectorVars, OverlapSeen, TabTypeOK
<1>6. QuietPassage'
  BY <1>0, TabConstants, Zenon DEF take_slot, passageVars, injectorVars, QuietPassage, OverlapSeen, RawPlugin, TabTypeOK, TargetKept, Empty
<1>7. SlotsArePrefix'
  <2>1. PICK i \in FreeSlots(req.point, req.anchor) :
          /\ \A j \in FreeSlots(req.point, req.anchor) : i <= j
          /\ target' = <<req.anchor, i>>
          /\ slot' = [slot EXCEPT ![req.point][<<req.anchor, i>>] = "raw"]
    BY Zenon DEF take_slot
  <2>2. /\ i \in Index /\ <<req.anchor, i>> \in Slot /\ req.point \in Point
        /\ slot[req.point][<<req.anchor, i>>] = "null"
        /\ i <= Capacity(req.anchor)
    BY <2>1, <1>0, SlotPairs DEF FreeSlots, take_slot, TabTypeOK
  <2> SUFFICES ASSUME NEW p \in Point, NEW a \in Anchor, NEW k \in Index,
                      NEW j \in Index, k <= j, slot'[p][<<a, k>>] = "null"
               PROVE  slot'[p][<<a, j>>] = "null"
    BY DEF SlotsArePrefix
  <2>3. <<a, k>> \in Slot /\ <<a, j>> \in Slot
    BY SlotPairs, Zenon
  <2>4. slot[p][<<a, k>>] = "null" /\ slot[p][<<a, j>>] = "null"
    BY <2>1, <2>2, <2>3, <1>0 DEF TabTypeOK, SlotsArePrefix
  <2>5. CASE p = req.point /\ a = req.anchor /\ j = i
    <3>1. k # i
      BY <2>1, <2>2, <2>3, <2>5, <1>0, Zenon DEF TabTypeOK
    <3>2. k \in FreeSlots(req.point, req.anchor)
      BY <2>2, <2>4, <2>5, <1>0, SlotPairs DEF FreeSlots, Index
    <3> QED BY <3>1, <3>2, <2>1, <2>2, <2>5 DEF Index
  <2>6. CASE ~(p = req.point /\ a = req.anchor /\ j = i)
    BY <2>1, <2>2, <2>3, <2>4, <2>6, <1>0, Zenon DEF TabTypeOK
  <2> QED BY <2>5, <2>6, Zenon
<1>8. UnreadyOnlyInRace'
  BY <1>0, TabConstants, Zenon DEF take_slot, passageVars, injectorVars, UnreadyOnlyInRace, OverlapSeen, RawPlugin, RawPluglet, TabTypeOK
<1> QED BY <1>1, <1>2, <1>3, <1>4, <1>5, <1>6, <1>7, <1>8 DEF TabInv

(* load_elf_file preserves the invariant. *)
LEMMA LoadElfFileKeeps ==
    ASSUME TabInv, NEW ok \in BOOLEAN, load_elf_file(ok)
    PROVE  TabInv'
<1> USE DEF Running, Injecting, Passing
<1>0. /\ TabTypeOK /\ RawPlugin /\ RawPluglet /\ TargetKept /\ OverlapSeen
      /\ QuietPassage /\ SlotsArePrefix /\ UnreadyOnlyInRace
  BY Zenon DEF TabInv
<1>1. TabTypeOK'
  BY <1>0, SlotPairs, TabConstants, Zenon DEF load_elf_file, passageVars, injectorVars, TabTypeOK, Stage, SlotState, Empty
<1>2. RawPlugin'
  BY <1>0, TabConstants DEF load_elf_file, passageVars, injectorVars, RawPlugin, TabTypeOK, TargetKept, Empty
<1>3. RawPluglet'
  BY <1>0, TabConstants DEF load_elf_file, passageVars, injectorVars, RawPluglet, RawPlugin, TabTypeOK, TargetKept, Empty
<1>4. TargetKept'
  BY <1>0, TabConstants DEF load_elf_file, passageVars, injectorVars, TargetKept, RawPlugin, TabTypeOK, Stage, Empty
<1>5. OverlapSeen'
  BY <1>0, TabConstants, Zenon DEF load_elf_file, passageVars, injectorVars, OverlapSeen, TabTypeOK
<1>6. QuietPassage'
  BY <1>0, TabConstants, Zenon DEF load_elf_file, passageVars, injectorVars, QuietPassage, OverlapSeen, RawPlugin, TabTypeOK, TargetKept, Empty
<1>7. SlotsArePrefix'
  BY <1>0, TabConstants DEF load_elf_file, passageVars, injectorVars, SlotsArePrefix, TabTypeOK, TargetKept, Slot, Empty
<1>8. UnreadyOnlyInRace'
  BY <1>0, TabConstants, Zenon DEF load_elf_file, passageVars, injectorVars, UnreadyOnlyInRace, OverlapSeen, RawPlugin, RawPluglet, TabTypeOK
<1> QED BY <1>1, <1>2, <1>3, <1>4, <1>5, <1>6, <1>7, <1>8, Zenon DEF TabInv

(* set_context preserves the invariant. *)
LEMMA SetContextKeeps ==
    ASSUME TabInv, set_context
    PROVE  TabInv'
<1> USE DEF Running, Injecting, Passing
<1>0. /\ TabTypeOK /\ RawPlugin /\ RawPluglet /\ TargetKept /\ OverlapSeen
      /\ QuietPassage /\ SlotsArePrefix /\ UnreadyOnlyInRace
  BY DEF TabInv
<1>1. TabTypeOK'
  BY <1>0, SlotPairs, TabConstants, Zenon DEF set_context, passageVars, injectorVars, TabTypeOK, Stage, SlotState, Empty
<1>2. RawPlugin'
  BY <1>0, TabConstants DEF set_context, passageVars, injectorVars, RawPlugin, TabTypeOK, TargetKept, Empty
<1>3. RawPluglet'
  BY <1>0, TabConstants DEF set_context, passageVars, injectorVars, RawPluglet, RawPlugin, TabTypeOK, TargetKept, Empty
<1>4. TargetKept'
  BY <1>0, TabConstants, Zenon DEF set_context, passageVars, injectorVars, TargetKept, RawPlugin, TabTypeOK, Stage, Empty
<1>5. OverlapSeen'
  BY <1>0, TabConstants, Zenon DEF set_context, passageVars, injectorVars, OverlapSeen, TabTypeOK
<1>6. QuietPassage'
  BY <1>0, TabConstants, Zenon DEF set_context, passageVars, injectorVars, QuietPassage, OverlapSeen, RawPlugin, TabTypeOK, TargetKept, Empty
<1>7. SlotsArePrefix'
  BY <1>0, TabConstants DEF set_context, passageVars, injectorVars, SlotsArePrefix, TabTypeOK, TargetKept, Slot, Empty
<1>8. UnreadyOnlyInRace'
  BY <1>0, TabConstants, Zenon DEF set_context, passageVars, injectorVars, UnreadyOnlyInRace, OverlapSeen, RawPlugin, RawPluglet, TabTypeOK
<1> QED BY <1>1, <1>2, <1>3, <1>4, <1>5, <1>6, <1>7, <1>8 DEF TabInv

(* enter preserves the invariant. *)
LEMMA EnterKeeps ==
    ASSUME TabInv, NEW p \in Point, enter(p)
    PROVE  TabInv'
<1> USE DEF Running, Injecting, Passing
<1>0. /\ TabTypeOK /\ RawPlugin /\ RawPluglet /\ TargetKept /\ OverlapSeen
      /\ QuietPassage /\ SlotsArePrefix /\ UnreadyOnlyInRace
  BY Zenon DEF TabInv
<1>1. TabTypeOK'
  BY <1>0, SlotPairs, TabConstants, Zenon DEF enter, passageVars, injectorVars, TabTypeOK, Stage, SlotState, Empty
<1>2. RawPlugin'
  BY <1>0, TabConstants DEF enter, passageVars, injectorVars, RawPlugin, TabTypeOK, TargetKept, Empty
<1>3. RawPluglet'
  BY <1>0, TabConstants DEF enter, passageVars, injectorVars, RawPluglet, RawPlugin, TabTypeOK, TargetKept, Empty
<1>4. TargetKept'
  BY <1>0, TabConstants, Zenon DEF enter, passageVars, injectorVars, TargetKept, RawPlugin, TabTypeOK, Stage, Empty
<1>5. OverlapSeen'
  BY <1>0, TabConstants, Zenon DEF enter, passageVars, injectorVars, OverlapSeen, TabTypeOK
<1>6. QuietPassage'
  BY <1>0, TabConstants, Zenon DEF enter, passageVars, injectorVars, QuietPassage, OverlapSeen, RawPlugin, TabTypeOK, TargetKept, Empty
<1>7. SlotsArePrefix'
  BY <1>0, TabConstants DEF enter, passageVars, injectorVars, SlotsArePrefix, TabTypeOK, TargetKept, Slot, Empty
<1>8. UnreadyOnlyInRace'
  BY <1>0, TabConstants, Zenon DEF enter, passageVars, injectorVars, UnreadyOnlyInRace, OverlapSeen, RawPlugin, RawPluglet, TabTypeOK
<1> QED BY <1>1, <1>2, <1>3, <1>4, <1>5, <1>6, <1>7, <1>8, Zenon DEF TabInv

(* test_slot preserves the invariant. *)
LEMMA TestSlotKeeps ==
    ASSUME TabInv, test_slot
    PROVE  TabInv'
<1> USE DEF Running, Injecting, Passing
<1>0. /\ TabTypeOK /\ RawPlugin /\ RawPluglet /\ TargetKept /\ OverlapSeen
      /\ QuietPassage /\ SlotsArePrefix /\ UnreadyOnlyInRace
  BY DEF TabInv
<1>a. /\ pc' \in {"test", "native", "idle", "exec"} /\ cursor' \in Slot
      /\ pc' = "exec" => /\ cursor' = cursor
                         /\ \/ stage[at] = "raw"
                            \/ stage[at] = "set" /\ slot[at][cursor] # "null"
  <2>1. CASE AfterNull
    BY <2>1, <1>0, Advance, Zenon
  <2>2. CASE ~AfterNull
    BY <2>2, <1>0, Zenon DEF test_slot, TabTypeOK
  <2> QED BY <2>1, <2>2, Zenon
<1>1. TabTypeOK'
  BY <1>0, <1>a, SlotPairs, TabConstants DEF test_slot, passageVars, injectorVars, TabTypeOK, Stage, SlotState, Empty
<1>2. RawPlugin'
  BY <1>0, <1>a, TabConstants DEF test_slot, passageVars, injectorVars, RawPlugin, TabTypeOK, TargetKept, Empty
<1>3. RawPluglet'
  BY <1>0, <1>a, TabConstants DEF test_slot, passageVars, injectorVars, RawPluglet, RawPlugin, TabTypeOK, TargetKept, Empty
<1>4. TargetKept'
  BY <1>0, <1>a, TabConstants, Zenon DEF test_slot, passageVars, injectorVars, TargetKept, RawPlugin, TabTypeOK, Stage, Empty
<1>5. OverlapSeen'
  BY <1>0, <1>a, TabConstants, Zenon DEF test_slot, passageVars, injectorVars, OverlapSeen, TabTypeOK
<1>6. QuietPassage'
  BY <1>0, <1>a, TabConstants, Zenon DEF test_slot, passageVars, injectorVars, QuietPassage, OverlapSeen, RawPlugin, TabTypeOK, TargetKept, Empty
<1>7. SlotsArePrefix'
  BY <1>0, <1>a, TabConstants DEF test_slot, passageVars, injectorVars, SlotsArePrefix, TabTypeOK, TargetKept, Slot, Empty
<1>8. UnreadyOnlyInRace'
  BY <1>0, <1>a, TabConstants, Zenon DEF test_slot, passageVars, injectorVars, UnreadyOnlyInRace, OverlapSeen, RawPlugin, RawPluglet, TabTypeOK
<1> QED BY <1>1, <1>2, <1>3, <1>4, <1>5, <1>6, <1>7, <1>8 DEF TabInv

(* native preserves the invariant. *)
LEMMA NativeKeeps ==
    ASSUME TabInv, native
    PROVE  TabInv'
<1> USE DEF Running, Injecting, Passing
<1>0. /\ TabTypeOK /\ RawPlugin /\ RawPluglet /\ TargetKept /\ OverlapSeen
      /\ QuietPassage /\ SlotsArePrefix /\ UnreadyOnlyInRace
  BY DEF TabInv
<1>1. TabTypeOK'
  BY <1>0, SlotPairs, TabConstants DEF native, passageVars, injectorVars, TabTypeOK, Stage, SlotState, Empty
<1>2. RawPlugin'
  BY <1>0, TabConstants DEF native, passageVars, injectorVars, RawPlugin, TabTypeOK, TargetKept, Empty
<1>3. RawPluglet'
  BY <1>0, TabConstants DEF native, passageVars, injectorVars, RawPluglet, RawPlugin, TabTypeOK, TargetKept, Empty
<1>4. TargetKept'
  BY <1>0, TabConstants, Zenon DEF native, passageVars, injectorVars, TargetKept, RawPlugin, TabTypeOK, Stage, Empty
<1>5. OverlapSeen'
  BY <1>0, TabConstants, Zenon DEF native, passageVars, injectorVars, OverlapSeen, TabTypeOK
<1>6. QuietPassage'
  BY <1>0, TabConstants, Zenon DEF native, passageVars, injectorVars, QuietPassage, OverlapSeen, RawPlugin, TabTypeOK, TargetKept, Empty
<1>7. SlotsArePrefix'
  BY <1>0, TabConstants DEF native, passageVars, injectorVars, SlotsArePrefix, TabTypeOK, TargetKept, Slot, Empty
<1>8. UnreadyOnlyInRace'
  BY <1>0, TabConstants, Zenon DEF native, passageVars, injectorVars, UnreadyOnlyInRace, OverlapSeen, RawPlugin, RawPluglet, TabTypeOK
<1> QED BY <1>1, <1>2, <1>3, <1>4, <1>5, <1>6, <1>7, <1>8 DEF TabInv

(* exec_null preserves the invariant. *)
LEMMA ExecNullKeeps ==
    ASSUME TabInv, exec_null
    PROVE  TabInv'
<1> USE DEF Running, Injecting, Passing
<1>0. /\ TabTypeOK /\ RawPlugin /\ RawPluglet /\ TargetKept /\ OverlapSeen
      /\ QuietPassage /\ SlotsArePrefix /\ UnreadyOnlyInRace
  BY DEF TabInv
<1>a. pc' \in {"test", "native", "idle"} /\ cursor' \in Slot
  BY <1>0, Advance, Zenon DEF exec_null
<1>1. TabTypeOK'
  BY <1>0, <1>a, SlotPairs, TabConstants, Zenon DEF exec_null, passageVars, injectorVars, TabTypeOK, Stage, SlotState, Empty
<1>2. RawPlugin'
  BY <1>0, <1>a, TabConstants DEF exec_null, passageVars, injectorVars, RawPlugin, TabTypeOK, TargetKept, Empty
<1>3. RawPluglet'
  BY <1>0, <1>a, TabConstants DEF exec_null, passageVars, injectorVars, RawPluglet, RawPlugin, TabTypeOK, TargetKept, Empty
<1>4. TargetKept'
  BY <1>0, <1>a, TabConstants, Zenon DEF exec_null, passageVars, injectorVars, TargetKept, RawPlugin, TabTypeOK, Stage, Empty
<1>5. OverlapSeen'
  BY <1>0, <1>a, TabConstants, Zenon DEF exec_null, passageVars, injectorVars, OverlapSeen, TabTypeOK
<1>6. QuietPassage'
  BY <1>0, <1>a, TabConstants, Zenon DEF exec_null, passageVars, injectorVars, QuietPassage, OverlapSeen, RawPlugin, TabTypeOK, TargetKept, Empty
<1>7. SlotsArePrefix'
  BY <1>0, <1>a, TabConstants DEF exec_null, passageVars, injectorVars, SlotsArePrefix, TabTypeOK, TargetKept, Slot, Empty
<1>8. UnreadyOnlyInRace'
  BY <1>0, <1>a, TabConstants, Zenon DEF exec_null, passageVars, injectorVars, UnreadyOnlyInRace, OverlapSeen, RawPlugin, RawPluglet, TabTypeOK
<1> QED BY <1>1, <1>2, <1>3, <1>4, <1>5, <1>6, <1>7, <1>8 DEF TabInv

(* exec_start preserves the invariant. *)
LEMMA ExecStartKeeps ==
    ASSUME TabInv, exec_start
    PROVE  TabInv'
<1> USE DEF Running, Injecting, Passing
<1>0. /\ TabTypeOK /\ RawPlugin /\ RawPluglet /\ TargetKept /\ OverlapSeen
      /\ QuietPassage /\ SlotsArePrefix /\ UnreadyOnlyInRace
  BY DEF TabInv
<1>1. TabTypeOK'
  BY <1>0, SlotPairs, TabConstants, Zenon DEF exec_start, passageVars, injectorVars, TabTypeOK, Stage, SlotState, Empty
<1>2. RawPlugin'
  BY <1>0, TabConstants DEF exec_start, passageVars, injectorVars, RawPlugin, TabTypeOK, TargetKept, Empty
<1>3. RawPluglet'
  BY <1>0, TabConstants DEF exec_start, passageVars, injectorVars, RawPluglet, RawPlugin, TabTypeOK, TargetKept, Empty
<1>4. TargetKept'
  BY <1>0, TabConstants, Zenon DEF exec_start, passageVars, injectorVars, TargetKept, RawPlugin, TabTypeOK, Stage, Empty
<1>5. OverlapSeen'
  BY <1>0, TabConstants, Zenon DEF exec_start, passageVars, injectorVars, OverlapSeen, TabTypeOK
<1>6. QuietPassage'
  BY <1>0, TabConstants, Zenon DEF exec_start, passageVars, injectorVars, QuietPassage, OverlapSeen, RawPlugin, TabTypeOK, TargetKept, Empty
<1>7. SlotsArePrefix'
  BY <1>0, TabConstants DEF exec_start, passageVars, injectorVars, SlotsArePrefix, TabTypeOK, TargetKept, Slot, Empty
<1>8. UnreadyOnlyInRace'
  BY <1>0, TabConstants, Zenon DEF exec_start, passageVars, injectorVars, UnreadyOnlyInRace, OverlapSeen, RawPlugin, RawPluglet, TabTypeOK
<1> QED BY <1>1, <1>2, <1>3, <1>4, <1>5, <1>6, <1>7, <1>8 DEF TabInv

(* exec_unready preserves the invariant. *)
LEMMA ExecUnreadyKeeps ==
    ASSUME TabInv, exec_unready
    PROVE  TabInv'
<1> USE DEF Running, Injecting, Passing
<1>0. /\ TabTypeOK /\ RawPlugin /\ RawPluglet /\ TargetKept /\ OverlapSeen
      /\ QuietPassage /\ SlotsArePrefix /\ UnreadyOnlyInRace
  BY DEF TabInv
<1>1. TabTypeOK'
  BY <1>0, SlotPairs, TabConstants, Zenon DEF exec_unready, passageVars, injectorVars, TabTypeOK, Stage, SlotState, Empty
<1>2. RawPlugin'
  BY <1>0, TabConstants DEF exec_unready, passageVars, injectorVars, RawPlugin, TabTypeOK, TargetKept, Empty
<1>3. RawPluglet'
  BY <1>0, TabConstants DEF exec_unready, passageVars, injectorVars, RawPluglet, RawPlugin, TabTypeOK, TargetKept, Empty
<1>4. TargetKept'
  BY <1>0, TabConstants, Zenon DEF exec_unready, passageVars, injectorVars, TargetKept, RawPlugin, TabTypeOK, Stage, Empty
<1>5. OverlapSeen'
  BY <1>0, TabConstants, Zenon DEF exec_unready, passageVars, injectorVars, OverlapSeen, TabTypeOK
<1>6. QuietPassage'
  BY <1>0, TabConstants, Zenon DEF exec_unready, passageVars, injectorVars, QuietPassage, OverlapSeen, RawPlugin, TabTypeOK, TargetKept, Empty
<1>7. SlotsArePrefix'
  BY <1>0, TabConstants DEF exec_unready, passageVars, injectorVars, SlotsArePrefix, TabTypeOK, TargetKept, Slot, Empty
<1>8. UnreadyOnlyInRace'
  BY <1>0, TabConstants, Zenon DEF exec_unready, passageVars, injectorVars, UnreadyOnlyInRace, OverlapSeen, RawPlugin, RawPluglet, TabTypeOK
<1> QED BY <1>1, <1>2, <1>3, <1>4, <1>5, <1>6, <1>7, <1>8 DEF TabInv

(* exec_end preserves the invariant. *)
LEMMA ExecEndKeeps ==
    ASSUME TabInv, exec_end
    PROVE  TabInv'
<1> USE DEF Running, Injecting, Passing
<1>0. /\ TabTypeOK /\ RawPlugin /\ RawPluglet /\ TargetKept /\ OverlapSeen
      /\ QuietPassage /\ SlotsArePrefix /\ UnreadyOnlyInRace
  BY DEF TabInv
<1>a. pc' \in {"test", "native", "idle"} /\ cursor' \in Slot
  BY <1>0, Advance, Zenon DEF exec_end
<1>1. TabTypeOK'
  BY <1>0, <1>a, SlotPairs, TabConstants, Zenon DEF exec_end, passageVars, injectorVars, TabTypeOK, Stage, SlotState, Empty
<1>2. RawPlugin'
  BY <1>0, <1>a, TabConstants, Zenon DEF exec_end, passageVars, injectorVars, RawPlugin, TabTypeOK, TargetKept, Empty
<1>3. RawPluglet'
  BY <1>0, <1>a, TabConstants DEF exec_end, passageVars, injectorVars, RawPluglet, RawPlugin, TabTypeOK, TargetKept, Empty
<1>4. TargetKept'
  BY <1>0, <1>a, TabConstants, Zenon DEF exec_end, passageVars, injectorVars, TargetKept, RawPlugin, TabTypeOK, Stage, Empty
<1>5. OverlapSeen'
  BY <1>0, <1>a, TabConstants, Zenon DEF exec_end, passageVars, injectorVars, OverlapSeen, TabTypeOK
<1>6. QuietPassage'
  BY <1>0, <1>a, TabConstants, Zenon DEF exec_end, passageVars, injectorVars, QuietPassage, OverlapSeen, RawPlugin, TabTypeOK, TargetKept, Empty
<1>7. SlotsArePrefix'
  BY <1>0, <1>a, TabConstants DEF exec_end, passageVars, injectorVars, SlotsArePrefix, TabTypeOK, TargetKept, Slot, Empty
<1>8. UnreadyOnlyInRace'
  BY <1>0, <1>a, TabConstants, Zenon DEF exec_end, passageVars, injectorVars, UnreadyOnlyInRace, OverlapSeen, RawPlugin, RawPluglet, TabTypeOK
<1> QED BY <1>1, <1>2, <1>3, <1>4, <1>5, <1>6, <1>7, <1>8 DEF TabInv

(* release_all_plugins preserves the invariant. *)
LEMMA ReleaseAllPluginsKeeps ==
    ASSUME TabInv, release_all_plugins
    PROVE  TabInv'
<1> USE DEF Running, Injecting, Passing
<1>0. /\ TabTypeOK /\ RawPlugin /\ RawPluglet /\ TargetKept /\ OverlapSeen
      /\ QuietPassage /\ SlotsArePrefix /\ UnreadyOnlyInRace
  BY DEF TabInv
<1>1. TabTypeOK'
  BY <1>0, SlotPairs, TabConstants, Zenon DEF release_all_plugins, passageVars, injectorVars, TabTypeOK, Stage, SlotState, Empty
<1>2. RawPlugin'
  BY <1>0, TabConstants, Zenon DEF release_all_plugins, passageVars, injectorVars, RawPlugin, TabTypeOK, TargetKept, Empty
<1>3. RawPluglet'
  BY <1>0, TabConstants, Zenon DEF release_all_plugins, passageVars, injectorVars, RawPluglet, RawPlugin, TabTypeOK, TargetKept, Empty
<1>4. TargetKept'
  BY <1>0, TabConstants, Zenon DEF release_all_plugins, passageVars, injectorVars, TargetKept, RawPlugin, TabTypeOK, Stage, Empty
<1>5. OverlapSeen'
  BY <1>0, TabConstants, Zenon DEF release_all_plugins, passageVars, injectorVars, OverlapSeen, TabTypeOK
<1>6. QuietPassage'
  BY <1>0, TabConstants, Zenon DEF release_all_plugins, passageVars, injectorVars, QuietPassage, OverlapSeen, RawPlugin, TabTypeOK, TargetKept, Empty
<1>7. SlotsArePrefix'
  BY <1>0, TabConstants, Zenon DEF release_all_plugins, passageVars, injectorVars, SlotsArePrefix, TabTypeOK, TargetKept, Slot, Empty
<1>8. UnreadyOnlyInRace'
  BY <1>0, TabConstants, Zenon DEF release_all_plugins, passageVars, injectorVars, UnreadyOnlyInRace, OverlapSeen, RawPlugin, RawPluglet, TabTypeOK
<1> QED BY <1>1, <1>2, <1>3, <1>4, <1>5, <1>6, <1>7, <1>8 DEF TabInv

(* Every step of either thread preserves the invariant. *)
LEMMA TabInvNext == TabInv /\ [TabNext]_tabVars => TabInv'
<1> SUFFICES ASSUME TabInv, [TabNext]_tabVars PROVE TabInv'
  BY Zenon
<1>1. CASE \E r \in Requests : receive(r)
  BY <1>1, ReceiveKeeps, Zenon
<1>2. CASE inject_pluglet
  <2>1. CASE \E ok \in BOOLEAN : load_elf_file(ok)
    BY <2>1, LoadElfFileKeeps, Zenon
  <2> QED BY <1>2, <2>1, CreatePluginKeeps, PluginGoneKeeps, ClearPluginKeeps,
             RefuseKeeps, TakeSlotKeeps, SetContextKeeps, Zenon DEF inject_pluglet
<1>3. CASE \E p \in Point : enter(p)
  BY <1>3, EnterKeeps, Zenon
<1>4. CASE main_thread
  BY <1>4, TestSlotKeeps, NativeKeeps, ExecNullKeeps, ExecStartKeeps,
     ExecUnreadyKeeps, ExecEndKeeps, Zenon DEF main_thread
<1>5. CASE release_all_plugins
  BY <1>5, ReleaseAllPluginsKeeps, Zenon
<1>6. CASE UNCHANGED tabVars
  BY <1>6 DEF tabVars, TabInv, TabTypeOK, RawPlugin, RawPluglet, TargetKept, OverlapSeen,
     QuietPassage, Passing, Injecting, SlotsArePrefix, UnreadyOnlyInRace
<1> QED BY <1>1, <1>2, <1>3, <1>4, <1>5, <1>6, Zenon DEF TabNext

(* The invariant holds throughout every execution. *)
LEMMA TabInvAlways == TabSpec => []TabInv
BY TabInvInit, TabInvNext, PTL DEF TabSpec

(* Whatever the users request and however the manager and the main thread   *)
(* interleave: the arrays have no holes, a plugin or pluglet is met half    *)
(* built only in a passage an injection overlaps, and outside such passages *)
(* the pluglets of guarded insertion points find their argument and heap.   *)
THEOREM TableSound ==
    TabSpec => [](TabTypeOK /\ SlotsArePrefix /\ UnreadyOnlyInRace /\ HeapWhenRunning)
<1>1. TabInv => TabTypeOK /\ SlotsArePrefix /\ UnreadyOnlyInRace /\ HeapWhenRunning
  BY Zenon DEF TabInv, QuietPassage, HeapWhenRunning, Passing
<1> QED BY <1>1, TabInvAlways, PTL

(* The pluglets of an anchor fill its array from the first slot, as the     *)
(* loops that run and release them assume: they stop at the first null.     *)
THEOREM ArraysHaveNoHoles == TabSpec => []SlotsArePrefix
BY TableSound, PTL

(* A pluglet run at a guarded insertion point finds the argument and heap   *)
(* set up, unless an injection overlaps the passage.                        *)
THEOREM HeapIsSetUp == TabSpec => []HeapWhenRunning
BY TableSound, PTL

(* Only exec_null leaves the mutex locked, and without an overlap the test  *)
(* of a guarded insertion point keeps the main thread away from it.         *)
LEMMA LockStep ==
    TabInv /\ [TabNext]_tabVars =>
        [lock = "free" /\ lock' = "left" => at \in Bare \/ overlap]_tabVars
<1> SUFFICES ASSUME TabInv, TabNext, lock = "free", lock' = "left"
             PROVE  at \in Bare \/ overlap
  BY Zenon DEF tabVars
<1>1. exec_null
  BY Zenon DEF TabNext, inject_pluglet, main_thread, receive, create_plugin, plugin_gone,
     clear_plugin, refuse, take_slot, load_elf_file, set_context, enter, test_slot,
     native, exec_start, exec_unready, exec_end, release_all_plugins
<1> QED BY <1>1, Zenon DEF exec_null, TabInv, QuietPassage, TabTypeOK, Point

(* exec_loaded_code returns with the mutex locked only at the insertion     *)
(* points that run pluglets_PRE[0] untested, or in a passage an injection   *)
(* overlaps.                                                                *)
THEOREM LockOutcome == TabSpec => LockLeftOnlyUntested
BY TabInvAlways, LockStep, PTL DEF TabSpec, LockLeftOnlyUntested

(* No step but the release at termination changes a pluglet that is ready.  *)
LEMMA ReadyStep ==
    TabInv /\ [TabNext]_tabVars =>
        [\A p \in Point, s \in Slot :
            slot[p][s] = "ready" => slot'[p][s] = "ready" \/ pc' = "terminated"]_tabVars
<1> SUFFICES ASSUME TabInv, TabNext, NEW p \in Point, NEW s \in Slot, slot[p][s] = "ready"
             PROVE  slot'[p][s] = "ready" \/ pc' = "terminated"
  BY Zenon DEF tabVars
<1>0. TabTypeOK /\ RawPlugin /\ TargetKept
  BY Zenon DEF TabInv
<1>1. CASE clear_plugin
  BY <1>0, <1>1, Zenon DEF clear_plugin, TabTypeOK, RawPlugin, TargetKept
<1>2. CASE take_slot
  <2>1. PICK i \in FreeSlots(req.point, req.anchor) :
          slot' = [slot EXCEPT ![req.point][<<req.anchor, i>>] = "raw"]
    BY <1>2, Zenon DEF take_slot
  <2> QED BY <2>1, <1>0, Zenon DEF FreeSlots, TabTypeOK
<1>3. CASE \E ok \in BOOLEAN : load_elf_file(ok)
  <2>1. /\ slot[req.point][target] = "raw"
        /\ \/ slot' = [slot EXCEPT ![req.point][target] = "loaded"]
           \/ slot' = [slot EXCEPT ![req.point][target] = "broken"]
    BY <1>0, <1>3, Zenon DEF load_elf_file, TabTypeOK, TargetKept
  <2>2. slot \in [Point -> [Slot -> SlotState]]
    BY <1>0, Zenon DEF TabTypeOK
  <2> QED BY <2>1, <2>2
<1>4. CASE set_context
  BY <1>0, <1>4, Zenon DEF set_context, TabTypeOK
<1>5. CASE release_all_plugins
  BY <1>5, Zenon DEF release_all_plugins
<1>6. CASE UNCHANGED slot
  BY <1>6, Zenon
<1> QED
  BY <1>1, <1>2, <1>3, <1>4, <1>5, <1>6, ZenonT(30) DEF TabNext, inject_pluglet, main_thread, receive,
     create_plugin, plugin_gone, refuse, enter, test_slot, native, exec_null,
     exec_start, exec_unready, exec_end

(* A pluglet that is set up stays in its slot until the daemon terminates.  *)
THEOREM ReadyPlugletsStay == TabSpec => ReadyStays
BY TabInvAlways, ReadyStep, PTL DEF TabSpec, ReadyStays
=============================================================================
