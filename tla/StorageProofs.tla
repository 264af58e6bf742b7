---------------------------- MODULE StorageProofs ----------------------------
(***************************************************************************)
(* Theorems about Storage, for any handles, writers and bounds: two        *)
(* writers at a time, opens that undo an allocation and crashes included.  *)
(*                                                                         *)
(* Then ChainsDisjoint, StoreStaysInside and LoadIsExact, for one writer   *)
(* (a tree has one: the commit worker's) and any number of readers, nodes, *)
(* sizes, stores and blocks, until a store is led over the header.         *)
(***************************************************************************)
EXTENDS Storage, Induction

(***************************************************************************)
(* What a handle knows at each stage.                                      *)
(***************************************************************************)
StageOK(p) ==
    /\ h[p].pc \in {"alloc", "allocWrite", "resize", "use", "write"} => h[p].done < h[p].size
    /\ h[p].pc \in {"allocWrite", "resize", "use"} => h[p].used < MaxBlocks
    /\ h[p].pc \in {"write", "end"} => h[p].node \in Block
    /\ h[p].pc = "load" => h[p].cur \in Block
    /\ h[p].pc = "setRoot" => h[p].node \in DOMAIN last

StorageInv ==
    /\ TypeOK
    /\ \A p \in Handle : StageOK(p)
    /\ RootIsStored

(***************************************************************************)
(* A step that changes one handle and no block leaves the others' types    *)
(* and stages as they were.                                                *)
(***************************************************************************)
LEMMA OneHandle ==
    ASSUME StorageInv, NEW p \in Handle, NEW r \in HandleType,
           h' = [h EXCEPT ![p] = r], r.done <= r.size,
           DOMAIN last \subseteq DOMAIN last', StageOK(p)'
    PROVE  /\ h' \in [Handle -> HandleType]
           /\ \A q \in Handle : h'[q].done <= h'[q].size
           /\ \A q \in Handle : StageOK(q)'
<1>1. h \in [Handle -> HandleType] /\ \A q \in Handle : h[q].done <= h[q].size /\ StageOK(q)
  BY DEF StorageInv, TypeOK
<1>2. \A q \in Handle : h'[q] = IF q = p THEN r ELSE h[q]
  BY <1>1
<1>3. ASSUME NEW q \in Handle, q # p PROVE StageOK(q)'
  <2>1. StageOK(q) /\ h'[q] = h[q]
    BY <1>1, <1>2, <1>3
  <2> QED BY <2>1 DEF StageOK
<1> QED BY <1>1, <1>2, <1>3

LEMMA ClosedTyped == Closed \in HandleType /\ Closed.done <= Closed.size
  BY StorageAssumption DEF Closed, HandleType, Stages, Storing

LEMMA InitInv == Init => StorageInv
<1> SUFFICES ASSUME Init PROVE StorageInv OBVIOUS
<1>1. Blank \in BlockType
  BY StorageAssumption DEF Blank, BlockType, Nothing, Piece
<1>2. blocks \in [Block -> BlockType]
  BY <1>1 DEF Init
<1>3. h \in [Handle -> HandleType] /\ \A p \in Handle : h[p].done <= h[p].size
  BY ClosedTyped DEF Init
<1>4. DOMAIN last \subseteq Block
  <2>1. last = <<>> /\ DOMAIN <<>> = {}
    BY DEF Init
  <2> QED BY <2>1
<1>5. /\ usedSpace \in 0..MaxBlocks /\ rootOffset \in 0..MaxBlocks /\ fileLen \in Nat
      /\ {stores, crashes} \subseteq Nat
  BY StorageAssumption DEF Init
<1>9. cut \subseteq Block /\ {rolledBack, wrecked} \subseteq BOOLEAN
  BY DEF Init
<1>8. TypeOK
  BY <1>2, <1>3, <1>4, <1>5, <1>9 DEF TypeOK
<1>6. \A p \in Handle : StageOK(p)
  BY DEF Init, StageOK, Closed
<1>7. RootIsStored
  BY DEF Init, RootIsStored, RootIsDurable
<1> QED BY <1>8, <1>6, <1>7 DEF StorageInv

(***************************************************************************)
(* What a handle is when at rest, and when it begins to store a new node.  *)
(***************************************************************************)
LEMMA RestTyped ==
    ASSUME StorageInv, NEW p \in Handle
    PROVE  /\ AtRest(p) \in HandleType
           /\ AtRest(p).pc = "open" /\ AtRest(p).done = 0 /\ AtRest(p).size = 0
           /\ AtRest(p).done <= AtRest(p).size
<1> DEFINE r == [Closed EXCEPT !.pc = "open"]
<1>1. /\ r \in HandleType
      /\ r.pc = "open" /\ r.done = 0 /\ r.size = 0
  BY ClosedTyped DEF HandleType, Stages, Closed
<1>2. h[p].mapped \in Nat
  BY DEF StorageInv, TypeOK, HandleType
<1> HIDE DEF r
<1>3. [r EXCEPT !.mapped = h[p].mapped] \in HandleType
  BY <1>1, <1>2 DEF HandleType
<1>4. LET t == [r EXCEPT !.mapped = h[p].mapped]
      IN  t.pc = r.pc /\ t.done = r.done /\ t.size = r.size
  BY <1>1 DEF HandleType
<1>5. AtRest(p) \in HandleType /\ AtRest(p).pc = "open"
      /\ AtRest(p).done = 0 /\ AtRest(p).size = 0
  BY <1>1, <1>3, <1>4 DEF AtRest, r
<1> HIDE DEF r
<1> QED BY <1>5

LEMMA NewTyped ==
    ASSUME StorageInv, NEW p \in Handle, NEW size \in Size
    PROVE  /\ NewNode(p, size) \in HandleType
           /\ NewNode(p, size).pc = "alloc"
           /\ NewNode(p, size).done = 0 /\ NewNode(p, size).size = size
<1> DEFINE r1 == [AtRest(p) EXCEPT !.pc = "alloc"]
           r2 == [r1 EXCEPT !.ver = stores + 1]
<1>1. r1 \in HandleType /\ r1.pc = "alloc" /\ r1.done = 0
  BY RestTyped DEF HandleType, Stages, Storing
<1>2. stores + 1 \in Nat /\ size \in 0..MaxSize
  BY StorageAssumption DEF StorageInv, TypeOK, Size
<1> HIDE DEF r1
<1>3. r2 \in HandleType /\ r2.pc = "alloc" /\ r2.done = 0
  BY <1>1, <1>2 DEF HandleType
<1> HIDE DEF r2
<1>4. LET r == [r2 EXCEPT !.size = size]
      IN  r \in HandleType /\ r.pc = "alloc" /\ r.done = 0 /\ r.size = size
  BY <1>2, <1>3 DEF HandleType
<1> QED BY <1>4 DEF NewNode, r1, r2

LEMMA StepInv == StorageInv /\ [Next]_vars => StorageInv'
<1> SUFFICES ASSUME StorageInv, [Next]_vars PROVE StorageInv' OBVIOUS
<1>0. /\ h \in [Handle -> HandleType] /\ blocks \in [Block -> BlockType]
      /\ MaxBlocks \in Nat /\ MaxSize \in Nat
  BY StorageAssumption DEF StorageInv, TypeOK
<1>1. ASSUME NEW p \in Handle, Open(p) PROVE StorageInv'
  <2> DEFINE r1 == [Closed EXCEPT !.pc = "opening"]
             r2 == [r1 EXCEPT !.mapped = fileLen]
             r == [r2 EXCEPT !.used = usedSpace]
  <2>1. h' = [h EXCEPT ![p] = r] /\ UNCHANGED <<disk, history>>
    BY <1>1 DEF Open
  <2>2. fileLen \in Nat /\ usedSpace \in 0..MaxBlocks
    BY DEF StorageInv, TypeOK
  <2>3. r1 \in HandleType /\ r1.pc = "opening" /\ r1.done = 0 /\ r1.size = 0
    BY ClosedTyped DEF HandleType, Stages, Closed
  <2> HIDE DEF r1
  <2>4. r2 \in HandleType /\ r2.pc = "opening" /\ r2.done = 0 /\ r2.size = 0
    BY <2>2, <2>3 DEF HandleType
  <2> HIDE DEF r2
  <2>5. r \in HandleType /\ r.pc = "opening" /\ r.done <= r.size
    BY <2>2, <2>4 DEF HandleType
  <2> HIDE DEF r
  <2>6. StageOK(p)'
    BY <1>0, <2>1, <2>5 DEF StageOK
  <2>7. /\ h' \in [Handle -> HandleType]
        /\ \A q \in Handle : h'[q].done <= h'[q].size /\ StageOK(q)'
    BY <2>1, <2>5, <2>6, OneHandle DEF disk, history
  <2> QED BY <2>1, <2>5, <2>6, <2>7
         DEF StorageInv, TypeOK, RootIsStored, RootIsDurable, disk, history
<1>2. ASSUME NEW p \in Handle, WriteBack(p) PROVE StorageInv'
  <2> DEFINE r == [h[p] EXCEPT !.pc = "new"]
  <2>1. /\ h' = [h EXCEPT ![p] = r]
        /\ usedSpace' = h[p].used /\ rolledBack' \in BOOLEAN
        /\ UNCHANGED <<rootOffset, fileLen, blocks, last, cut, stores, crashes, wrecked>>
    BY <1>2 DEF WriteBack, StorageInv, TypeOK
  <2>2. /\ r \in HandleType /\ r.done <= r.size /\ r.pc = "new"
        /\ usedSpace' \in 0..MaxBlocks
    BY <2>1 DEF StorageInv, TypeOK, HandleType, Stages, Storing
  <2> HIDE DEF r
  <2>3. StageOK(p)'
    BY <1>0, <2>1, <2>2 DEF StageOK
  <2>4. /\ h' \in [Handle -> HandleType]
        /\ \A q \in Handle : h'[q].done <= h'[q].size /\ StageOK(q)'
    BY <2>1, <2>2, <2>3, OneHandle
  <2> QED BY <2>1, <2>2, <2>3, <2>4
         DEF StorageInv, TypeOK, RootIsStored, RootIsDurable
<1>3. ASSUME NEW p \in Handle, NewTree(p) PROVE StorageInv'
  <2>1. UNCHANGED <<disk, last, cut, crashes, rolledBack, wrecked>>
    BY <1>3 DEF NewTree
  <2>2. CASE h' = [h EXCEPT ![p] = NewNode(p, 1)] /\ stores' = stores + 1
    <3>1. 1 \in Size
      BY StorageAssumption DEF Size
    <3>2. stores' \in Nat /\ 0 <= 1 /\ 0 < 1
      BY <2>2 DEF StorageInv, TypeOK
    <3>3. StageOK(p)'
      BY <1>0, <2>2, <3>1, <3>2, NewTyped DEF StageOK
    <3>4. /\ h' \in [Handle -> HandleType]
          /\ \A q \in Handle : h'[q].done <= h'[q].size /\ StageOK(q)'
      BY <2>1, <2>2, <3>1, <3>2, <3>3, NewTyped, OneHandle DEF disk
    <3> QED BY <2>1, <2>2, <3>1, <3>2, <3>3, NewTyped, <3>4
           DEF StorageInv, TypeOK, RootIsStored, RootIsDurable, disk
  <2>3. CASE h' = [h EXCEPT ![p] = AtRest(p)] /\ UNCHANGED stores
    <3>1. StageOK(p)'
      BY <1>0, <2>3, RestTyped DEF StageOK
    <3>2. /\ h' \in [Handle -> HandleType]
          /\ \A q \in Handle : h'[q].done <= h'[q].size /\ StageOK(q)'
      BY <2>1, <2>3, <3>1, RestTyped, OneHandle DEF disk
    <3> QED BY <2>1, <2>3, <3>1, RestTyped, <3>2
           DEF StorageInv, TypeOK, RootIsStored, RootIsDurable, disk
  <2> QED BY <1>3, <2>2, <2>3 DEF NewTree
<1>4. ASSUME NEW p \in Handle, SetRootOffset(p) PROVE StorageInv'
  <2>1. /\ h' = [h EXCEPT ![p] = AtRest(p)]
        /\ rootOffset' = h[p].node /\ UNCHANGED <<usedSpace, fileLen, blocks, history>>
    BY <1>4 DEF SetRootOffset
  <2>2. h[p].node \in DOMAIN last /\ h[p].node \in 0..MaxBlocks
    BY <1>0, <1>4 DEF SetRootOffset, StorageInv, StageOK, HandleType
  <2>3. StageOK(p)'
    BY <1>0, <2>1, RestTyped DEF StageOK
  <2>4. /\ h' \in [Handle -> HandleType]
        /\ \A q \in Handle : h'[q].done <= h'[q].size /\ StageOK(q)'
    BY <2>1, <2>2, <2>3, RestTyped, OneHandle DEF history
  <2> QED BY <2>1, <2>2, <2>3, RestTyped, <2>4
         DEF StorageInv, TypeOK, RootIsStored, RootIsDurable, history
<1>5. ASSUME NEW p \in Handle, NEW size \in Size, StoreNew(p, size) PROVE StorageInv'
  <2>1. /\ h' = [h EXCEPT ![p] = NewNode(p, size)] /\ stores' = stores + 1
        /\ UNCHANGED <<disk, last, cut, crashes, rolledBack, wrecked>>
    BY <1>5 DEF StoreNew
  <2>2. stores' \in Nat /\ 0 <= size /\ 0 < size
    BY <2>1, <1>0 DEF StorageInv, TypeOK, Size
  <2>3. StageOK(p)'
    BY <1>0, <2>1, <2>2, NewTyped DEF StageOK
  <2>4. /\ h' \in [Handle -> HandleType]
        /\ \A q \in Handle : h'[q].done <= h'[q].size /\ StageOK(q)'
    BY <2>1, <2>2, <2>3, NewTyped, OneHandle DEF disk
  <2> QED BY <2>1, <2>2, <2>3, NewTyped, <2>4
         DEF StorageInv, TypeOK, RootIsStored, RootIsDurable, disk
<1>6. ASSUME NEW p \in Handle, NEW node \in Block, NEW size \in Size, StoreAgain(p, node, size)
      PROVE  StorageInv'
  <2> DEFINE r1 == [AtRest(p) EXCEPT !.pc = "write"]
             r2 == [r1 EXCEPT !.node = node]
             r3 == [r2 EXCEPT !.cur = node]
             r4 == [r3 EXCEPT !.ver = stores + 1]
             r5 == [r4 EXCEPT !.size = size]
             r == [r5 EXCEPT !.prev = blocks[node].len]
  <2>1. /\ h' = [q \in Handle |->
                    IF q = p THEN r ELSE [h[q] EXCEPT !.clean = @ /\ h[q].node # node]]
        /\ stores' = stores + 1 /\ UNCHANGED <<disk, last, cut, crashes, rolledBack, wrecked>>
    BY <1>6 DEF StoreAgain
  <2>2. /\ stores + 1 \in Nat /\ node \in 0..MaxBlocks /\ size \in 0..MaxSize /\ 0 < size
        /\ blocks[node].len \in 0..MaxSize
    BY <1>0 DEF StorageInv, TypeOK, Size, Block, BlockType
  <2>3. r1 \in HandleType /\ r1.pc = "write" /\ r1.done = 0
    BY RestTyped DEF HandleType, Stages, Storing
  <2> HIDE DEF r1
  <2>4. r2 \in HandleType /\ r2.pc = "write" /\ r2.done = 0 /\ r2.node = node
    BY <2>2, <2>3 DEF HandleType
  <2> HIDE DEF r2
  <2>5. r3 \in HandleType /\ r3.pc = "write" /\ r3.done = 0 /\ r3.node = node
    BY <2>2, <2>4 DEF HandleType
  <2> HIDE DEF r3
  <2>6. r4 \in HandleType /\ r4.pc = "write" /\ r4.done = 0 /\ r4.node = node
    BY <2>2, <2>5 DEF HandleType
  <2> HIDE DEF r4
  <2>7. /\ r5 \in HandleType /\ r5.pc = "write" /\ r5.done = 0 /\ r5.node = node
        /\ r5.size = size
    BY <2>2, <2>6 DEF HandleType
  <2> HIDE DEF r5
  <2>8. /\ r \in HandleType /\ r.pc = "write" /\ r.done = 0 /\ r.node = node
        /\ r.size = size
    BY <2>2, <2>7 DEF HandleType
  <2> HIDE DEF r
  <2>9. ASSUME NEW q \in Handle PROVE h'[q] \in HandleType /\ h'[q].done <= h'[q].size
                                      /\ StageOK(q)'
    <3>1. CASE q = p
      BY <2>1, <2>2, <2>8, <3>1 DEF StageOK
    <3>2. CASE q # p
      <4> DEFINE s == [h[q] EXCEPT !.clean = h[q].clean /\ h[q].node # node]
      <4>1. h'[q] = s /\ last' = last
        BY <2>1, <3>2
      <4>2. h[q] \in HandleType /\ h[q].done <= h[q].size /\ StageOK(q)
        BY <1>0 DEF StorageInv, TypeOK
      <4>3. /\ s \in HandleType /\ s.pc = h[q].pc /\ s.done = h[q].done
            /\ s.size = h[q].size /\ s.used = h[q].used /\ s.node = h[q].node
            /\ s.cur = h[q].cur
        BY <4>2 DEF HandleType
      <4> HIDE DEF s
      <4> QED BY <4>1, <4>2, <4>3 DEF StageOK
    <3> QED BY <3>1, <3>2
  <2>10. h' \in [Handle -> HandleType]
    BY <2>1, <2>9
  <2> QED BY <2>1, <2>2, <2>9, <2>10 DEF StorageInv, TypeOK, RootIsStored, RootIsDurable, disk
<1>7. ASSUME NEW p \in Handle, Allocate(p) PROVE StorageInv'
  <2> DEFINE r1 == [h[p] EXCEPT !.used = usedSpace]
             r == [r1 EXCEPT !.pc = "allocWrite"]
  <2>1. h' = [h EXCEPT ![p] = r] /\ UNCHANGED <<disk, history>>
    BY <1>7 DEF Allocate
  <2>2. h[p] \in HandleType /\ h[p].done < h[p].size /\ usedSpace < MaxBlocks
    BY <1>0, <1>7 DEF Allocate, StorageInv, StageOK
  <2>3. /\ r1 \in HandleType /\ r1.done = h[p].done /\ r1.size = h[p].size
        /\ r1.used = usedSpace
    BY <2>2 DEF HandleType, StorageInv, TypeOK
  <2> HIDE DEF r1
  <2>4. /\ r \in HandleType /\ r.done = h[p].done /\ r.size = h[p].size
        /\ r.used = usedSpace /\ r.pc = "allocWrite"
    BY <2>3 DEF HandleType, Stages, Storing
  <2> HIDE DEF r
  <2>5. r.done <= r.size /\ StageOK(p)'
    BY <1>0, <2>1, <2>2, <2>4 DEF StageOK, HandleType
  <2>6. /\ h' \in [Handle -> HandleType]
        /\ \A q \in Handle : h'[q].done <= h'[q].size /\ StageOK(q)'
    BY <2>1, <2>4, <2>5, OneHandle DEF disk, history
  <2> QED BY <2>1, <2>4, <2>5, <2>6
         DEF StorageInv, TypeOK, RootIsStored, RootIsDurable, disk, history
<1>8. ASSUME NEW p \in Handle, AllocateWrite(p) PROVE StorageInv'
  <2> DEFINE pc == IF h[p].used + 1 > h[p].mapped THEN "resize" ELSE "use"
             r == [h[p] EXCEPT !.pc = pc]
  <2>1. /\ h' = [h EXCEPT ![p] = r] /\ usedSpace' = h[p].used + 1
        /\ UNCHANGED <<rootOffset, fileLen, blocks, history>>
    BY <1>8 DEF AllocateWrite
  <2>2. h[p] \in HandleType /\ h[p].done < h[p].size /\ h[p].used < MaxBlocks
    BY <1>0, <1>8 DEF AllocateWrite, StorageInv, StageOK
  <2>3. /\ r \in HandleType /\ r.done = h[p].done /\ r.size = h[p].size
        /\ r.used = h[p].used /\ r.pc \in {"resize", "use"}
    BY <2>2 DEF HandleType, Stages, Storing
  <2> HIDE DEF r
  <2>4. r.done <= r.size /\ StageOK(p)' /\ usedSpace' \in 0..MaxBlocks
    <3>1. /\ h[p].done \in Nat /\ h[p].size \in Nat /\ h[p].used \in Nat /\ MaxBlocks \in Nat
      BY <2>2, StorageAssumption DEF HandleType
    <3>2. r.done <= r.size /\ usedSpace' \in 0..MaxBlocks
      BY <2>1, <2>2, <2>3, <3>1
    <3>3. h'[p] = r
      BY <1>0, <2>1
    <3>4. StageOK(p)'
      BY <2>2, <2>3, <3>3 DEF StageOK
    <3> QED BY <3>2, <3>4
  <2>5. /\ h' \in [Handle -> HandleType]
        /\ \A q \in Handle : h'[q].done <= h'[q].size /\ StageOK(q)'
    BY <2>1, <2>3, <2>4, OneHandle DEF history
  <2> QED BY <2>1, <2>3, <2>4, <2>5
         DEF StorageInv, TypeOK, RootIsStored, RootIsDurable, history
<1>9. ASSUME NEW p \in Handle, Resize(p) PROVE StorageInv'
  <2> DEFINE r1 == [h[p] EXCEPT !.mapped = fileLen']
             r == [r1 EXCEPT !.pc = "use"]
  <2>0. h' = [h EXCEPT ![p] = r]
    BY <1>9 DEF Resize
  <2>1. /\ fileLen' = 2 * h[p].mapped
        /\ blocks' = [b \in Block |-> IF b <= fileLen' THEN blocks[b] ELSE Blank]
        /\ UNCHANGED <<usedSpace, rootOffset, history>>
    BY <1>9 DEF Resize
  <2>2. h[p] \in HandleType /\ h[p].done < h[p].size /\ h[p].used < MaxBlocks
    BY <1>0, <1>9 DEF Resize, StorageInv, StageOK
  <2>3. fileLen' \in Nat
    BY <2>1, <2>2 DEF HandleType
  <2>4. Blank \in BlockType
    BY <1>0 DEF Blank, BlockType, Nothing, Piece
  <2>5. blocks' \in [Block -> BlockType]
    BY <1>0, <2>1, <2>4
  <2>6. /\ r1 \in HandleType /\ r1.done = h[p].done /\ r1.size = h[p].size
        /\ r1.used = h[p].used
    BY <2>2, <2>3 DEF HandleType
  <2> HIDE DEF r1
  <2>7. /\ r \in HandleType /\ r.done = h[p].done /\ r.size = h[p].size
        /\ r.used = h[p].used /\ r.pc = "use"
    BY <2>6 DEF HandleType, Stages, Storing
  <2> HIDE DEF r
  <2>8. r.done <= r.size /\ h'[p] = r
    BY <1>0, <2>0, <2>2, <2>7 DEF HandleType
  <2>9. StageOK(p)'
    BY <2>2, <2>7, <2>8 DEF StageOK
  <2>10. /\ h' \in [Handle -> HandleType]
         /\ \A q \in Handle : h'[q].done <= h'[q].size /\ StageOK(q)'
    BY <2>0, <2>1, <2>3, <2>5, <2>7, <2>8, <2>9, OneHandle DEF history
  <2> QED BY <2>0, <2>1, <2>3, <2>5, <2>7, <2>8, <2>9, <2>10
         DEF StorageInv, TypeOK, RootIsStored, RootIsDurable, history
<1>10. ASSUME NEW p \in Handle, UseBlock(p) PROVE StorageInv'
  <2> DEFINE block == h[p].used + 1
             r1 == [h[p] EXCEPT !.pc = "write"]
             r2 == [r1 EXCEPT !.cur = block]
             node == IF h[p].node = 0 THEN block ELSE h[p].node
             r == [r2 EXCEPT !.node = node]
             b == [blocks[h[p].cur] EXCEPT !.next = block]
  <2>1. /\ h' = [h EXCEPT ![p] = r]
        /\ blocks' = IF h[p].node = 0 THEN blocks ELSE [blocks EXCEPT ![h[p].cur] = b]
        /\ UNCHANGED <<usedSpace, rootOffset, fileLen, history>>
    BY <1>10 DEF UseBlock
  <2>2. h[p] \in HandleType /\ h[p].done < h[p].size /\ h[p].used < MaxBlocks
    BY <1>0, <1>10 DEF UseBlock, StorageInv, StageOK
  <2>3. block \in Block /\ block \in 0..MaxBlocks /\ node \in Block /\ node \in 0..MaxBlocks
    BY <1>0, <2>2 DEF HandleType, Block
  <2>4. ASSUME h[p].cur \in Block PROVE b \in BlockType
    BY <1>0, <2>3, <2>4 DEF BlockType
  <2>5. blocks' \in [Block -> BlockType]
    <3> HIDE DEF b
    <3> QED BY <1>0, <2>1, <2>4
  <2>6. r1 \in HandleType /\ r1.done = h[p].done /\ r1.size = h[p].size /\ r1.pc = "write"
    BY <2>2 DEF HandleType, Stages, Storing
  <2> HIDE DEF r1, node
  <2>7. r2 \in HandleType /\ r2.done = h[p].done /\ r2.size = h[p].size /\ r2.pc = "write"
    BY <2>3, <2>6 DEF HandleType
  <2> HIDE DEF r2
  <2>8. /\ r \in HandleType /\ r.done = h[p].done /\ r.size = h[p].size /\ r.pc = "write"
        /\ r.node = node
    BY <2>3, <2>7 DEF HandleType
  <2> HIDE DEF r
  <2>9. r.done <= r.size /\ h'[p] = r
    BY <1>0, <2>1, <2>2, <2>8 DEF HandleType
  <2>10. StageOK(p)'
    BY <2>2, <2>3, <2>8, <2>9 DEF StageOK
  <2>11. /\ h' \in [Handle -> HandleType]
         /\ \A q \in Handle : h'[q].done <= h'[q].size /\ StageOK(q)'
    BY <2>1, <2>5, <2>8, <2>9, <2>10, OneHandle DEF history
  <2> QED BY <2>1, <2>5, <2>8, <2>9, <2>10, <2>11
         DEF StorageInv, TypeOK, RootIsStored, RootIsDurable, history
<1>11. ASSUME NEW p \in Handle, WriteBlock(p) PROVE StorageInv'
  <2> DEFINE done == h[p].done + 1
             after == AfterWrite(p, done)
             cur == IF after = "write" THEN blocks[h[p].cur].next ELSE h[p].cur
             r1 == [h[p] EXCEPT !.done = done]
             r2 == [r1 EXCEPT !.pc = after]
             r == [r2 EXCEPT !.cur = cur]
             piece == [of |-> h[p].ver, part |-> done, parts |-> h[p].size]
             b1 == [blocks[h[p].cur] EXCEPT !.primary = h[p].done = 0]
             b2 == [b1 EXCEPT !.len = h[p].size]
             b == [b2 EXCEPT !.piece = piece]
  <2>1. /\ h' = [h EXCEPT ![p] = r]
        /\ blocks' = [blocks EXCEPT ![h[p].cur] = b]
        /\ UNCHANGED <<usedSpace, rootOffset, fileLen, history>>
    BY <1>11 DEF WriteBlock
  <2>2. /\ h[p] \in HandleType /\ h[p].pc = "write" /\ h[p].done < h[p].size
        /\ h[p].node \in Block /\ h[p].cur \in Block
    BY <1>0, <1>11 DEF WriteBlock, StorageInv, StageOK, HandleType, Block
  <2>3. /\ done \in Nat /\ done \in 0..MaxSize /\ done <= h[p].size
        /\ after \in {"end", "alloc", "write"}
        /\ after # "end" => done < h[p].size
    BY <1>0, <2>2 DEF AfterWrite, HandleType
  <2>4. cur \in 0..MaxBlocks /\ piece \in Piece /\ blocks[h[p].cur] \in BlockType
    BY <1>0, <2>2, <2>3 DEF BlockType, Piece, HandleType
  <2> HIDE DEF done, after, cur, piece
  <2>5. b1 \in BlockType
    BY <2>4 DEF BlockType
  <2> HIDE DEF b1
  <2>6. b2 \in BlockType
    BY <2>2, <2>5 DEF BlockType, HandleType
  <2> HIDE DEF b2
  <2>7. b \in BlockType
    BY <2>4, <2>6 DEF BlockType
  <2> HIDE DEF b
  <2>8. blocks' \in [Block -> BlockType]
    BY <1>0, <2>1, <2>7
  <2>9. r1 \in HandleType /\ r1.done = done /\ r1.size = h[p].size /\ r1.node = h[p].node
    BY <2>2, <2>3 DEF HandleType
  <2> HIDE DEF r1
  <2>10. /\ r2 \in HandleType /\ r2.done = done /\ r2.size = h[p].size
         /\ r2.node = h[p].node /\ r2.pc = after
    BY <2>3, <2>9 DEF HandleType, Stages, Storing
  <2> HIDE DEF r2
  <2>11. /\ r \in HandleType /\ r.done = done /\ r.size = h[p].size
         /\ r.node = h[p].node /\ r.pc = after
    BY <2>4, <2>10 DEF HandleType
  <2> HIDE DEF r
  <2>12. r.done <= r.size /\ StageOK(p)'
    BY <1>0, <2>1, <2>2, <2>3, <2>11 DEF StageOK
  <2>13. /\ h' \in [Handle -> HandleType]
         /\ \A q \in Handle : h'[q].done <= h'[q].size /\ StageOK(q)'
    BY <2>1, <2>8, <2>11, <2>12, OneHandle DEF history
  <2> QED BY <2>1, <2>8, <2>11, <2>12, <2>13
         DEF StorageInv, TypeOK, RootIsStored, RootIsDurable, history
<1>12. ASSUME NEW p \in Handle, EndStore(p) PROVE StorageInv'
  <2> DEFINE n == h[p].node
             b == [blocks[h[p].cur] EXCEPT !.next = 0]
             r1 == [AtRest(p) EXCEPT !.pc = "setRoot"]
             r2 == [r1 EXCEPT !.node = n]
             r == IF rootOffset = 0 THEN r2 ELSE AtRest(p)
  <2>1. /\ h' = [h EXCEPT ![p] = r]
        /\ blocks' = [blocks EXCEPT ![h[p].cur] = b]
        /\ last' = [m \in DOMAIN last \cup {n} |-> IF m = n THEN h[p].ver ELSE last[m]]
        /\ cut' = cut \ {n}
        /\ UNCHANGED <<usedSpace, rootOffset, fileLen, stores, crashes, rolledBack, wrecked>>
    BY <1>12 DEF EndStore
  <2>2. h[p] \in HandleType /\ n \in Block /\ n \in 0..MaxBlocks
    BY <1>0, <1>12 DEF EndStore, StorageInv, StageOK, HandleType
  <2> HIDE DEF n
  <2>3. DOMAIN last' = DOMAIN last \cup {n}
    BY <2>1
  <2>4. DOMAIN last' \subseteq Block /\ DOMAIN last \subseteq DOMAIN last' /\ cut' \subseteq Block
    BY <2>1, <2>2, <2>3 DEF StorageInv, TypeOK
  <2>5. blocks' \in [Block -> BlockType]
    <3>1. ASSUME h[p].cur \in Block PROVE b \in BlockType
      BY <1>0, <3>1 DEF BlockType
    <3> HIDE DEF b
    <3> QED BY <1>0, <2>1, <3>1
  <2>6. /\ r1 \in HandleType /\ r1.pc = "setRoot" /\ r1.done = 0 /\ r1.size = 0
    BY RestTyped DEF HandleType, Stages
  <2> HIDE DEF r1
  <2>7. /\ r2 \in HandleType /\ r2.pc = "setRoot" /\ r2.done = 0 /\ r2.size = 0
        /\ r2.node = n
    BY <2>2, <2>6 DEF HandleType
  <2> HIDE DEF r2
  <2>8. /\ r \in HandleType /\ r.done <= r.size /\ r.pc \in {"setRoot", "open"}
        /\ r.pc = "setRoot" => r.node = n
    BY <2>7, RestTyped
  <2> HIDE DEF r
  <2>9. h'[p] = r
    BY <1>0, <2>1
  <2>10. StageOK(p)'
    BY <2>3, <2>8, <2>9 DEF StageOK
  <2>11. /\ h' \in [Handle -> HandleType]
         /\ \A q \in Handle : h'[q].done <= h'[q].size /\ StageOK(q)'
    BY <2>1, <2>4, <2>5, <2>8, <2>10, OneHandle
  <2> QED BY <2>1, <2>4, <2>5, <2>8, <2>10, <2>11
         DEF StorageInv, TypeOK, RootIsStored, RootIsDurable
<1>13. ASSUME NEW p \in Handle, NEW node \in Block, MoveRoot(p, node) PROVE StorageInv'
  <2>1. rootOffset' = node /\ node \in DOMAIN last /\ UNCHANGED <<usedSpace, fileLen, blocks, h, history>>
    BY <1>13 DEF MoveRoot
  <2> QED BY <1>0, <2>1 DEF StorageInv, TypeOK, RootIsStored, RootIsDurable, StageOK, history, Block
<1>14. ASSUME NEW p \in Handle, NEW node \in Block, Load(p, node) PROVE StorageInv'
  <2> DEFINE clean == node \notin cut /\ ~BeingStored(node)
             r1 == [AtRest(p) EXCEPT !.pc = "load"]
             r2 == [r1 EXCEPT !.node = node]
             r3 == [r2 EXCEPT !.cur = node]
             r == [r3 EXCEPT !.clean = clean]
  <2>1. h' = [h EXCEPT ![p] = r] /\ UNCHANGED <<disk, history>>
    BY <1>14 DEF Load
  <2>2. node \in 0..MaxBlocks
    BY <1>0 DEF Block
  <2>3. r1 \in HandleType /\ r1.pc = "load" /\ r1.done = 0 /\ r1.size = 0
    BY RestTyped DEF HandleType, Stages
  <2> HIDE DEF r1
  <2>4. r2 \in HandleType /\ r2.pc = "load" /\ r2.done = 0 /\ r2.size = 0
    BY <2>2, <2>3 DEF HandleType
  <2> HIDE DEF r2
  <2>5. /\ r3 \in HandleType /\ r3.pc = "load" /\ r3.done = 0 /\ r3.size = 0
        /\ r3.cur = node
    BY <2>2, <2>4 DEF HandleType
  <2> HIDE DEF r3
  <2>6. r \in HandleType /\ r.pc = "load" /\ r.done <= r.size /\ r.cur = node
    <3>1. clean \in BOOLEAN
      OBVIOUS
    <3> HIDE DEF clean
    <3> QED BY <2>5, <3>1 DEF HandleType
  <2> HIDE DEF r
  <2>7. h'[p] = r
    BY <1>0, <2>1
  <2>8. StageOK(p)'
    BY <2>6, <2>7 DEF StageOK
  <2>9. /\ h' \in [Handle -> HandleType]
        /\ \A q \in Handle : h'[q].done <= h'[q].size /\ StageOK(q)'
    BY <2>1, <2>6, <2>8, OneHandle DEF disk, history
  <2> QED BY <2>1, <2>6, <2>8, <2>9
         DEF StorageInv, TypeOK, RootIsStored, RootIsDurable, disk, history
<1>15. ASSUME NEW p \in Handle, ReadBlock(p) PROVE StorageInv'
  <2> DEFINE block == blocks[h[p].cur]
             pc == IF block.next = 0 THEN "loaded" ELSE "load"
             got == Append(h[p].got, block.piece)
             r1 == [h[p] EXCEPT !.got = got]
             r2 == [r1 EXCEPT !.cur = block.next]
             r3 == [r2 EXCEPT !.pc = pc]
  <2>1. \/ h' = [h EXCEPT ![p] = [h[p] EXCEPT !.pc = "panicked"]]
        \/ h' = [h EXCEPT ![p] = [h[p] EXCEPT !.pc = "failed"]]
        \/ h' = [h EXCEPT ![p] = r3]
    BY <1>15 DEF ReadBlock
  <2>2. UNCHANGED <<disk, history>>
    BY <1>15 DEF ReadBlock
  <2>3. /\ h[p] \in HandleType /\ h[p].done <= h[p].size /\ h[p].cur \in Block
    BY <1>0, <1>15 DEF ReadBlock, StorageInv, StageOK, TypeOK
  <2>4. ASSUME NEW x \in {"panicked", "failed"}, h' = [h EXCEPT ![p] = [h[p] EXCEPT !.pc = x]]
        PROVE  StorageInv'
    <3> DEFINE r == [h[p] EXCEPT !.pc = x]
    <3>1. r \in HandleType /\ r.pc = x /\ r.done <= r.size
      BY <2>3 DEF HandleType, Stages
    <3> HIDE DEF r
    <3>2. h' = [h EXCEPT ![p] = r] /\ h'[p] = r
      BY <1>0, <2>4 DEF r
    <3>3. StageOK(p)'
      BY <3>1, <3>2 DEF StageOK
    <3>4. /\ h' \in [Handle -> HandleType]
          /\ \A q \in Handle : h'[q].done <= h'[q].size /\ StageOK(q)'
      BY <2>2, <3>1, <3>2, <3>3, OneHandle DEF disk, history
    <3> QED BY <2>2, <3>1, <3>2, <3>3, <3>4
           DEF StorageInv, TypeOK, RootIsStored, RootIsDurable, disk, history
  <2>5. CASE h' = [h EXCEPT ![p] = r3]
    <3>1. block.piece \in Piece /\ block.next \in 0..MaxBlocks /\ pc \in {"loaded", "load"}
      BY <1>0, <2>3 DEF BlockType
    <3>2. pc = "load" => block.next \in Block
      BY <1>0, <3>1 DEF Block
    <3>8. got \in Seq(Piece)
      <4> HIDE DEF block
      <4>1. h[p].got \in Seq(Piece)
        BY <2>3 DEF HandleType
      <4> QED BY <3>1, <4>1
    <3> HIDE DEF block, pc, got
    <3>3. r1 \in HandleType /\ r1.done = h[p].done /\ r1.size = h[p].size
      BY <2>3, <3>8 DEF HandleType
    <3> HIDE DEF r1
    <3>4. /\ r2 \in HandleType /\ r2.done = h[p].done /\ r2.size = h[p].size
          /\ r2.cur = block.next
      BY <3>1, <3>3 DEF HandleType
    <3> HIDE DEF r2
    <3>5. /\ r3 \in HandleType /\ r3.done = h[p].done /\ r3.size = h[p].size
          /\ r3.cur = block.next /\ r3.pc = pc
      BY <3>1, <3>4 DEF HandleType, Stages
    <3> HIDE DEF r3
    <3>6. r3.done <= r3.size /\ h'[p] = r3
      BY <1>0, <2>3, <2>5, <3>5
    <3>7. StageOK(p)'
      BY <3>1, <3>2, <3>5, <3>6 DEF StageOK
    <3>9. /\ h' \in [Handle -> HandleType]
          /\ \A q \in Handle : h'[q].done <= h'[q].size /\ StageOK(q)'
      BY <2>2, <2>5, <3>5, <3>6, <3>7, OneHandle DEF disk, history
    <3> QED BY <2>2, <2>5, <3>5, <3>6, <3>7, <3>9
           DEF StorageInv, TypeOK, RootIsStored, RootIsDurable, disk, history
  <2> QED BY <2>1, <2>4, <2>5
<1>16. ASSUME NEW p \in Handle, Close(p) PROVE StorageInv'
  <2>1. h' = [h EXCEPT ![p] = Closed] /\ UNCHANGED <<disk, history>>
    BY <1>16 DEF Close
  <2>2. Closed.pc = "closed" /\ h'[p] = Closed
    BY <1>0, <2>1 DEF Closed
  <2>3. StageOK(p)'
    BY <2>2 DEF StageOK
  <2>4. /\ h' \in [Handle -> HandleType]
        /\ \A q \in Handle : h'[q].done <= h'[q].size /\ StageOK(q)'
    BY <2>1, <2>3, ClosedTyped, OneHandle DEF disk, history
  <2> QED BY <2>1, <2>3, ClosedTyped, <2>4
         DEF StorageInv, TypeOK, RootIsStored, RootIsDurable, disk, history
<1>17. CASE Crash
  <2>1. /\ h' = [p \in Handle |-> Closed] /\ crashes' = crashes + 1
        /\ UNCHANGED <<disk, last, stores, rolledBack, wrecked>>
        /\ cut' = cut \cup ({h[p].node : p \in {q \in Handle : h[q].pc \in Storing}} \ {0})
    BY <1>17 DEF Crash
  <2>2. cut' \subseteq Block
    <3>1. \A p \in Handle : h[p].node \in 0..MaxBlocks
      BY <1>0 DEF HandleType
    <3>2. \A x \in 0..MaxBlocks : x # 0 => x \in Block
      BY <1>0 DEF Block
    <3> QED BY <2>1, <3>1, <3>2 DEF StorageInv, TypeOK
  <2>3. h' \in [Handle -> HandleType] /\ \A p \in Handle : h'[p].done <= h'[p].size /\ StageOK(p)'
    <3>1. Closed.pc = "closed"
      BY DEF Closed
    <3>2. \A p \in Handle : h'[p] = Closed
      BY <2>1
    <3> QED BY <2>1, <3>1, <3>2, ClosedTyped DEF StageOK
  <2>4. crashes' \in Nat
    BY <2>1 DEF StorageInv, TypeOK
  <2> QED BY <2>1, <2>2, <2>3, <2>4 DEF StorageInv, TypeOK, RootIsStored, RootIsDurable, disk
<1>19. ASSUME NEW p \in Handle, WriteOverHeader(p) PROVE StorageInv'
  <2> DEFINE b == [Blank EXCEPT !.next = blocks[1].next]
  <2>1. /\ wrecked' = TRUE /\ usedSpace' \in 0..MaxBlocks /\ rootOffset' \in 0..MaxBlocks
        /\ blocks' = [blocks EXCEPT ![1] = b]
        /\ UNCHANGED <<fileLen, h, last, cut, stores, crashes, rolledBack>>
    BY <1>19 DEF WriteOverHeader
  <2>2. 1 \in Block
    BY StorageAssumption DEF Block
  <2>3. blocks[1].next \in 0..MaxBlocks
    BY <1>0, <2>2 DEF BlockType
  <2>4. b \in BlockType
    <3>1. Blank \in BlockType
      BY <1>0 DEF Blank, BlockType, Nothing, Piece
    <3> QED BY <2>3, <3>1 DEF BlockType
  <2> HIDE DEF b
  <2>5. blocks' \in [Block -> BlockType]
    BY <1>0, <2>1, <2>4
  <2>6. TypeOK'
    BY <2>1, <2>5 DEF StorageInv, TypeOK
  <2>7. \A q \in Handle : StageOK(q)'
    BY <2>1 DEF StorageInv, StageOK
  <2> QED BY <2>1, <2>6, <2>7 DEF StorageInv, RootIsStored
<1>20. ASSUME NEW p \in Handle, PanicStore(p) PROVE StorageInv'
  <2>1. /\ h' = [h EXCEPT ![p] = Closed] /\ cut' = cut \cup {h[p].node}
        /\ UNCHANGED <<disk, last, stores, crashes, rolledBack, wrecked>>
    BY <1>20 DEF PanicStore
  <2>2. Closed.pc = "closed" /\ h'[p] = Closed
    BY <1>0, <2>1 DEF Closed
  <2>3. StageOK(p)'
    BY <2>2 DEF StageOK
  <2>4. /\ h' \in [Handle -> HandleType]
        /\ \A q \in Handle : h'[q].done <= h'[q].size /\ StageOK(q)'
    BY <2>1, <2>3, ClosedTyped, OneHandle
  <2>5. h[p].node \in Block
    BY <1>20 DEF PanicStore, StorageInv, StageOK
  <2>6. cut' \subseteq Block
    BY <2>1, <2>5 DEF StorageInv, TypeOK
  <2> QED BY <2>1, <2>4, <2>6 DEF StorageInv, TypeOK, RootIsStored, RootIsDurable, disk
<1>18. CASE UNCHANGED vars
  BY <1>18 DEF vars, disk, history, StorageInv, TypeOK, RootIsStored, RootIsDurable, StageOK
<1> QED BY <1>1, <1>2, <1>3, <1>4, <1>5, <1>6, <1>7, <1>8, <1>9, <1>10, <1>11, <1>12,
           <1>13, <1>14, <1>15, <1>16, <1>17, <1>18, <1>19, <1>20 DEF Next, Store, Read

(***************************************************************************)
(* Header, blocks and handles keep their types: every pointer, header word *)
(* and cursor is a block or null, and no store writes more blocks than the *)
(* node has.                                                               *)
(***************************************************************************)
THEOREM StorageTypeCorrect == Spec => []TypeOK
<1>1. StorageInv => TypeOK
  BY DEF StorageInv
<1> QED BY InitInv, StepInv, <1>1, PTL DEF Spec

(***************************************************************************)
(* The header never names a root that is not stored whole, with any        *)
(* handles and any number of crashes, until a store is led over it:        *)
(* Tree::new sets the root offset after the store, and a root split after  *)
(* all of its stores.                                                      *)
(***************************************************************************)
THEOREM RootStored == Spec => []RootIsStored
<1>1. StorageInv => RootIsStored
  BY DEF StorageInv
<1> QED BY InitInv, StepInv, <1>1, PTL DEF Spec

-----------------------------------------------------------------------------
(***************************************************************************)
(* c follows the pointers of the file from block b on.                     *)
(***************************************************************************)
Linked(file, b, c) ==
    /\ c \in Seq(Block) /\ Len(c) >= 1 /\ c[1] = b
    /\ \A i \in 1..(Len(c) - 1) : file[c[i]].next = c[i + 1]

(***************************************************************************)
(* ... until a pointer that leads nowhere.                                 *)
(***************************************************************************)
IsChain(file, b, c) == Linked(file, b, c) /\ file[c[Len(c)]].next = 0

(***************************************************************************)
(* ... or for k pointers, if there are as many.                            *)
(***************************************************************************)
Path(file, b, k, c) ==
    /\ Linked(file, b, c)
    /\ Len(c) <= k + 1
    /\ Len(c) = k + 1 \/ file[c[Len(c)]].next = 0

(***************************************************************************)
(* Every pointer leads further on in the file.                             *)
(***************************************************************************)
Rising(file) == \A b \in Block : file[b].next # 0 => file[b].next > b

(***************************************************************************)
(* A pointer is the number of a block, or 0.                               *)
(***************************************************************************)
LEMMA NextTyped ==
    ASSUME NEW file \in [Block -> BlockType], NEW b \in Block
    PROVE  /\ file[b].next \in Nat
           /\ file[b].next # 0 => file[b].next \in Block
           /\ MaxBlocks \in Nat /\ Block \subseteq Nat /\ 0 \notin Block
<1>1. file[b] \in BlockType /\ MaxBlocks \in Nat
  BY StorageAssumption
<1> QED BY <1>1 DEF BlockType, Block

(***************************************************************************)
(* Two walks from one block agree as far as both go.                       *)
(***************************************************************************)
LEMMA LinkedAgree ==
    ASSUME NEW file, NEW b, NEW c, NEW d, Linked(file, b, c), Linked(file, b, d)
    PROVE  \A i \in 1..Len(c) : i <= Len(d) => c[i] = d[i]
<1> DEFINE S == {i \in Nat : i + 1 <= Len(c) /\ i + 1 <= Len(d) => c[i + 1] = d[i + 1]}
<1>0. Len(c) \in Nat /\ Len(d) \in Nat
  BY DEF Linked
<1>1. 0 \in S
  BY DEF Linked
<1>2. ASSUME NEW i \in S, i + 2 <= Len(c), i + 2 <= Len(d) PROVE c[i + 2] = d[i + 2]
  <2>1. i + 1 \in 1..(Len(c) - 1) /\ i + 1 \in 1..(Len(d) - 1) /\ c[i + 1] = d[i + 1]
    BY <1>0, <1>2
  <2>2. file[c[i + 1]].next = c[(i + 1) + 1] /\ file[d[i + 1]].next = d[(i + 1) + 1]
    BY <2>1 DEF Linked
  <2>3. (i + 1) + 1 = i + 2
    OBVIOUS
  <2> QED BY <2>1, <2>2, <2>3
<1>3. \A i \in S : i + 1 \in S
  <2> SUFFICES ASSUME NEW i \in S PROVE i + 1 \in S
    OBVIOUS
  <2>1. (i + 1) + 1 = i + 2
    OBVIOUS
  <2> QED BY <1>2, <2>1
<1> HIDE DEF S
<1>4. S = Nat
  <2>1. S \subseteq Nat
    BY DEF S
  <2> QED BY <1>1, <1>3, <2>1, NatSetInduction
<1>5. ASSUME NEW i \in 1..Len(c), i <= Len(d) PROVE c[i] = d[i]
  <2>1. i - 1 \in S /\ (i - 1) + 1 = i
    BY <1>0, <1>4
  <2> QED BY <1>0, <1>5, <2>1 DEF S
<1> QED BY <1>5

(***************************************************************************)
(* Where pointers lead on, a walk is increasing.                           *)
(***************************************************************************)
LEMMA LinkedRises ==
    ASSUME NEW file \in [Block -> BlockType], Rising(file),
           NEW b, NEW c, Linked(file, b, c)
    PROVE  /\ \A i \in 1..Len(c) : i <= c[i] /\ c[i] \in Block
           /\ \A i, j \in 1..Len(c) : i < j => c[i] < c[j]
<1> DEFINE S == {i \in Nat : i + 1 <= Len(c) =>
                                /\ i + 1 <= c[i + 1]
                                /\ \A j \in 1..i : c[j] < c[i + 1]}
<1>0. /\ Len(c) \in Nat /\ Len(c) >= 1
      /\ \A i \in 1..Len(c) : c[i] \in Block /\ c[i] \in Nat /\ c[i] >= 1
  <2>1. Len(c) \in Nat /\ Len(c) >= 1 /\ \A i \in 1..Len(c) : c[i] \in Block
    BY DEF Linked
  <2>2. \A x \in Block : x \in Nat /\ x >= 1
    BY StorageAssumption DEF Block
  <2> QED BY <2>1, <2>2
<1>1. 0 \in S
  BY <1>0
<1>2. ASSUME NEW i \in S, i + 2 <= Len(c)
      PROVE  i + 2 <= c[i + 2] /\ \A j \in 1..(i + 1) : c[j] < c[i + 2]
  <2>1. /\ i \in Nat
        /\ i + 1 \in 1..(Len(c) - 1) /\ i + 1 \in 1..Len(c) /\ i + 2 \in 1..Len(c)
        /\ i + 1 <= c[i + 1] /\ \A j \in 1..i : c[j] < c[i + 1]
    BY <1>0, <1>2
  <2>2. file[c[i + 1]].next = c[(i + 1) + 1] /\ (i + 1) + 1 = i + 2
    BY <2>1 DEF Linked
  <2>3. c[i + 1] \in Block /\ c[i + 2] # 0
    BY <1>0, <2>1
  <2>4. c[i + 1] < c[i + 2]
    BY <2>2, <2>3 DEF Rising, Block
  <2>5. c[i + 1] \in Nat /\ c[i + 2] \in Nat /\ \A j \in 1..i : c[j] \in Nat
    BY <1>0, <2>1
  <2> QED BY <2>1, <2>4, <2>5
<1>3. \A i \in S : i + 1 \in S
  <2> SUFFICES ASSUME NEW i \in S PROVE i + 1 \in S
    OBVIOUS
  <2>1. (i + 1) + 1 = i + 2 /\ i + 1 \in Nat
    OBVIOUS
  <2> QED BY <1>2, <2>1
<1> HIDE DEF S
<1>4. S = Nat
  <2>1. S \subseteq Nat
    BY DEF S
  <2> QED BY <1>1, <1>3, <2>1, NatSetInduction
<1>5. ASSUME NEW i \in 1..Len(c) PROVE i <= c[i] /\ \A j \in 1..Len(c) : j < i => c[j] < c[i]
  <2>1. i - 1 \in S /\ (i - 1) + 1 = i /\ i <= Len(c)
    BY <1>0, <1>4
  <2>2. i <= c[i] /\ \A j \in 1..(i - 1) : c[j] < c[i]
    BY <2>1 DEF S
  <2> QED BY <1>0, <2>2
<1> QED BY <1>0, <1>5

(***************************************************************************)
(* A walk ends at once at a block that points nowhere.                     *)
(***************************************************************************)
LEMMA PathOne ==
    ASSUME NEW file \in [Block -> BlockType], NEW b \in Block, NEW k \in Nat,
           file[b].next = 0 \/ k = 0
    PROVE  Path(file, b, k, <<b>>)
  BY DEF Path, Linked

(***************************************************************************)
(* A walk from the block pointed to is one from this block, one longer.    *)
(***************************************************************************)
LEMMA PathCons ==
    ASSUME NEW file \in [Block -> BlockType], NEW b \in Block, NEW k \in Nat,
           file[b].next # 0, NEW c, Path(file, file[b].next, k, c)
    PROVE  Path(file, b, k + 1, <<b>> \o c)
<1> DEFINE d == <<b>> \o c
<1>1. /\ c \in Seq(Block) /\ Len(c) \in Nat /\ Len(c) >= 1 /\ c[1] = file[b].next
      /\ \A i \in 1..(Len(c) - 1) : file[c[i]].next = c[i + 1]
      /\ Len(c) <= k + 1 /\ (Len(c) = k + 1 \/ file[c[Len(c)]].next = 0)
  BY DEF Path, Linked
<1>2. /\ d \in Seq(Block) /\ Len(d) = Len(c) + 1 /\ d[1] = b
      /\ \A i \in 1..Len(c) : d[i + 1] = c[i]
  BY <1>1
<1> HIDE DEF d
<1>3. ASSUME NEW i \in 1..(Len(d) - 1) PROVE file[d[i]].next = d[i + 1]
  <2>1. CASE i = 1
    <3>1. d[1 + 1] = c[1]
      BY <1>1, <1>2
    <3> QED BY <1>1, <1>2, <2>1, <3>1
  <2>2. CASE i # 1
    <3>1. i - 1 \in 1..(Len(c) - 1) /\ i - 1 \in 1..Len(c) /\ i \in 1..Len(c) /\ (i - 1) + 1 = i
      BY <1>1, <1>2, <2>2
    <3>2. d[i] = c[i - 1] /\ d[i + 1] = c[i] /\ file[c[i - 1]].next = c[i]
      BY <1>1, <1>2, <3>1
    <3> QED BY <3>2
  <2> QED BY <2>1, <2>2
<1>4. d[Len(d)] = c[Len(c)]
  BY <1>1, <1>2
<1>5. Len(d) <= (k + 1) + 1 /\ (Len(d) = (k + 1) + 1 \/ file[d[Len(d)]].next = 0) /\ Len(d) >= 1
  BY <1>1, <1>2, <1>4
<1> QED BY <1>2, <1>3, <1>5 DEF Path, Linked, d

(***************************************************************************)
(* There is one walk of k pointers from a block, ...                       *)
(***************************************************************************)
LEMMA PathUnique ==
    ASSUME NEW file \in [Block -> BlockType], NEW b, NEW k \in Nat, NEW c, NEW d,
           Path(file, b, k, c), Path(file, b, k, d)
    PROVE  c = d
<1>1. /\ c \in Seq(Block) /\ d \in Seq(Block) /\ Len(c) \in Nat /\ Len(d) \in Nat
      /\ Len(c) >= 1 /\ Len(d) >= 1 /\ Len(c) <= k + 1 /\ Len(d) <= k + 1
  BY DEF Path, Linked
<1>2. ASSUME NEW x, NEW y, Path(file, b, k, x), Path(file, b, k, y), Len(x) < Len(y)
      PROVE  FALSE
  <2>1. /\ Linked(file, b, x) /\ Linked(file, b, y) /\ Len(x) \in Nat /\ Len(y) \in Nat
        /\ Len(x) >= 1 /\ Len(y) <= k + 1 /\ y \in Seq(Block)
        /\ (Len(x) = k + 1 \/ file[x[Len(x)]].next = 0)
    BY <1>2 DEF Path, Linked
  <2>2. file[x[Len(x)]].next = 0
    BY <1>2, <2>1
  <2>3. x[Len(x)] = y[Len(x)]
    <3>1. Len(x) \in 1..Len(x) /\ Len(x) <= Len(y)
      BY <1>2, <2>1
    <3> QED BY <2>1, <3>1, LinkedAgree
  <2>4. Len(x) \in 1..(Len(y) - 1)
    BY <1>2, <2>1
  <2>5. file[y[Len(x)]].next = y[Len(x) + 1] /\ y[Len(x) + 1] \in Block
    BY <2>1, <2>4 DEF Linked
  <2> QED BY <2>2, <2>3, <2>5 DEF Block
<1>3. Len(c) = Len(d)
  BY <1>1, <1>2
<1>4. \A i \in 1..Len(c) : c[i] = d[i]
  BY <1>1, <1>3, LinkedAgree DEF Path
<1> QED BY <1>1, <1>3, <1>4

(***************************************************************************)
(* ... and there always is one.                                            *)
(***************************************************************************)
LEMMA PathExists ==
    ASSUME NEW file \in [Block -> BlockType]
    PROVE  \A k \in Nat : \A b \in Block : \E c : Path(file, b, k, c)
<1> DEFINE S == {k \in Nat : \A b \in Block : \E c : Path(file, b, k, c)}
<1>1. 0 \in S
  BY PathOne
<1>2. ASSUME NEW k \in S, NEW b \in Block PROVE \E c : Path(file, b, k + 1, c)
  <2>0. k \in Nat /\ k + 1 \in Nat
    OBVIOUS
  <2>1. CASE file[b].next = 0
    BY <2>0, <2>1, PathOne
  <2>2. CASE file[b].next # 0
    <3>1. file[b].next \in Block
      BY <2>2, NextTyped
    <3>2. PICK c : Path(file, file[b].next, k, c)
      BY <3>1
    <3> QED BY <2>0, <2>2, <3>2, PathCons
  <2> QED BY <2>1, <2>2
<1>3. \A k \in S : k + 1 \in S
  BY <1>2
<1> HIDE DEF S
<1>4. S = Nat
  <2>1. S \subseteq Nat
    BY DEF S
  <2> QED BY <1>1, <1>3, <2>1, NatSetInduction
<1> QED BY <1>4 DEF S

(***************************************************************************)
(* What ChainOf computes is the walk of as many pointers as there are      *)
(* blocks: the recursive function exists, and follows the pointers.        *)
(***************************************************************************)
LEMMA ChainIsPath ==
    ASSUME NEW file \in [Block -> BlockType], NEW n \in Block
    PROVE  Path(file, n, MaxBlocks, ChainOf(file, n))
<1> DEFINE Body(f) == [fuel \in 0..MaxBlocks |->
                          [b \in Block |-> IF file[b].next = 0 \/ fuel = 0 THEN <<b>>
                                           ELSE <<b>> \o f[fuel - 1][file[b].next]]]
           g == [fuel \in 0..MaxBlocks |-> [b \in Block |-> CHOOSE c : Path(file, b, fuel, c)]]
           from == CHOOSE f : f = Body(f)
<1>0. MaxBlocks \in Nat
  BY StorageAssumption
<1>1. ASSUME NEW b \in Block, NEW fuel \in 0..MaxBlocks PROVE Path(file, b, fuel, g[fuel][b])
  <2>1. fuel \in Nat
    BY <1>0
  <2>2. \E c : Path(file, b, fuel, c)
    BY <2>1, PathExists
  <2>3. Path(file, b, fuel, CHOOSE c : Path(file, b, fuel, c))
    BY <2>2
  <2> QED BY <2>3
<1>2. ASSUME NEW b \in Block, NEW fuel \in 0..MaxBlocks
      PROVE  g[fuel][b] = IF file[b].next = 0 \/ fuel = 0 THEN <<b>>
                          ELSE <<b>> \o g[fuel - 1][file[b].next]
  <2> HIDE DEF g
  <2>0. fuel \in Nat
    BY <1>0
  <2>1. CASE file[b].next = 0 \/ fuel = 0
    <3>1. Path(file, b, fuel, <<b>>)
      BY <2>0, <2>1, PathOne
    <3> QED BY <1>1, <2>0, <2>1, <3>1, PathUnique
  <2>2. CASE ~(file[b].next = 0 \/ fuel = 0)
    <3>1. file[b].next \in Block /\ fuel - 1 \in 0..MaxBlocks /\ fuel - 1 \in Nat
          /\ (fuel - 1) + 1 = fuel
      BY <1>0, <2>0, <2>2, NextTyped
    <3>4. Path(file, file[b].next, fuel - 1, g[fuel - 1][file[b].next])
      BY <1>1, <3>1
    <3>2. Path(file, b, (fuel - 1) + 1, <<b>> \o g[fuel - 1][file[b].next])
      BY <2>2, <3>1, <3>4, PathCons
    <3>3. Path(file, b, fuel, <<b>> \o g[fuel - 1][file[b].next])
      BY <3>1, <3>2
    <3> QED BY <1>1, <2>0, <2>2, <3>3, PathUnique
  <2> QED BY <2>1, <2>2
<1>3. g = Body(g)
  <2> DEFINE k == Body(g)
  <2>1. ASSUME NEW fuel \in 0..MaxBlocks PROVE g[fuel] = k[fuel]
    <3>1. g[fuel] = [b \in Block |-> g[fuel][b]]
      OBVIOUS
    <3>2. k[fuel] = [b \in Block |-> IF file[b].next = 0 \/ fuel = 0 THEN <<b>>
                                     ELSE <<b>> \o g[fuel - 1][file[b].next]]
      OBVIOUS
    <3> HIDE DEF g, k
    <3> QED BY <1>2, <3>1, <3>2
  <2>2. g = [fuel \in 0..MaxBlocks |-> g[fuel]] /\ k = [fuel \in 0..MaxBlocks |-> k[fuel]]
    OBVIOUS
  <2>3. g = k
    <3> HIDE DEF g, k
    <3> QED BY <2>1, <2>2
  <2> QED BY <2>3
<1>4. from = Body(from)
  <2> HIDE DEF g, Body
  <2> QED BY <1>3
<1> HIDE DEF from, g
<1>5. ASSUME NEW b \in Block, NEW fuel \in 0..MaxBlocks
      PROVE  from[fuel][b] = IF file[b].next = 0 \/ fuel = 0 THEN <<b>>
                             ELSE <<b>> \o from[fuel - 1][file[b].next]
  <2>1. from[fuel] = Body(from)[fuel]
    <3> HIDE DEF Body
    <3> QED BY <1>4
  <2> QED BY <2>1
<1> HIDE DEF Body
<1> DEFINE S == {k \in Nat : k \in 0..MaxBlocks => \A b \in Block : Path(file, b, k, from[k][b])}
<1>6. 0 \in S
  <2>1. ASSUME NEW b \in Block PROVE Path(file, b, 0, from[0][b])
    <3>0. 0 \in 0..MaxBlocks
      BY <1>0
    <3>1. from[0][b] = <<b>>
      BY <1>5, <3>0
    <3> QED BY <3>1, PathOne
  <2> QED BY <2>1
<1>7. ASSUME NEW k \in S, k + 1 \in 0..MaxBlocks, NEW b \in Block
      PROVE  Path(file, b, k + 1, from[k + 1][b])
  <2>1. k \in 0..MaxBlocks /\ k \in Nat /\ k + 1 \in Nat /\ (k + 1) - 1 = k /\ k + 1 # 0
    BY <1>0, <1>7
  <2>2. CASE file[b].next = 0
    <3>1. from[k + 1][b] = <<b>>
      BY <1>5, <1>7, <2>2
    <3> QED BY <2>1, <2>2, <3>1, PathOne
  <2>3. CASE file[b].next # 0
    <3>1. file[b].next \in Block
      BY <2>3, NextTyped
    <3>2. from[k + 1][b] = <<b>> \o from[k][file[b].next]
      BY <1>5, <1>7, <2>1, <2>3
    <3>3. Path(file, file[b].next, k, from[k][file[b].next])
      BY <2>1, <3>1
    <3> QED BY <2>1, <2>3, <3>2, <3>3, PathCons
  <2> QED BY <2>2, <2>3
<1>8. \A k \in S : k + 1 \in S
  BY <1>7
<1> HIDE DEF S
<1>9. S = Nat
  <2>1. S \subseteq Nat
    BY DEF S
  <2> QED BY <1>6, <1>8, <2>1, NatSetInduction
<1>10. Path(file, n, MaxBlocks, from[MaxBlocks][n])
  BY <1>0, <1>9 DEF S
<1>11. ChainOf(file, n) = from[MaxBlocks][n]
  BY Zenon DEF ChainOf, from, Body
<1> QED BY <1>10, <1>11

(***************************************************************************)
(* Where pointers lead on, that walk comes to an end.                      *)
(***************************************************************************)
LEMMA ChainIsChain ==
    ASSUME NEW file \in [Block -> BlockType], Rising(file), NEW n \in Block
    PROVE  IsChain(file, n, ChainOf(file, n))
<1> DEFINE c == ChainOf(file, n)
<1>1. Path(file, n, MaxBlocks, c)
  BY ChainIsPath
<1> HIDE DEF c
<1>2. Linked(file, n, c) /\ Len(c) \in Nat /\ Len(c) >= 1 /\ MaxBlocks \in Nat
  BY <1>1, StorageAssumption DEF Path, Linked
<1>3. Len(c) <= MaxBlocks
  <2>1. Len(c) \in 1..Len(c)
    BY <1>2
  <2>2. Len(c) <= c[Len(c)] /\ c[Len(c)] \in Block
    BY <1>2, <2>1, LinkedRises
  <2> QED BY <1>2, <2>2 DEF Block
<1>4. file[c[Len(c)]].next = 0
  BY <1>1, <1>2, <1>3 DEF Path
<1> QED BY <1>2, <1>4 DEF IsChain, c

(***************************************************************************)
(* A chain is what ChainOf computes, as soon as it begins, goes on and     *)
(* ends as one.                                                            *)
(***************************************************************************)
LEMMA ChainUnique ==
    ASSUME NEW file \in [Block -> BlockType], Rising(file), NEW n \in Block,
           NEW c, IsChain(file, n, c)
    PROVE  ChainOf(file, n) = c
<1>1. Linked(file, n, c) /\ Len(c) \in Nat /\ Len(c) >= 1 /\ MaxBlocks \in Nat
  BY StorageAssumption DEF IsChain, Linked
<1>2. Len(c) <= MaxBlocks
  <2>1. Len(c) \in 1..Len(c)
    BY <1>1
  <2>2. Len(c) <= c[Len(c)] /\ c[Len(c)] \in Block
    BY <1>1, <2>1, LinkedRises
  <2> QED BY <1>1, <2>2 DEF Block
<1>3. Path(file, n, MaxBlocks, c)
  BY <1>1, <1>2 DEF Path, IsChain
<1> QED BY <1>1, <1>3, ChainIsPath, PathUnique

-----------------------------------------------------------------------------
(***************************************************************************)
(* Only w stores, and who else has the file open found it created.         *)
(***************************************************************************)
OthersLoad(w) ==
    \A p \in Handle \ {w} :
        /\ h[p].pc \notin Storing \cup {"setRoot"}
        /\ h[p].pc # "closed" => rootOffset # 0

(***************************************************************************)
(* Only w makes the file grow, and maps it anew as it does.                *)
(***************************************************************************)
Mappings(w) ==
    /\ FirstLen <= fileLen /\ crashes <= MaxCrashes
    /\ \A p \in Handle : h[p].mapped <= fileLen
    /\ h[w].pc # "closed" => h[w].mapped = fileLen

(***************************************************************************)
(* Pointers lead on through the file, no two of them to one block.         *)
(***************************************************************************)
Links ==
    /\ \A b \in Block : blocks[b].next # 0 => blocks[b].next > b /\ blocks[b].next <= fileLen
    /\ \A a, b \in Block : blocks[a].next = blocks[b].next /\ blocks[b].next # 0 => a = b

(***************************************************************************)
(* No pointer leads to the first block of a node.                          *)
(***************************************************************************)
Heads == \A n \in InChain : n <= fileLen /\ \A b \in Block : blocks[b].next # n

(***************************************************************************)
(* load_node trusts the length in the header of a block for its piece's.   *)
(***************************************************************************)
Sizes == \A b \in Block : blocks[b].len = blocks[b].piece.parts

(***************************************************************************)
(* The blocks in use: all that were handed out but the one w just got.     *)
(***************************************************************************)
InUse(w) == IF h[w].pc \in {"resize", "use"} THEN h[w].used ELSE usedSpace

(***************************************************************************)
(* Every allocation is one block past those in use; a crash between the    *)
(* growth of the used space and that of the file leaves it one block       *)
(* ahead.                                                                  *)
(***************************************************************************)
Space(w) ==
    /\ usedSpace <= fileLen + crashes + (IF h[w].pc = "resize" THEN 1 ELSE 0)
    /\ \A p \in Handle : h[p].pc = "opening" => h[p].used <= usedSpace
    /\ h[w].pc = "allocWrite" => h[w].used = usedSpace
    /\ h[w].pc \in {"resize", "use"} => usedSpace = h[w].used + 1
    /\ h[w].pc = "use" => h[w].used + 1 <= h[w].mapped
    /\ \A b \in Block : /\ blocks[b].next <= InUse(w)
                        /\ b > InUse(w) => blocks[b].next = 0
    /\ \A n \in InChain : n <= InUse(w)

(***************************************************************************)
(* How far a store has come along the chain of its node.                   *)
(***************************************************************************)
Written(n, ver, done, size) ==
    /\ \A i \in 1..done : blocks[Chain(n)[i]].piece = [of |-> ver, part |-> i, parts |-> size]
    /\ done > 0 => blocks[n].primary

(***************************************************************************)
(* A store of a node that has a chain: the pieces it has written lie along *)
(* it, and the block it is at is where the number of pieces says: past the *)
(* end of the chain only if a crash cut the node's last store short.       *)
(***************************************************************************)
Placed(s) ==
    LET c == Chain(s.node)
    IN  /\ s.node \in Block
        /\ Written(s.node, s.ver, s.done, s.size)
        /\ IF s.pc = "write"
           THEN /\ IF s.cur = 0 THEN s.done = Len(c) /\ s.done < s.prev
                   ELSE s.done < Len(c) /\ s.cur = c[s.done + 1]
                /\ s.done < s.prev => s.prev <= Len(c) \/ s.node \in cut
           ELSE /\ s.done \in 1..Len(c)
                /\ s.cur = c[s.done]
                /\ IF s.pc = "end" THEN s.done = s.size ELSE s.done >= s.prev

(***************************************************************************)
(* ... and one of a node that has none yet has written nothing.            *)
(***************************************************************************)
StoreOK(w) ==
    h[w].pc \in Storing =>
        IF h[w].node = 0
        THEN h[w].pc \in {"alloc", "allocWrite", "resize", "use"} /\ h[w].done = 0 /\ h[w].prev = 0
        ELSE Placed(h[w])

(***************************************************************************)
(* A node that nobody is storing, and that no crash cut short, is whole.   *)
(***************************************************************************)
Settled(n) == n \in DOMAIN last \ cut /\ ~BeingStored(n)

(***************************************************************************)
(* Its pieces lie along its chain in order, and are all of it.             *)
(***************************************************************************)
Whole(n) == Written(n, last[n], Len(Chain(n)), Len(Chain(n)))

(***************************************************************************)
(* ... all of them.                                                        *)
(***************************************************************************)
AllWhole == \A n \in Block : Settled(n) => Whole(n)

(***************************************************************************)
(* How far a load has come that no store of its node overlaps.             *)
(***************************************************************************)
Loading(s, n) ==
    /\ Settled(n)
    /\ s.pc \in {"load", "loaded", "panicked"}
    /\ s.pc = "load" =>
           /\ Len(s.got) < Len(Chain(n))
           /\ s.cur = Chain(n)[Len(s.got) + 1]
           /\ \A i \in 1..Len(s.got) : s.got[i] = blocks[Chain(n)[i]].piece
    /\ s.pc = "loaded" => s.got = Pieces(n)
    /\ s.pc = "panicked" => s.mapped < fileLen

(***************************************************************************)
(* ... and for every load that is clean.                                   *)
(***************************************************************************)
LoadOK(p) == h[p].clean => h[p].node \in Block /\ Loading(h[p], h[p].node)

(***************************************************************************)
(* What one writer keeps true: the inductive invariant.                    *)
(***************************************************************************)
ChainInv(w) ==
    /\ OthersLoad(w) /\ Mappings(w) /\ Links /\ Heads /\ Sizes
    /\ ~rolledBack => Space(w)
    /\ StoreOK(w)
    /\ AllWhole
    /\ \A p \in Handle : LoadOK(p)

(***************************************************************************)
(* Links in the sense of the invariant lead on.                            *)
(***************************************************************************)
LEMMA LinksRise == Links => Rising(blocks)
  BY DEF Links, Rising

(***************************************************************************)
(* The nodes that have chains are blocks.                                  *)
(***************************************************************************)
LEMMA InChainTyped == StorageInv => InChain \subseteq Block
<1> SUFFICES ASSUME StorageInv PROVE InChain \subseteq Block OBVIOUS
<1>1. \A p \in Handle : h[p].node \in 0..MaxBlocks
  BY DEF StorageInv, TypeOK, HandleType
<1>2. \A x \in 0..MaxBlocks : x # 0 => x \in Block
  BY StorageAssumption DEF Block
<1> QED BY <1>1, <1>2 DEF InChain, StorageInv, TypeOK

(***************************************************************************)
(* The chain of a node: it begins with the node, follows the pointers,     *)
(* ends, and holds no block twice.                                         *)
(***************************************************************************)
LEMMA ChainFacts ==
    ASSUME StorageInv, Links, NEW n \in Block
    PROVE  /\ Chain(n) \in Seq(Block) /\ Len(Chain(n)) \in Nat /\ Len(Chain(n)) >= 1
           /\ Chain(n)[1] = n
           /\ \A i \in 1..Len(Chain(n)) : Chain(n)[i] \in Block /\ Chain(n)[i] \in Nat
           /\ \A i \in 1..(Len(Chain(n)) - 1) : blocks[Chain(n)[i]].next = Chain(n)[i + 1]
           /\ blocks[Chain(n)[Len(Chain(n))]].next = 0
           /\ \A i \in 1..Len(Chain(n)) : i <= Chain(n)[i]
           /\ \A i, j \in 1..Len(Chain(n)) : i < j => Chain(n)[i] < Chain(n)[j]
           /\ \A i, j \in 1..Len(Chain(n)) : Chain(n)[i] = Chain(n)[j] => i = j
<1> DEFINE c == Chain(n)
<1>1. blocks \in [Block -> BlockType] /\ Rising(blocks)
  BY LinksRise DEF StorageInv, TypeOK
<1>2. IsChain(blocks, n, c)
  BY <1>1, ChainIsChain DEF Chain
<1> HIDE DEF c
<1>3. Linked(blocks, n, c) /\ blocks[c[Len(c)]].next = 0
  BY <1>2 DEF IsChain
<1>4. /\ \A i \in 1..Len(c) : i <= c[i] /\ c[i] \in Block
      /\ \A i, j \in 1..Len(c) : i < j => c[i] < c[j]
  BY <1>1, <1>3, LinkedRises
<1>5. /\ c \in Seq(Block) /\ Len(c) \in Nat /\ Len(c) >= 1 /\ c[1] = n
      /\ \A i \in 1..(Len(c) - 1) : blocks[c[i]].next = c[i + 1]
  BY <1>3 DEF Linked
<1>6. \A i \in 1..Len(c) : c[i] \in Nat
  BY <1>4 DEF Block
<1>7. \A i, j \in 1..Len(c) : c[i] = c[j] => i = j
  BY <1>4, <1>5, <1>6
<1> QED BY <1>3, <1>4, <1>5, <1>6, <1>7 DEF c

(***************************************************************************)
(* The blocks of a chain, and the node is one of them.                     *)
(***************************************************************************)
LEMMA ReachIs ==
    ASSUME StorageInv, Links, NEW n \in Block
    PROVE  Reach(n) = {Chain(n)[i] : i \in 1..Len(Chain(n))} /\ n \in Reach(n)
<1>1. /\ Chain(n) \in Seq(Block) /\ Len(Chain(n)) \in Nat /\ Len(Chain(n)) >= 1
      /\ Chain(n)[1] = n
  BY ChainFacts
<1> QED BY <1>1 DEF Reach, ToSet

(***************************************************************************)
(* A chain lies within the file, ...                                       *)
(***************************************************************************)
LEMMA ChainInFile ==
    ASSUME StorageInv, Links, Heads, NEW n \in InChain
    PROVE  n \in Block /\ \A i \in 1..Len(Chain(n)) : Chain(n)[i] <= fileLen
<1>1. n \in Block
  BY InChainTyped
<1>2. ASSUME NEW i \in 1..Len(Chain(n)) PROVE Chain(n)[i] <= fileLen
  <2>1. CASE i = 1
    BY <1>1, <2>1, ChainFacts DEF Heads
  <2>2. CASE i # 1
    <3>1. /\ i - 1 \in 1..(Len(Chain(n)) - 1) /\ (i - 1) + 1 = i
          /\ i - 1 \in 1..Len(Chain(n))
      BY <1>1, <2>2, ChainFacts
    <3>4. blocks[Chain(n)[i - 1]].next = Chain(n)[(i - 1) + 1]
      BY <1>1, <3>1, ChainFacts
    <3>5. Chain(n)[i - 1] \in Block /\ Chain(n)[i] \in Block
      BY <1>1, <3>1, ChainFacts
    <3>2. blocks[Chain(n)[i - 1]].next = Chain(n)[i] /\ Chain(n)[i - 1] \in Block
          /\ Chain(n)[i] \in Block
      BY <3>1, <3>4, <3>5
    <3>3. Chain(n)[i] # 0
      BY <3>2 DEF Block
    <3> QED BY <3>2, <3>3 DEF Links
  <2> QED BY <2>1, <2>2
<1> QED BY <1>1, <1>2

(***************************************************************************)
(* ... and within the blocks in use, so it is no longer than they are      *)
(* many.                                                                   *)
(***************************************************************************)
LEMMA ChainInUse ==
    ASSUME StorageInv, Links, NEW w \in Handle, Space(w), NEW n \in InChain
    PROVE  /\ n \in Block /\ InUse(w) \in Nat
           /\ \A i \in 1..Len(Chain(n)) : Chain(n)[i] <= InUse(w)
           /\ Len(Chain(n)) <= InUse(w)
<1>1. n \in Block
  BY InChainTyped
<1>2. ASSUME NEW i \in 1..Len(Chain(n)) PROVE Chain(n)[i] <= InUse(w)
  <2>1. CASE i = 1
    BY <1>1, <2>1, ChainFacts DEF Space
  <2>2. CASE i # 1
    <3>1. /\ i - 1 \in 1..(Len(Chain(n)) - 1) /\ (i - 1) + 1 = i
          /\ i - 1 \in 1..Len(Chain(n))
      BY <1>1, <2>2, ChainFacts
    <3>4. blocks[Chain(n)[i - 1]].next = Chain(n)[(i - 1) + 1]
      BY <1>1, <3>1, ChainFacts
    <3>5. Chain(n)[i - 1] \in Block
      BY <1>1, <3>1, ChainFacts
    <3>2. blocks[Chain(n)[i - 1]].next = Chain(n)[i] /\ Chain(n)[i - 1] \in Block
      BY <3>1, <3>4, <3>5
    <3> QED BY <3>2 DEF Space
  <2> QED BY <2>1, <2>2
<1>4. usedSpace \in Nat /\ h[w].used \in Nat
  BY StorageAssumption DEF StorageInv, TypeOK, HandleType
<1>5. InUse(w) \in Nat
  BY <1>4 DEF InUse
<1>3. Len(Chain(n)) <= InUse(w)
  <2> DEFINE k == Len(Chain(n))
             x == Chain(n)[k]
  <2>1. k \in Nat /\ k >= 1
    BY <1>1, ChainFacts
  <2>2. k \in 1..k
    BY <2>1
  <2>3. k <= x /\ x \in Nat
    BY <1>1, <2>2, ChainFacts
  <2>4. x <= InUse(w)
    BY <1>2, <2>2
  <2> HIDE DEF k, x
  <2> QED BY <1>5, <2>1, <2>3, <2>4 DEF k
<1> QED BY <1>1, <1>2, <1>3, <1>5

(***************************************************************************)
(* Two chains share no block: from a shared one the two could be followed  *)
(* back, pointer by pointer, to the first block of one of them.            *)
(***************************************************************************)
LEMMA ChainsApart ==
    ASSUME StorageInv, Links, Heads, NEW n \in InChain, NEW m \in InChain, n # m
    PROVE  \A i \in 1..Len(Chain(n)), j \in 1..Len(Chain(m)) : Chain(n)[i] # Chain(m)[j]
<1> DEFINE c == Chain(n)
           d == Chain(m)
           S == {i \in Nat : i \in 1..Len(c) /\ \E j \in 1..Len(d) : c[i] = d[j]}
<1>1. n \in Block /\ m \in Block
  BY InChainTyped
<1>2. /\ Len(c) \in Nat /\ Len(d) \in Nat /\ c[1] = n /\ d[1] = m
      /\ \A i \in 1..Len(c) : c[i] \in Block
      /\ \A i \in 1..Len(d) : d[i] \in Block
      /\ \A i \in 1..(Len(c) - 1) : blocks[c[i]].next = c[i + 1]
      /\ \A i \in 1..(Len(d) - 1) : blocks[d[i]].next = d[i + 1]
  BY <1>1, ChainFacts
<1> HIDE DEF c, d
<1>3. SUFFICES ASSUME S # {} PROVE FALSE
  <2>1. 1..Len(c) \subseteq Nat
    BY <1>2
  <2> QED BY <2>1 DEF c, d
<1>4. PICK i \in S : \A k \in S : i <= k
  <2>1. S \subseteq Nat
    OBVIOUS
  <2> HIDE DEF S
  <2> QED BY <1>3, <2>1, LeastNumber
<1>5. i \in Nat /\ i \in 1..Len(c)
  OBVIOUS
<1>6. PICK j \in 1..Len(d) : c[i] = d[j]
  OBVIOUS
<1>7. ASSUME i # 1 PROVE i - 1 \in 1..Len(c) /\ i - 1 \in Nat /\ blocks[c[i - 1]].next = c[i]
  <2>1. i - 1 \in 1..(Len(c) - 1) /\ i - 1 \in 1..Len(c) /\ i - 1 \in Nat /\ (i - 1) + 1 = i
    BY <1>2, <1>5, <1>7
  <2> QED BY <1>2, <2>1
<1>8. ASSUME j # 1 PROVE j - 1 \in 1..Len(d) /\ blocks[d[j - 1]].next = d[j]
  <2>1. j - 1 \in 1..(Len(d) - 1) /\ j - 1 \in 1..Len(d) /\ (j - 1) + 1 = j
    BY <1>2, <1>8
  <2> QED BY <1>2, <2>1
<1>9. i # 1 /\ j # 1
  BY <1>2, <1>5, <1>6, <1>7, <1>8 DEF Heads
<1>10. c[i - 1] = d[j - 1]
  <2>1. c[i - 1] \in Block /\ d[j - 1] \in Block /\ c[i] # 0
    BY <1>2, <1>5, <1>7, <1>8, <1>9 DEF Block
  <2> QED BY <1>6, <1>7, <1>8, <1>9, <2>1 DEF Links
<1>11. i - 1 \in S
  BY <1>7, <1>8, <1>9, <1>10
<1> QED BY <1>4, <1>5, <1>11

(***************************************************************************)
(* A chain depends on nothing but the pointers along it.                   *)
(***************************************************************************)
LEMMA ChainKept ==
    ASSUME NEW file \in [Block -> BlockType], Rising(file),
           NEW file2 \in [Block -> BlockType], Rising(file2), NEW n \in Block,
           \A i \in 1..Len(ChainOf(file, n)) :
               file2[ChainOf(file, n)[i]].next = file[ChainOf(file, n)[i]].next
    PROVE  ChainOf(file2, n) = ChainOf(file, n)
<1> DEFINE c == ChainOf(file, n)
<1>1. IsChain(file, n, c)
  BY ChainIsChain
<1> HIDE DEF c
<1>2. Len(c) \in Nat /\ Len(c) >= 1
  BY <1>1 DEF IsChain, Linked
<1>3. \A i \in 1..Len(c) : file2[c[i]].next = file[c[i]].next
  BY DEF c
<1>4. file2[c[Len(c)]].next = 0
  BY <1>1, <1>2, <1>3 DEF IsChain
<1>5. \A i \in 1..(Len(c) - 1) : file2[c[i]].next = c[i + 1]
  BY <1>1, <1>2, <1>3 DEF IsChain, Linked
<1>6. IsChain(file2, n, c)
  BY <1>1, <1>4, <1>5 DEF IsChain, Linked
<1> QED BY <1>6, ChainUnique DEF c

-----------------------------------------------------------------------------
(***************************************************************************)
(* A handle that begins no store on a node and ends none leaves the nodes  *)
(* that have chains, and those being stored, as they were.                 *)
(***************************************************************************)
LEMMA StoringKept ==
    ASSUME StorageInv, NEW p \in Handle, NEW r, h' = [h EXCEPT ![p] = r],
           UNCHANGED last,
           h[p].pc \in Storing => r.pc \in Storing /\ r.node = h[p].node,
           r.pc \in Storing => r.node = 0 \/ (h[p].pc \in Storing /\ r.node = h[p].node)
    PROVE  /\ InChain' \subseteq InChain
           /\ \A n \in Block : BeingStored(n)' <=> BeingStored(n)
<1>1. \A q \in Handle : h'[q] = IF q = p THEN r ELSE h[q]
  BY DEF StorageInv, TypeOK
<1>2. \A n \in Block : n # 0
  BY DEF Block
<1>3. ASSUME NEW q \in Handle, h'[q].pc \in Storing, h'[q].node # 0
      PROVE  h[q].pc \in Storing /\ h[q].node = h'[q].node
  BY <1>1, <1>3
<1>4. ASSUME NEW q \in Handle, h[q].pc \in Storing
      PROVE  h'[q].pc \in Storing /\ h'[q].node = h[q].node
  BY <1>1, <1>4
<1>5. InChain' \subseteq InChain
  BY <1>3 DEF InChain
<1>6. ASSUME NEW n \in Block PROVE BeingStored(n)' <=> BeingStored(n)
  BY <1>2, <1>3, <1>4 DEF BeingStored
<1> QED BY <1>5, <1>6

(***************************************************************************)
(* A step of a handle that hands out nothing keeps Space.                  *)
(***************************************************************************)
LEMMA SpaceKept ==
    ASSUME StorageInv, NEW w \in Handle, Space(w), NEW p \in Handle, NEW r,
           h' = [h EXCEPT ![p] = r],
           UNCHANGED <<usedSpace, fileLen, blocks, crashes>>, InChain' \subseteq InChain,
           r.pc = "opening" => r.used <= usedSpace,
           p = w => /\ h[p].pc \notin {"resize", "use"} /\ r.pc \notin {"resize", "use"}
                    /\ r.pc = "allocWrite" => r.used = usedSpace
    PROVE  Space(w)'
<1>1. \A q \in Handle : h'[q] = IF q = p THEN r ELSE h[q]
  BY DEF StorageInv, TypeOK
<1>2. InUse(w)' = InUse(w)
  BY <1>1 DEF InUse
<1>3. usedSpace' <= fileLen' + crashes' + (IF h'[w].pc = "resize" THEN 1 ELSE 0)
  BY <1>1 DEF Space
<1>4. \A q \in Handle : h'[q].pc = "opening" => h'[q].used <= usedSpace'
  BY <1>1 DEF Space
<1>5. /\ h'[w].pc = "allocWrite" => h'[w].used = usedSpace'
      /\ h'[w].pc \in {"resize", "use"} => usedSpace' = h'[w].used + 1
      /\ h'[w].pc = "use" => h'[w].used + 1 <= h'[w].mapped
  BY <1>1 DEF Space
<1>6. \A n \in InChain' : n <= InUse(w)'
  BY <1>2 DEF Space
<1>7. \A b \in Block : blocks'[b].next <= InUse(w)' /\ (b > InUse(w)' => blocks'[b].next = 0)
  BY <1>2 DEF Space
<1> QED BY <1>3, <1>4, <1>5, <1>6, <1>7 DEF Space

(***************************************************************************)
(* A step of one handle that writes no block keeps the invariant if it     *)
(* keeps what the invariant says of the handle itself.                     *)
(***************************************************************************)
LEMMA Quiet ==
    ASSUME StorageInv, StorageInv', NEW w \in Handle, ChainInv(w), NEW p \in Handle, NEW r,
           h' = [h EXCEPT ![p] = r],
           UNCHANGED <<fileLen, blocks, last, cut, crashes>>,
           h[p].pc \in Storing => r.pc \in Storing /\ r.node = h[p].node,
           r.pc \in Storing => r.node = 0 \/ (h[p].pc \in Storing /\ r.node = h[p].node),
           r.mapped <= fileLen, p = w /\ r.pc # "closed" => r.mapped = fileLen,
           p # w => /\ r.pc \notin Storing \cup {"setRoot"}
                    /\ r.pc # "closed" => rootOffset' # 0,
           rootOffset # 0 => rootOffset' # 0,
           LoadOK(p)', p = w => StoreOK(w)', ~rolledBack' => Space(w)'
    PROVE  ChainInv(w)'
<1>1. \A q \in Handle : h'[q] = IF q = p THEN r ELSE h[q]
  BY DEF StorageInv, TypeOK
<1>2. InChain' \subseteq InChain /\ \A n \in Block : BeingStored(n)' <=> BeingStored(n)
  BY StoringKept
<1>3. OthersLoad(w)'
  BY <1>1 DEF OthersLoad, ChainInv
<1>4. Mappings(w)'
  BY <1>1 DEF Mappings, ChainInv
<1>5. Links' /\ Sizes'
  BY DEF Links, Sizes, ChainInv
<1>6. Heads'
  BY <1>2 DEF Heads, ChainInv
<1>7. StoreOK(w)'
  <2>1. CASE p # w
    <3>1. h'[w] = h[w] /\ StoreOK(w)
      BY <1>1, <2>1 DEF ChainInv
    <3> QED BY <3>1 DEF StoreOK, Placed, Written, Chain
  <2> QED BY <2>1
<1>8. \A n \in Block : Settled(n)' <=> Settled(n)
  BY <1>2 DEF Settled
<1>9. AllWhole'
  <2>1. ASSUME NEW n \in Block, Settled(n)' PROVE Whole(n)'
    <3>1. Whole(n)
      BY <1>8, <2>1 DEF ChainInv, AllWhole
    <3> QED BY <3>1 DEF Whole, Written, Chain
  <2> QED BY <2>1 DEF AllWhole
<1>10. ASSUME NEW q \in Handle, q # p PROVE LoadOK(q)'
  <2>1. h'[q] = h[q] /\ LoadOK(q)
    BY <1>1, <1>10 DEF ChainInv
  <2>2. CASE h[q].node \notin Block
    BY <2>1, <2>2 DEF LoadOK, Loading
  <2>3. ASSUME NEW n \in Block, n = h[q].node PROVE LoadOK(q)'
    <3>1. Settled(n)' <=> Settled(n)
      BY <1>8
    <3>2. h[q].clean => Settled(h[q].node)'
      <4>1. h[q].clean => Settled(n)'
        BY <2>1, <2>3, <3>1 DEF LoadOK, Loading
      <4> QED BY <2>1, <2>3, <4>1 DEF Settled, BeingStored
    <3> QED BY <2>1, <2>3, <3>2 DEF LoadOK, Loading, Chain, Pieces
  <2> QED BY <2>2, <2>3
<1> QED BY <1>3, <1>4, <1>5, <1>6, <1>7, <1>9, <1>10 DEF ChainInv

-----------------------------------------------------------------------------
(***************************************************************************)
(* A step that keeps the pointers along a chain keeps the chain.           *)
(***************************************************************************)
LEMMA SameChain ==
    ASSUME StorageInv, StorageInv', Links, Links', NEW n \in Block,
           \A i \in 1..Len(Chain(n)) : blocks'[Chain(n)[i]].next = blocks[Chain(n)[i]].next
    PROVE  Chain(n)' = Chain(n)
<1>1. blocks \in [Block -> BlockType] /\ blocks' \in [Block -> BlockType]
  BY DEF StorageInv, TypeOK
<1>2. Rising(blocks) /\ Rising(blocks')
  BY DEF Links, Rising
<1>3. \A i \in 1..Len(ChainOf(blocks, n)) :
          blocks'[ChainOf(blocks, n)[i]].next = blocks[ChainOf(blocks, n)[i]].next
  BY DEF Chain
<1>4. ChainOf(blocks', n) = ChainOf(blocks, n)
  BY <1>1, <1>2, <1>3, ChainKept
<1> QED BY <1>4 DEF Chain

(***************************************************************************)
(* A store of node m leaves all that is settled, and every clean load, as  *)
(* it was: it writes to no chain but that of m.                            *)
(***************************************************************************)
LEMMA OthersStay ==
    ASSUME StorageInv, StorageInv', NEW w \in Handle, ChainInv(w), Links', NEW m, NEW r,
           h' = [h EXCEPT ![w] = r], ~r.clean,
           fileLen \in Nat, fileLen' \in Nat, fileLen <= fileLen',
           \A n \in Block : Settled(n) => n # m /\ Settled(n)' /\ last'[n] = last[n],
           \A n \in Block : Settled(n)' => Settled(n) \/ n = m,
           \A n \in Block : n = m /\ Settled(n)' => Whole(n)',
           \A n \in InChain \ {m} : \A i \in 1..Len(Chain(n)) :
               blocks'[Chain(n)[i]] = blocks[Chain(n)[i]]
    PROVE  AllWhole' /\ \A p \in Handle : LoadOK(p)'
<1>0. Links
  BY DEF ChainInv
<1>1. \A q \in Handle : h'[q] = IF q = w THEN r ELSE h[q]
  BY DEF StorageInv, TypeOK
<1>2. ASSUME NEW n \in Block, Settled(n)
      PROVE  /\ Chain(n)' = Chain(n)
             /\ Len(Chain(n)) \in Nat /\ Len(Chain(n)) >= 1 /\ Chain(n)[1] = n
             /\ \A i \in 1..Len(Chain(n)) : blocks'[Chain(n)[i]] = blocks[Chain(n)[i]]
  <2>1. n \in InChain \ {m}
    BY <1>2 DEF Settled, InChain
  <2>2. \A i \in 1..Len(Chain(n)) : blocks'[Chain(n)[i]] = blocks[Chain(n)[i]]
    BY <2>1
  <2>3. Chain(n)' = Chain(n)
    BY <1>0, <2>2, SameChain
  <2> QED BY <1>0, <2>2, <2>3, ChainFacts
<1>3. ASSUME NEW n \in Block, Settled(n)' PROVE Whole(n)'
  <2>1. CASE n = m
    BY <1>3, <2>1
  <2>2. CASE n # m
    <3>1. Settled(n) /\ Whole(n) /\ last'[n] = last[n]
      BY <1>3, <2>2 DEF ChainInv, AllWhole
    <3>2. /\ Chain(n)' = Chain(n)
          /\ Len(Chain(n)) \in Nat /\ Len(Chain(n)) >= 1 /\ Chain(n)[1] = n
          /\ \A i \in 1..Len(Chain(n)) : blocks'[Chain(n)[i]] = blocks[Chain(n)[i]]
      BY <1>2, <3>1
    <3>3. blocks'[n] = blocks[n]
      <4>1. 1 \in 1..Len(Chain(n))
        BY <3>2
      <4> QED BY <3>2, <4>1
    <3> QED BY <3>1, <3>2, <3>3 DEF Whole, Written, Chain
  <2> QED BY <2>1, <2>2
<1>4. ASSUME NEW p \in Handle PROVE LoadOK(p)'
  <2>1. CASE p = w \/ ~h[p].clean
    BY <1>1, <2>1 DEF LoadOK, Loading
  <2>2. CASE p # w /\ h[p].clean
    <3>1. h'[p] = h[p] /\ LoadOK(p)
      BY <1>1, <2>2 DEF ChainInv
    <3>2. ASSUME NEW n \in Block, n = h[p].node PROVE LoadOK(p)'
      <4>1. Settled(n) /\ Settled(n)'
        <5>1. Settled(n)
          BY <2>2, <3>1, <3>2 DEF LoadOK, Loading
        <5> QED BY <5>1
      <4>2. /\ Chain(n)' = Chain(n)
            /\ Len(Chain(n)) \in Nat /\ Len(Chain(n)) >= 1 /\ Chain(n)[1] = n
            /\ \A i \in 1..Len(Chain(n)) : blocks'[Chain(n)[i]] = blocks[Chain(n)[i]]
        BY <1>2, <4>1
      <4>3. Settled(h[p].node)'
        BY <3>1, <3>2, <4>1 DEF Settled, BeingStored
      <4>4. Chain(h[p].node)' = Chain(n)
        BY <3>1, <3>2, <4>2 DEF Chain
      <4>5. Pieces(h[p].node)' = Pieces(n)
        <5>1. Chain(n) \in Seq(Block)
          BY <1>0, ChainFacts
        <5>2. DOMAIN Chain(n) = 1..Len(Chain(n))
          BY <5>1
        <5>3. Pieces(n)' = Pieces(n)
          BY <4>2, <5>2 DEF Pieces, Chain
        <5> QED BY <3>1, <3>2, <5>3 DEF Pieces, Chain
      <4>6. /\ h'[p].pc \in {"load", "loaded", "panicked"}
            /\ h'[p].pc = "loaded" => h'[p].got = Pieces(n)
            /\ h'[p].pc = "panicked" => h'[p].mapped < fileLen'
        <5>1. h[p].mapped \in Nat
          BY DEF StorageInv, TypeOK, HandleType
        <5> QED BY <2>2, <3>1, <3>2, <5>1 DEF LoadOK, Loading
      <4>7. h'[p].pc = "load" =>
                /\ Len(h'[p].got) < Len(Chain(n))
                /\ h'[p].cur = Chain(n)[Len(h'[p].got) + 1]
                /\ \A i \in 1..Len(h'[p].got) : h'[p].got[i] = blocks'[Chain(n)[i]].piece
        <5>1. h[p].got \in Seq(Piece)
          BY DEF StorageInv, TypeOK, HandleType
        <5>2. Len(h[p].got) \in Nat
          BY <5>1
        <5>3. ASSUME h[p].pc = "load"
              PROVE /\ Len(h[p].got) < Len(Chain(n))
                /\ h[p].cur = Chain(n)[Len(h[p].got) + 1]
                /\ \A i \in 1..Len(h[p].got) : h[p].got[i] = blocks[Chain(n)[i]].piece
          BY <2>2, <3>1, <3>2, <5>3 DEF LoadOK, Loading
        <5>4. \A i \in 1..Len(h[p].got) : Len(h[p].got) < Len(Chain(n)) => i \in 1..Len(Chain(n))
          BY <4>2, <5>2
        <5> QED BY <3>1, <4>2, <5>3, <5>4
      <4> QED BY <3>1, <3>2, <4>3, <4>4, <4>5, <4>6, <4>7 DEF LoadOK, Loading
    <3> QED BY <2>2, <3>1, <3>2 DEF LoadOK, Loading
  <2> QED BY <2>1, <2>2
<1> QED BY <1>3, <1>4 DEF AllWhole

-----------------------------------------------------------------------------
(***************************************************************************)
(* The fields of a handle that is closed, at rest or about to store a new  *)
(* node.                                                                   *)
(***************************************************************************)
LEMMA RestFields ==
    ASSUME NEW p \in Handle
    PROVE  /\ Closed.pc = "closed" /\ Closed.mapped = 0 /\ ~Closed.clean
           /\ AtRest(p).pc = "open" /\ AtRest(p).mapped = h[p].mapped /\ ~AtRest(p).clean
           /\ AtRest(p).node = 0
           /\ \A size : /\ NewNode(p, size).pc = "alloc" /\ ~NewNode(p, size).clean
                        /\ NewNode(p, size).mapped = h[p].mapped
                        /\ NewNode(p, size).node = 0 /\ NewNode(p, size).done = 0
                        /\ NewNode(p, size).prev = 0
  BY DEF Closed, AtRest, NewNode

(***************************************************************************)
(* Only w is ever in a store; a clean load is a load.                      *)
(***************************************************************************)
LEMMA NotStored ==
    ASSUME StorageInv, NEW w \in Handle, ChainInv(w), NEW p \in Handle
    PROVE  /\ h[p].pc \in Storing \cup {"setRoot"} => p = w /\ h[p].mapped = fileLen
           /\ h[p].clean => h[p].pc \in {"load", "loaded", "panicked"}
           /\ h[p].mapped <= fileLen
           /\ p = w /\ h[p].pc # "closed" => h[p].mapped = fileLen
           /\ p # w /\ h[p].pc # "closed" => rootOffset # 0
<1>1. OthersLoad(w) /\ Mappings(w) /\ LoadOK(p)
  BY DEF ChainInv
<1>2. "closed" \notin Storing \cup {"setRoot"}
  BY DEF Storing
<1> QED BY <1>1, <1>2 DEF OthersLoad, Mappings, LoadOK, Loading

(***************************************************************************)
(* A step outside every store keeps the invariant.                         *)
(***************************************************************************)
LEMMA QuietIdle ==
    ASSUME StorageInv, StorageInv', NEW w \in Handle, ChainInv(w), ~rolledBack,
           NEW p \in Handle, NEW r, h' = [h EXCEPT ![p] = r],
           UNCHANGED <<fileLen, blocks, last, cut, crashes>>,
           h[p].pc \notin Storing, r.pc \notin Storing,
           r.mapped <= fileLen, p = w /\ r.pc # "closed" => r.mapped = fileLen,
           p # w => r.pc # "setRoot" /\ (r.pc # "closed" => rootOffset' # 0),
           rootOffset # 0 => rootOffset' # 0,
           LoadOK(p)',
           ~rolledBack' => usedSpace' = usedSpace,
           r.pc = "opening" => r.used <= usedSpace
    PROVE  ChainInv(w)'
<1>1. h'[p] = r
  BY DEF StorageInv, TypeOK
<1>2. p = w => StoreOK(w)'
  BY <1>1 DEF StoreOK
<1>3. InChain' \subseteq InChain
  BY StoringKept
<1>5. {"resize", "use", "allocWrite"} \subseteq Storing
  BY DEF Storing
<1>4. ~rolledBack' => Space(w)'
  <2>1. Space(w)
    BY DEF ChainInv
  <2> QED BY <1>3, <1>5, <2>1, SpaceKept
<1> QED BY <1>1, <1>2, <1>4, Quiet

(***************************************************************************)
(* Open keeps the invariant: a file is mapped as long as it is.            *)
(***************************************************************************)
LEMMA ChainOpen ==
    ASSUME StorageInv, StorageInv', NEW w \in Handle, Writers = {w}, ChainInv(w), ~rolledBack,
           NEW p \in Handle, OpenCreated(p)
    PROVE  ChainInv(w)'
<1> DEFINE r == [Closed EXCEPT !.pc = "opening", !.mapped = fileLen, !.used = usedSpace]
<1>1. /\ h[p].pc = "closed" /\ h' = [h EXCEPT ![p] = r]
      /\ UNCHANGED <<fileLen, blocks, last, cut, crashes, rootOffset, usedSpace>>
      /\ p # w => rootOffset # 0
  BY DEF OpenCreated, Open, disk, history
<1>2. r.pc = "opening" /\ r.mapped = fileLen /\ r.used = usedSpace /\ ~r.clean
  BY DEF Closed
<1>3. {"closed", "opening"} \cap Storing = {}
  BY DEF Storing
<1>4. fileLen <= fileLen /\ usedSpace <= usedSpace
  BY StorageAssumption DEF StorageInv, TypeOK
<1>5. LoadOK(p)'
  <2>1. h'[p] = r
    BY <1>1 DEF StorageInv, TypeOK
  <2> QED BY <1>2, <2>1 DEF LoadOK, Loading
<1> HIDE DEF r
<1> QED BY <1>1, <1>2, <1>3, <1>4, <1>5, QuietIdle

(***************************************************************************)
(* WriteBack keeps the invariant, unless it undoes an allocation.          *)
(***************************************************************************)
LEMMA ChainWriteBack ==
    ASSUME StorageInv, StorageInv', NEW w \in Handle, ChainInv(w), ~rolledBack,
           NEW p \in Handle, WriteBack(p)
    PROVE  ChainInv(w)'
<1> DEFINE r == [h[p] EXCEPT !.pc = "new"]
<1>1. /\ h[p].pc = "opening" /\ h' = [h EXCEPT ![p] = r]
      /\ UNCHANGED <<fileLen, blocks, last, cut, crashes, rootOffset>>
      /\ usedSpace' = h[p].used /\ rolledBack' = (rolledBack \/ h[p].used < usedSpace)
  BY DEF WriteBack
<1>2. r.pc = "new" /\ r.mapped = h[p].mapped /\ r.clean = h[p].clean
  BY DEF StorageInv, TypeOK, HandleType
<1>3. {"new", "opening"} \cap Storing = {}
  BY DEF Storing
<1>4. ~r.clean
  BY <1>1, <1>2, NotStored
<1>5. LoadOK(p)'
  <2>1. h'[p] = r
    BY <1>1 DEF StorageInv, TypeOK
  <2> QED BY <1>4, <2>1 DEF LoadOK, Loading
<1>6. ~rolledBack' => usedSpace' = usedSpace
  <2>1. h[p].used <= usedSpace
    BY <1>1 DEF ChainInv, Space
  <2>2. h[p].used \in Nat /\ usedSpace \in Nat
    BY StorageAssumption DEF StorageInv, TypeOK, HandleType
  <2> HIDE DEF r
  <2>3. h[p].used < usedSpace \/ h[p].used = usedSpace
    BY <2>1, <2>2
  <2> QED BY <1>1, <2>3
<1>7. /\ h[p].pc \notin Storing /\ r.pc \notin Storing /\ r.pc \notin {"setRoot", "opening"}
      /\ r.mapped <= fileLen /\ (p = w => r.mapped = fileLen)
      /\ p # w => rootOffset' # 0
  BY <1>1, <1>2, <1>3, NotStored
<1> HIDE DEF r
<1> QED BY <1>1, <1>5, <1>6, <1>7, QuietIdle

(***************************************************************************)
(* Coming to rest, and closing, keep the invariant.                        *)
(***************************************************************************)
LEMMA ChainRest ==
    ASSUME StorageInv, StorageInv', NEW w \in Handle, ChainInv(w), ~rolledBack,
           NEW p \in Handle, NEW r \in {AtRest(p), Closed}, h' = [h EXCEPT ![p] = r],
           UNCHANGED <<fileLen, blocks, last, cut, crashes, usedSpace>>,
           h[p].pc \notin Storing, h[p].pc # "closed",
           rootOffset' = rootOffset \/ (p = w /\ rootOffset' # 0)
    PROVE  ChainInv(w)'
<1>1. r.pc \in {"open", "closed"} /\ ~r.clean /\ (r.pc # "closed" => r.mapped = h[p].mapped)
      /\ (r.pc = "closed" => r.mapped = 0)
  BY RestFields
<1>2. {"open", "closed"} \cap Storing = {}
  BY DEF Storing
<1>3. LoadOK(p)'
  <2>1. h'[p] = r
    BY DEF StorageInv, TypeOK
  <2> QED BY <1>1, <2>1 DEF LoadOK, Loading
<1>4. r.mapped <= fileLen
  <2>1. fileLen \in Nat /\ h[p].mapped \in Nat
    BY DEF StorageInv, TypeOK, HandleType
  <2> QED BY <1>1, <2>1, NotStored
<1>5. /\ p = w /\ r.pc # "closed" => r.mapped = fileLen
      /\ p # w => r.pc # "setRoot" /\ (r.pc # "closed" => rootOffset' # 0)
  BY <1>1, NotStored
<1>6. r.pc # "opening" /\ r.pc \notin Storing
  BY <1>1, <1>2
<1> HIDE DEF AtRest, Closed
<1> QED BY <1>3, <1>4, <1>5, <1>6, QuietIdle

(***************************************************************************)
(* Beginning to store a new node keeps the invariant.                      *)
(***************************************************************************)
LEMMA ChainNewStore ==
    ASSUME StorageInv, StorageInv', NEW w \in Handle, ChainInv(w), ~rolledBack,
           NEW size, h' = [h EXCEPT ![w] = NewNode(w, size)],
           UNCHANGED <<fileLen, blocks, last, cut, crashes, usedSpace, rootOffset>>,
           h[w].pc \notin Storing, h[w].pc # "closed"
    PROVE  ChainInv(w)'
<1> DEFINE r == NewNode(w, size)
<1>1. /\ r.pc = "alloc" /\ ~r.clean /\ r.mapped = h[w].mapped
      /\ r.node = 0 /\ r.done = 0 /\ r.prev = 0
  BY RestFields
<1>2. h'[w] = r
  BY DEF StorageInv, TypeOK
<1> HIDE DEF r
<1>3. LoadOK(w)' /\ StoreOK(w)'
  BY <1>1, <1>2 DEF LoadOK, Loading, StoreOK
<1>4. r.mapped = fileLen /\ r.mapped <= fileLen
  <2>1. fileLen \in Nat
    BY DEF StorageInv, TypeOK
  <2> QED BY <1>1, <2>1, NotStored
<1>5. h' = [h EXCEPT ![w] = r]
  BY DEF r
<1>6. InChain' \subseteq InChain
  BY <1>1, <1>5, StoringKept
<1>7. ~rolledBack' => Space(w)'
  <2>1. Space(w)
    BY DEF ChainInv
  <2>2. {"resize", "use"} \subseteq Storing
    BY DEF Storing
  <2> QED BY <1>1, <1>5, <1>6, <2>1, <2>2, SpaceKept
<1> QED BY <1>1, <1>3, <1>4, <1>5, <1>7, Quiet

(***************************************************************************)
(* NewTree keeps the invariant.                                            *)
(***************************************************************************)
LEMMA ChainNewTree ==
    ASSUME StorageInv, StorageInv', NEW w \in Handle, ChainInv(w), ~rolledBack, ~wrecked,
           NEW p \in Handle, NewTree(p)
    PROVE  ChainInv(w)'
<1>1. h[p].pc = "new" /\ UNCHANGED <<fileLen, blocks, last, cut, crashes, usedSpace, rootOffset>>
  BY DEF NewTree, disk
<1>2. "new" \notin Storing
  BY DEF Storing
<1>3. CASE usedSpace = 0 /\ h' = [h EXCEPT ![p] = NewNode(p, 1)]
  <2>1. p = w
    <3> SUFFICES ASSUME p # w PROVE FALSE
      OBVIOUS
    <3>1. rootOffset # 0
      BY <1>1, NotStored
    <3>2. rootOffset \in InChain /\ rootOffset \in DOMAIN last
      BY <3>1 DEF StorageInv, RootIsStored, RootIsDurable, InChain
    <3>3. rootOffset \in Nat /\ rootOffset >= 1
      BY <3>2 DEF StorageInv, TypeOK, Block
    <3>4. rootOffset <= InUse(w) /\ (h[w].pc \in {"resize", "use"} => usedSpace = h[w].used + 1)
      BY <3>2 DEF ChainInv, Space
    <3>5. h[w].used \in Nat
      BY DEF StorageInv, TypeOK, HandleType
    <3> QED BY <1>3, <3>3, <3>4, <3>5 DEF InUse
  <2> QED BY <1>1, <1>2, <1>3, <2>1, ChainNewStore
<1>4. CASE h' = [h EXCEPT ![p] = AtRest(p)]
  <2>1. AtRest(p) \in {AtRest(p), Closed}
    OBVIOUS
  <2> HIDE DEF AtRest, Closed
  <2> QED BY <1>1, <1>2, <1>4, <2>1, ChainRest
<1> QED BY <1>3, <1>4 DEF NewTree

(***************************************************************************)
(* Close keeps the invariant.                                              *)
(***************************************************************************)
LEMMA ChainClose ==
    ASSUME StorageInv, StorageInv', NEW w \in Handle, ChainInv(w), ~rolledBack,
           NEW p \in Handle, Close(p)
    PROVE  ChainInv(w)'
<1>1. /\ h[p].pc \in {"open", "loaded", "failed", "panicked"} /\ h' = [h EXCEPT ![p] = Closed]
      /\ UNCHANGED <<fileLen, blocks, last, cut, crashes, usedSpace, rootOffset>>
  BY DEF Close, disk, history
<1>2. h[p].pc \notin Storing /\ h[p].pc # "closed"
  BY <1>1 DEF Storing
<1>3. Closed \in {AtRest(p), Closed}
  OBVIOUS
<1> QED BY <1>1, <1>2, <1>3, ChainRest

(***************************************************************************)
(* SetRootOffset keeps the invariant.                                      *)
(***************************************************************************)
LEMMA ChainSetRootOffset ==
    ASSUME StorageInv, StorageInv', NEW w \in Handle, ChainInv(w), ~rolledBack,
           NEW p \in Handle, SetRootOffset(p)
    PROVE  ChainInv(w)'
<1>1. /\ h[p].pc = "setRoot" /\ h' = [h EXCEPT ![p] = AtRest(p)] /\ rootOffset' = h[p].node
      /\ UNCHANGED <<fileLen, blocks, last, cut, crashes, usedSpace>>
  BY DEF SetRootOffset, history
<1>2. h[p].pc \notin Storing /\ h[p].pc # "closed" /\ p = w
  BY <1>1, NotStored DEF Storing
<1>3. AtRest(p) \in {AtRest(p), Closed}
  OBVIOUS
<1>4. h[p].node # 0
  BY <1>1 DEF StorageInv, StageOK, TypeOK, Block
<1> QED BY <1>1, <1>2, <1>3, <1>4, ChainRest

(***************************************************************************)
(* MoveRoot keeps the invariant.                                           *)
(***************************************************************************)
LEMMA ChainMoveRoot ==
    ASSUME StorageInv, StorageInv', NEW w \in Handle, Writers = {w}, ChainInv(w), ~rolledBack,
           NEW p \in Handle, NEW node \in Block, MoveRoot(p, node)
    PROVE  ChainInv(w)'
<1>1. /\ p = w /\ h[p].pc = "open" /\ rootOffset' = node
      /\ UNCHANGED <<fileLen, blocks, last, cut, crashes, usedSpace, h>>
  BY DEF MoveRoot, history
<1>2. h' = [h EXCEPT ![p] = h[p]]
  BY <1>1 DEF StorageInv, TypeOK
<1>3. node # 0 /\ "open" \notin Storing
  BY DEF Block, Storing
<1>4. ~h[p].clean
  BY <1>1, NotStored
<1>5. LoadOK(p)'
  BY <1>1, <1>4 DEF LoadOK, Loading
<1>6. h[p].pc \notin Storing /\ h[p].pc \notin {"closed", "setRoot", "opening"}
  BY <1>1, <1>3
<1> QED BY <1>1, <1>2, <1>3, <1>5, <1>6, NotStored, QuietIdle

(***************************************************************************)
(* StoreNew keeps the invariant.                                           *)
(***************************************************************************)
LEMMA ChainStoreNew ==
    ASSUME StorageInv, StorageInv', NEW w \in Handle, Writers = {w}, ChainInv(w), ~rolledBack,
           NEW p \in Handle, NEW size \in Size, StoreNew(p, size)
    PROVE  ChainInv(w)'
<1>1. /\ p = w /\ h[p].pc = "open" /\ h' = [h EXCEPT ![p] = NewNode(p, size)]
      /\ UNCHANGED <<fileLen, blocks, last, cut, crashes, usedSpace, rootOffset>>
  BY DEF StoreNew, MayStore, disk
<1>2. h[p].pc \notin Storing /\ h[p].pc # "closed"
  BY <1>1 DEF Storing
<1> QED BY <1>1, <1>2, ChainNewStore

-----------------------------------------------------------------------------
(***************************************************************************)
(* The stages of an allocation.                                            *)
(***************************************************************************)
Allocating == {"alloc", "allocWrite", "resize", "use"}

(***************************************************************************)
(* An allocation loses nothing of how far the store has come.              *)
(***************************************************************************)
LEMMA StageKept ==
    ASSUME StorageInv, Links, NEW w \in Handle, StoreOK(w), h[w].pc \in Allocating,
           NEW r, h'[w] = r, r.pc \in Allocating,
           r.node = h[w].node, r.cur = h[w].cur, r.ver = h[w].ver, r.size = h[w].size,
           r.prev = h[w].prev, r.done = h[w].done,
           \A n \in Block : n = h[w].node =>
               /\ Chain(n)' = Chain(n)
               /\ \A i \in 1..Len(Chain(n)) : blocks'[Chain(n)[i]] = blocks[Chain(n)[i]]
    PROVE  StoreOK(w)'
<1>1. h[w].pc \in Storing /\ r.pc \in Storing
      /\ h[w].pc \notin {"write", "end"} /\ r.pc \notin {"write", "end"}
  BY DEF Storing, Allocating
<1>2. CASE h[w].node = 0
  BY <1>1, <1>2 DEF StoreOK, Allocating
<1>3. CASE h[w].node # 0
  <2>1. Placed(h[w])
    BY <1>1, <1>3 DEF StoreOK
  <2>2. ASSUME NEW n \in Block, n = h[w].node PROVE Placed(h[w])'
    <3>1. /\ Chain(n)' = Chain(n) /\ Len(Chain(n)) \in Nat /\ Chain(n)[1] = n
          /\ \A i \in 1..Len(Chain(n)) : blocks'[Chain(n)[i]] = blocks[Chain(n)[i]]
          /\ Len(Chain(n)) >= 1
      BY <2>2, ChainFacts
    <3>2. blocks'[n] = blocks[n]
      <4>1. 1 \in 1..Len(Chain(n))
        BY <3>1
      <4> QED BY <3>1, <4>1
    <3>3. /\ Written(n, h[w].ver, h[w].done, h[w].size)
          /\ h[w].done \in 1..Len(Chain(n)) /\ h[w].cur = Chain(n)[h[w].done]
          /\ h[w].done >= h[w].prev
      BY <1>1, <2>1, <2>2 DEF Placed
    <3>4. 1..h[w].done \subseteq 1..Len(Chain(n))
      BY <3>1, <3>3
    <3>5. /\ \A i \in 1..h[w].done :
                 blocks'[Chain(n)[i]].piece = [of |-> h[w].ver, part |-> i, parts |-> h[w].size]
          /\ h[w].done > 0 => blocks'[n].primary
      BY <3>1, <3>2, <3>3, <3>4 DEF Written
    <3>6. /\ ChainOf(blocks', h'[w].node) = Chain(n)
          /\ h'[w].node = n /\ h'[w].done = h[w].done /\ h'[w].cur = h[w].cur
          /\ h'[w].ver = h[w].ver /\ h'[w].size = h[w].size /\ h'[w].prev = h[w].prev
          /\ h'[w].pc \notin {"write", "end"}
      BY <1>1, <2>2, <3>1 DEF Chain
    <3> QED BY <2>2, <3>3, <3>5, <3>6 DEF Placed, Written, Chain
  <2>3. h[w].node \in Block
    BY <2>1 DEF Placed
  <2> QED BY <1>1, <1>3, <2>2, <2>3 DEF StoreOK
<1> QED BY <1>2, <1>3

(***************************************************************************)
(* Allocate keeps the invariant: the only writer reads the used space.     *)
(***************************************************************************)
LEMMA ChainAllocate ==
    ASSUME StorageInv, StorageInv', NEW w \in Handle, ChainInv(w), ~rolledBack,
           NEW p \in Handle, Allocate(p)
    PROVE  ChainInv(w)'
<1> DEFINE r == [h[p] EXCEPT !.used = usedSpace, !.pc = "allocWrite"]
<1>1. /\ h[p].pc = "alloc" /\ h' = [h EXCEPT ![p] = r]
      /\ UNCHANGED <<fileLen, blocks, last, cut, crashes, usedSpace, rootOffset>>
  BY DEF Allocate, disk, history
<1>2. /\ r.pc = "allocWrite" /\ r.used = usedSpace /\ r.mapped = h[p].mapped
      /\ r.clean = h[p].clean /\ r.node = h[p].node /\ r.cur = h[p].cur /\ r.ver = h[p].ver
      /\ r.size = h[p].size /\ r.prev = h[p].prev /\ r.done = h[p].done
  BY DEF StorageInv, TypeOK, HandleType
<1>3. {"alloc", "allocWrite"} \subseteq Storing /\ {"alloc", "allocWrite"} \subseteq Allocating
  BY DEF Storing, Allocating
<1>4. p = w /\ ~r.clean /\ r.mapped = fileLen
  BY <1>1, <1>2, <1>3, NotStored
<1>5. h'[p] = r
  BY <1>1 DEF StorageInv, TypeOK
<1> HIDE DEF r
<1>6. LoadOK(p)'
  BY <1>4, <1>5 DEF LoadOK, Loading
<1>7. StoreOK(w)'
  <2>1. Links /\ StoreOK(w)
    BY DEF ChainInv
  <2>2. \A n \in Block : Chain(n)' = Chain(n)
    BY <1>1 DEF Chain
  <2> QED BY <1>1, <1>2, <1>3, <1>4, <1>5, <2>1, <2>2, StageKept
<1>8. ~rolledBack' => Space(w)'
  <2>1. Space(w)
    BY DEF ChainInv
  <2>2. InChain' \subseteq InChain
    BY <1>1, <1>2, <1>3, StoringKept
  <2> QED BY <1>1, <1>2, <1>4, <2>1, <2>2, SpaceKept
<1>9. r.mapped <= fileLen
  BY <1>2, NotStored
<1> QED BY <1>1, <1>2, <1>3, <1>4, <1>6, <1>7, <1>8, <1>9, Quiet

(***************************************************************************)
(* AllocateWrite keeps the invariant: nobody has allocated since.          *)
(***************************************************************************)
LEMMA ChainAllocateWrite ==
    ASSUME StorageInv, StorageInv', NEW w \in Handle, ChainInv(w), ~rolledBack,
           NEW p \in Handle, AllocateWrite(p)
    PROVE  ChainInv(w)'
<1> DEFINE pc == IF h[p].used + 1 > h[p].mapped THEN "resize" ELSE "use"
           r == [h[p] EXCEPT !.pc = pc]
<1>1. /\ h[p].pc = "allocWrite" /\ h' = [h EXCEPT ![p] = r] /\ usedSpace' = h[p].used + 1
      /\ UNCHANGED <<fileLen, blocks, last, cut, crashes, rootOffset>>
  BY DEF AllocateWrite, history
<1>2. /\ r.pc = pc /\ r.used = h[p].used /\ r.mapped = h[p].mapped
      /\ r.clean = h[p].clean /\ r.node = h[p].node /\ r.cur = h[p].cur /\ r.ver = h[p].ver
      /\ r.size = h[p].size /\ r.prev = h[p].prev /\ r.done = h[p].done
  BY DEF StorageInv, TypeOK, HandleType
<1>3. {"resize", "use", "allocWrite"} \subseteq Storing
      /\ {"resize", "use", "allocWrite"} \subseteq Allocating
  BY DEF Storing, Allocating
<1>10. pc \in {"resize", "use"} /\ (pc = "use" => ~(h[p].used + 1 > h[p].mapped))
  OBVIOUS
<1>4. p = w /\ ~r.clean /\ r.mapped = fileLen
  BY <1>1, <1>2, <1>3, NotStored
<1>5. h'[p] = r
  BY <1>1 DEF StorageInv, TypeOK
<1> HIDE DEF r, pc
<1>6. LoadOK(p)'
  BY <1>4, <1>5 DEF LoadOK, Loading
<1>7. StoreOK(w)'
  <2>1. Links /\ StoreOK(w)
    BY DEF ChainInv
  <2>2. \A n \in Block : Chain(n)' = Chain(n)
    BY <1>1 DEF Chain
  <2> QED BY <1>1, <1>2, <1>3, <1>4, <1>5, <1>10, <2>1, <2>2, StageKept
<1>8. Space(w)'
  <2>1. Space(w) /\ h[w].used = usedSpace
    BY <1>1, <1>4 DEF ChainInv, Space
  <2>2. InChain' \subseteq InChain
    BY <1>1, <1>2, <1>3, <1>10, StoringKept
  <2>3. InUse(w)' = usedSpace /\ InUse(w) = usedSpace
    <3>1. h[w].pc = "allocWrite" /\ h'[w].pc \in {"resize", "use"} /\ h'[w].used = usedSpace
      BY <1>1, <1>2, <1>4, <1>5, <1>10, <2>1
    <3> QED BY <3>1 DEF InUse
  <2>4. /\ usedSpace \in Nat /\ fileLen \in Nat /\ crashes \in Nat
        /\ h[w].mapped \in Nat /\ \A q \in Handle : h[q].used \in Nat
    <3>1. \A q \in Handle : h[q].used \in 0..MaxBlocks /\ h[q].mapped \in Nat
      BY DEF StorageInv, TypeOK, HandleType
    <3>2. MaxBlocks \in Nat /\ usedSpace \in 0..MaxBlocks /\ fileLen \in Nat /\ crashes \in Nat
      BY StorageAssumption DEF StorageInv, TypeOK
    <3> QED BY <3>1, <3>2
  <2>5. usedSpace' <= fileLen' + crashes' + (IF h'[w].pc = "resize" THEN 1 ELSE 0)
    <3>1. usedSpace <= fileLen + crashes
      BY <1>1, <1>4, <2>1, <2>4 DEF Space
    <3>2. usedSpace' = usedSpace + 1 /\ fileLen' = fileLen /\ crashes' = crashes
      BY <1>1, <1>4, <2>1
    <3>3. CASE pc = "resize"
      BY <1>2, <1>4, <1>5, <2>4, <3>1, <3>2, <3>3
    <3>4. CASE pc = "use"
      <4>1. usedSpace + 1 <= fileLen
        BY <1>2, <1>4, <1>10, <2>1, <2>4, <3>4
      <4> QED BY <1>2, <1>4, <1>5, <2>4, <3>2, <3>4, <4>1
    <3> QED BY <1>10, <3>3, <3>4
  <2>6. \A q \in Handle : h'[q].pc = "opening" => h'[q].used <= usedSpace'
    <3>1. ASSUME NEW q \in Handle, h'[q].pc = "opening" PROVE h'[q].used <= usedSpace'
      <4>1. q # p /\ h'[q] = h[q]
        BY <1>1, <1>2, <1>5, <1>10, <3>1 DEF StorageInv, TypeOK
      <4>2. h[q].used <= usedSpace /\ usedSpace' = usedSpace + 1
        BY <1>1, <1>4, <2>1, <3>1, <4>1 DEF Space
      <4> QED BY <2>4, <4>1, <4>2
    <3> QED BY <3>1
  <2>7. /\ h'[w].pc # "allocWrite"
        /\ usedSpace' = h'[w].used + 1
        /\ h'[w].pc = "use" => h'[w].used + 1 <= h'[w].mapped
    BY <1>1, <1>2, <1>4, <1>5, <1>10, <2>4
  <2>8. \A b \in Block : blocks'[b].next <= InUse(w)' /\ (b > InUse(w)' => blocks'[b].next = 0)
    BY <1>1, <2>1, <2>3 DEF Space
  <2>9. \A n \in InChain' : n <= InUse(w)'
    BY <2>1, <2>2, <2>3 DEF Space
  <2> QED BY <2>5, <2>6, <2>7, <2>8, <2>9 DEF Space
<1>9. r.mapped <= fileLen
  BY <1>2, NotStored
<1> QED BY <1>1, <1>2, <1>3, <1>4, <1>6, <1>7, <1>8, <1>9, <1>10, Quiet

(***************************************************************************)
(* Crash keeps the invariant: the node being stored is cut short, and its  *)
(* chain is still one.                                                     *)
(***************************************************************************)
LEMMA ChainCrash ==
    ASSUME StorageInv, StorageInv', NEW w \in Handle, ChainInv(w), ~rolledBack, Crash
    PROVE  ChainInv(w)'
<1>1. /\ h' = [p \in Handle |-> Closed] /\ crashes' = crashes + 1 /\ crashes < MaxCrashes
      /\ UNCHANGED <<usedSpace, rootOffset, fileLen, blocks, last>>
      /\ cut' = cut \cup ({h[p].node : p \in {q \in Handle : h[q].pc \in Storing}} \ {0})
  BY DEF Crash, disk
<1>2. \A p \in Handle : h'[p].pc = "closed" /\ h'[p].mapped = 0 /\ ~h'[p].clean
  BY <1>1, RestFields
<1>3. "closed" \notin Storing \cup {"setRoot", "resize", "use", "allocWrite", "opening"}
      /\ {"resize", "use"} \subseteq Storing
  BY DEF Storing
<1>4. /\ usedSpace \in Nat /\ fileLen \in Nat /\ crashes \in Nat /\ h[w].used \in Nat
      /\ MaxCrashes \in Nat
  BY StorageAssumption DEF StorageInv, TypeOK, HandleType
<1>5. OthersLoad(w)'
  BY <1>2, <1>3 DEF OthersLoad
<1>6. Mappings(w)'
  BY <1>1, <1>2, <1>4 DEF Mappings, ChainInv
<1>7. Links' /\ Sizes'
  BY <1>1 DEF Links, Sizes, ChainInv
<1>8. InChain' \subseteq InChain
  BY <1>1, <1>2, <1>3 DEF InChain
<1>9. Heads'
  BY <1>1, <1>8 DEF Heads, ChainInv
<1>10. Space(w)'
  <2>1. Space(w)
    BY DEF ChainInv
  <2>2. InUse(w)' = usedSpace
    BY <1>1, <1>2, <1>3 DEF InUse
  <2>3. InUse(w) \in Nat /\ InUse(w) <= usedSpace
    BY <1>4, <2>1 DEF InUse, Space
  <2>4. \A b \in Block : blocks[b].next \in Nat /\ b \in Nat
    BY NextTyped DEF StorageInv, TypeOK
  <2>5. usedSpace' <= fileLen' + crashes' + (IF h'[w].pc = "resize" THEN 1 ELSE 0)
    <3>1. usedSpace <= fileLen + crashes + 1
      <4>1. usedSpace <= fileLen + crashes + (IF h[w].pc = "resize" THEN 1 ELSE 0)
        BY <2>1 DEF Space
      <4> QED BY <1>4, <4>1
    <3>2. h'[w].pc # "resize"
      BY <1>2
    <3> QED BY <1>1, <1>4, <3>1, <3>2
  <2>6. \A b \in Block : blocks'[b].next <= InUse(w)' /\ (b > InUse(w)' => blocks'[b].next = 0)
    <3>1. \A b \in Block : blocks[b].next <= InUse(w) /\ (b > InUse(w) => blocks[b].next = 0)
      BY <2>1 DEF Space
    <3> QED BY <1>1, <1>4, <2>2, <2>3, <2>4, <3>1
  <2>7. \A n \in InChain' : n <= InUse(w)'
    <3>1. InChain \subseteq Block /\ Block \subseteq Nat
      BY InChainTyped DEF Block
    <3>2. \A n \in InChain : n <= InUse(w) /\ n \in Nat
      BY <2>1, <3>1 DEF Space
    <3> QED BY <1>4, <1>8, <2>2, <2>3, <3>2
  <2> QED BY <1>2, <2>5, <2>6, <2>7 DEF Space
<1>11. StoreOK(w)'
  BY <1>2, <1>3 DEF StoreOK
<1>12. ASSUME NEW n \in Block, Settled(n)' PROVE Whole(n)'
  <2>1. Settled(n)
    <3>1. n \in DOMAIN last /\ n \notin cut
      BY <1>1, <1>12 DEF Settled
    <3>2. n # 0
      BY DEF Block
    <3>3. ~BeingStored(n)
      BY <1>1, <1>12, <3>2 DEF Settled, BeingStored
    <3> QED BY <3>1, <3>3 DEF Settled
  <2>2. Whole(n)
    BY <2>1 DEF ChainInv, AllWhole
  <2> QED BY <1>1, <2>2 DEF Whole, Written, Chain
<1>13. \A p \in Handle : LoadOK(p)'
  BY <1>2 DEF LoadOK, Loading
<1> QED BY <1>5, <1>6, <1>7, <1>9, <1>10, <1>11, <1>12, <1>13 DEF ChainInv, AllWhole

-----------------------------------------------------------------------------
(***************************************************************************)
(* A step of a load keeps the invariant if the load is as far as it says.  *)
(***************************************************************************)
LEMMA ChainReader ==
    ASSUME StorageInv, StorageInv', NEW w \in Handle, ChainInv(w), ~rolledBack,
           NEW p \in Handle, NEW r, h' = [h EXCEPT ![p] = r],
           UNCHANGED <<disk, history>>, h[p].pc \in {"open", "load"},
           r.pc \in {"load", "loaded", "panicked", "failed"}, r.mapped = h[p].mapped,
           \A n \in Block : n = r.node /\ r.clean => Loading(r, n),
           r.node \in Block \/ ~r.clean
    PROVE  ChainInv(w)'
<1>1. /\ UNCHANGED <<fileLen, blocks, last, cut, crashes, usedSpace, rootOffset>>
      /\ h'[p] = r
  BY DEF disk, history, StorageInv, TypeOK
<1>2. {"open", "load", "loaded", "panicked", "failed"} \cap Storing = {}
  BY DEF Storing
<1>3. \A n \in Block : BeingStored(n)' <=> BeingStored(n)
  BY <1>1, <1>2, StoringKept
<1>4. LoadOK(p)'
  <2>1. CASE ~r.clean
    BY <1>1, <2>1 DEF LoadOK, Loading
  <2>2. ASSUME NEW n \in Block, n = r.node, r.clean PROVE LoadOK(p)'
    <3>1. Loading(r, n)
      BY <2>2
    <3>2. Settled(n)'
      BY <1>1, <1>3, <3>1 DEF Settled, Loading
    <3>3. Settled(h[p].node)'
      BY <1>1, <2>2, <3>2 DEF Settled, BeingStored
    <3>4. Chain(n)' = Chain(n) /\ Pieces(n)' = Pieces(n)
      BY <1>1 DEF Chain, Pieces
    <3>5. Chain(h[p].node)' = Chain(n) /\ Pieces(h[p].node)' = Pieces(n)
      <4>1. h'[p].node = n
        BY <1>1, <2>2
      <4>2. Chain(h[p].node)' = Chain(n)
        BY <3>4, <4>1 DEF Chain
      <4> QED BY <3>4, <4>1, <4>2 DEF Pieces, Chain
    <3> QED BY <1>1, <2>2, <3>1, <3>3, <3>5 DEF LoadOK, Loading
  <2> QED BY <2>1, <2>2
<1>5. /\ h[p].pc \notin Storing /\ r.pc \notin Storing
      /\ h[p].pc # "closed" /\ r.pc \notin {"setRoot", "opening", "closed"}
  BY <1>2
<1>6. /\ r.mapped <= fileLen /\ (p = w => r.mapped = fileLen)
      /\ p # w => rootOffset' # 0
  BY <1>1, <1>5, NotStored
<1> QED BY <1>1, <1>4, <1>5, <1>6, QuietIdle

(***************************************************************************)
(* Load keeps the invariant.                                               *)
(***************************************************************************)
LEMMA ChainLoad ==
    ASSUME StorageInv, StorageInv', NEW w \in Handle, ChainInv(w), ~rolledBack,
           NEW p \in Handle, NEW node \in Block, Load(p, node)
    PROVE  ChainInv(w)'
<1> DEFINE clean == node \notin cut /\ ~BeingStored(node)
           r == [AtRest(p) EXCEPT !.pc = "load", !.node = node, !.cur = node, !.clean = clean]
<1>1. /\ h[p].pc = "open" /\ node \in DOMAIN last /\ h' = [h EXCEPT ![p] = r]
      /\ UNCHANGED <<disk, history>>
  BY DEF Load
<1>2. /\ r.pc = "load" /\ r.node = node /\ r.cur = node /\ r.clean = clean
      /\ r.mapped = h[p].mapped /\ r.got = <<>>
  BY DEF AtRest, Closed
<1>3. r.clean => Settled(node)
  BY <1>1, <1>2 DEF Settled
<1> HIDE DEF r, clean
<1>4. /\ Len(Chain(node)) \in Nat /\ Len(Chain(node)) >= 1 /\ Chain(node)[1] = node
      /\ Len(r.got) = 0
  BY <1>2, ChainFacts DEF ChainInv
<1>5. \A n \in Block : n = r.node /\ r.clean => Loading(r, n)
  BY <1>2, <1>3, <1>4 DEF Loading
<1> QED BY <1>1, <1>2, <1>5, ChainReader

(***************************************************************************)
(* ReadBlock keeps the invariant: a clean load has taken the next piece of *)
(* a node that is whole, and stays within the chain.                       *)
(***************************************************************************)
LEMMA ChainReadBlock ==
    ASSUME StorageInv, StorageInv', NEW w \in Handle, ChainInv(w), ~rolledBack,
           NEW p \in Handle, ReadBlock(p)
    PROVE  ChainInv(w)'
<1> DEFINE block == blocks[h[p].cur]
           got == Append(h[p].got, block.piece)
           pc == IF block.next = 0 THEN "loaded" ELSE "load"
           rp == [h[p] EXCEPT !.pc = "panicked"]
           rf == [h[p] EXCEPT !.pc = "failed"]
           rr == [h[p] EXCEPT !.got = got, !.cur = block.next, !.pc = pc]
<1>1. /\ h[p].pc = "load" /\ UNCHANGED <<disk, history>>
      /\ h' = [h EXCEPT ![p] = IF h[p].cur > h[p].mapped THEN rp
                               ELSE IF h[p].got = <<>> /\ ~block.primary THEN rf ELSE rr]
  BY DEF ReadBlock
<1>2. /\ rp.pc = "panicked" /\ rp.node = h[p].node /\ rp.clean = h[p].clean
      /\ rp.mapped = h[p].mapped
      /\ rf.pc = "failed" /\ rf.node = h[p].node /\ rf.clean = h[p].clean
      /\ rf.mapped = h[p].mapped
      /\ rr.pc = pc /\ rr.node = h[p].node /\ rr.clean = h[p].clean
      /\ rr.mapped = h[p].mapped /\ rr.cur = block.next /\ rr.got = got
  BY DEF StorageInv, TypeOK, HandleType
<1>3. /\ pc \in {"loaded", "load"} /\ (pc = "loaded" => block.next = 0)
      /\ (pc = "load" => block.next # 0)
  OBVIOUS
<1> HIDE DEF rp, rf, rr, pc
<1>4. h[p].node \in Block \/ ~h[p].clean
  BY DEF ChainInv, LoadOK, Loading
<1>5. ASSUME NEW n \in Block, n = h[p].node, h[p].clean
      PROVE  /\ Settled(n) /\ Whole(n) /\ n \in InChain
             /\ h[p].got \in Seq(Piece) /\ Len(h[p].got) \in Nat
             /\ Len(h[p].got) < Len(Chain(n))
             /\ h[p].cur = Chain(n)[Len(h[p].got) + 1]
             /\ \A i \in 1..Len(h[p].got) : h[p].got[i] = blocks[Chain(n)[i]].piece
  <2>1. /\ Settled(n) /\ Len(h[p].got) < Len(Chain(n))
        /\ h[p].cur = Chain(n)[Len(h[p].got) + 1]
        /\ \A i \in 1..Len(h[p].got) : h[p].got[i] = blocks[Chain(n)[i]].piece
    BY <1>1, <1>5 DEF ChainInv, LoadOK, Loading
  <2>2. h[p].got \in Seq(Piece)
    BY DEF StorageInv, TypeOK, HandleType
  <2>3. Len(h[p].got) \in Nat
    BY <2>2
  <2>4. Whole(n)
    BY <2>1 DEF ChainInv, AllWhole
  <2>5. n \in InChain
    BY <2>1 DEF Settled, InChain
  <2> QED BY <2>1, <2>2, <2>3, <2>4, <2>5
<1>6. CASE h[p].cur > h[p].mapped
  <2>1. ASSUME NEW n \in Block, n = h[p].node, h[p].clean PROVE Settled(n) /\ h[p].mapped < fileLen
    <3>1. /\ Settled(n) /\ n \in InChain /\ Len(h[p].got) \in Nat
          /\ Len(h[p].got) < Len(Chain(n)) /\ h[p].cur = Chain(n)[Len(h[p].got) + 1]
      BY <1>5, <2>1
    <3>2. Links /\ Heads
      BY DEF ChainInv
    <3>3. Len(Chain(n)) \in Nat
      BY <3>2, ChainFacts
    <3>4. Len(h[p].got) + 1 \in 1..Len(Chain(n))
      BY <3>1, <3>3
    <3>5. h[p].cur <= fileLen /\ h[p].cur \in Nat
      <4>1. h[p].cur <= fileLen
        BY <3>1, <3>2, <3>4, ChainInFile
      <4>2. Chain(n)[Len(h[p].got) + 1] \in Nat
        BY <3>2, <3>4, ChainFacts
      <4> QED BY <3>1, <4>1, <4>2
    <3>6. fileLen \in Nat /\ h[p].mapped \in Nat
      BY DEF StorageInv, TypeOK, HandleType
    <3> QED BY <1>6, <3>1, <3>5, <3>6
  <2>2. h' = [h EXCEPT ![p] = rp]
    BY <1>1, <1>6
  <2>3. \A n \in Block : n = rp.node /\ rp.clean => Loading(rp, n)
    BY <1>2, <2>1 DEF Loading
  <2> QED BY <1>1, <1>2, <1>4, <2>2, <2>3, ChainReader
<1>7. CASE ~(h[p].cur > h[p].mapped) /\ h[p].got = <<>> /\ ~block.primary
  <2>1. ASSUME NEW n \in Block, n = h[p].node, h[p].clean PROVE FALSE
    <3>1. /\ Whole(n) /\ Len(h[p].got) = 0 /\ h[p].cur = Chain(n)[Len(h[p].got) + 1]
      BY <1>5, <1>7, <2>1
    <3>2. Chain(n)[1] = n /\ Len(Chain(n)) \in Nat /\ Len(Chain(n)) >= 1
      BY ChainFacts DEF ChainInv
    <3>3. blocks[n].primary
      BY <3>1, <3>2 DEF Whole, Written
    <3> QED BY <1>7, <3>1, <3>2, <3>3
  <2>2. h' = [h EXCEPT ![p] = rf]
    BY <1>1, <1>7
  <2>3. \A n \in Block : n = rf.node /\ rf.clean => Loading(rf, n)
    BY <1>2, <2>1
  <2> QED BY <1>1, <1>2, <1>4, <2>2, <2>3, ChainReader
<1>8. CASE ~(h[p].cur > h[p].mapped) /\ ~(h[p].got = <<>> /\ ~block.primary)
  <2>1. ASSUME NEW n \in Block, n = h[p].node, h[p].clean
        PROVE  /\ Settled(n)
               /\ pc = "load" =>
                      /\ Len(got) < Len(Chain(n))
                      /\ block.next = Chain(n)[Len(got) + 1]
                      /\ \A i \in 1..Len(got) : got[i] = blocks[Chain(n)[i]].piece
               /\ pc = "loaded" => got = Pieces(n)
    <3> DEFINE c == Chain(n)
               k == Len(h[p].got)
    <3>1. /\ Settled(n) /\ h[p].got \in Seq(Piece) /\ k \in Nat
          /\ k < Len(c) /\ h[p].cur = c[k + 1]
          /\ \A i \in 1..k : h[p].got[i] = blocks[c[i]].piece
      BY <1>5, <2>1
    <3>2. /\ c \in Seq(Block) /\ Len(c) \in Nat
          /\ \A i \in 1..Len(c) : c[i] \in Block
          /\ \A i \in 1..(Len(c) - 1) : blocks[c[i]].next = c[i + 1]
          /\ blocks[c[Len(c)]].next = 0
      BY ChainFacts DEF ChainInv
    <3> HIDE DEF c
    <3>3. k + 1 \in 1..Len(c) /\ h[p].cur \in Block
      BY <3>1, <3>2
    <3>4. block.piece \in Piece
      BY <3>3 DEF StorageInv, TypeOK, BlockType
    <3>5. /\ got \in Seq(Piece) /\ Len(got) = k + 1 /\ got[k + 1] = block.piece
          /\ \A i \in 1..k : got[i] = h[p].got[i]
      BY <3>1, <3>4
    <3> HIDE DEF got
    <3>6. \A i \in 1..(k + 1) : got[i] = blocks[c[i]].piece
      <4>1. ASSUME NEW i \in 1..(k + 1) PROVE got[i] = blocks[c[i]].piece
        <5>1. i \in 1..k \/ i = k + 1
          BY <3>1
        <5> QED BY <3>1, <3>5, <5>1
      <4> QED BY <4>1
    <3>7. ASSUME block.next # 0 PROVE k + 1 < Len(c) /\ block.next = c[(k + 1) + 1]
      <4>1. k + 1 # Len(c)
        BY <3>1, <3>2, <3>7
      <4>2. k + 1 \in 1..(Len(c) - 1)
        BY <3>1, <3>2, <4>1
      <4> QED BY <3>1, <3>2, <4>2
    <3>8. ASSUME block.next = 0 PROVE got = Pieces(n)
      <4>1. k + 1 = Len(c)
        <5> SUFFICES ASSUME k + 1 # Len(c) PROVE FALSE
          OBVIOUS
        <5>1. k + 1 \in 1..(Len(c) - 1) /\ (k + 1) + 1 \in 1..Len(c)
          BY <3>1, <3>2
        <5>2. blocks[c[k + 1]].next \in Block
          BY <3>2, <5>1
        <5> QED BY <3>1, <3>8, <5>2 DEF Block
      <4>2. DOMAIN c = 1..Len(c)
        BY <3>2
      <4>3. Pieces(n) = [i \in 1..Len(c) |-> blocks[c[i]].piece]
        BY <4>2 DEF Pieces, c
      <4>4. got = [i \in 1..Len(c) |-> got[i]]
        BY <3>5, <4>1
      <4> QED BY <3>6, <4>1, <4>3, <4>4
    <3> QED BY <1>3, <3>1, <3>5, <3>6, <3>7, <3>8 DEF c
  <2>2. h' = [h EXCEPT ![p] = rr]
    BY <1>1, <1>8
  <2> HIDE DEF got, block
  <2>3. \A n \in Block : n = rr.node /\ rr.clean => Loading(rr, n)
    BY <1>2, <1>3, <2>1 DEF Loading
  <2> QED BY <1>1, <1>2, <1>3, <1>4, <2>2, <2>3, ChainReader
<1> QED BY <1>6, <1>7, <1>8

(***************************************************************************)
(* StoreAgain keeps the invariant: the node has a chain, as long as its    *)
(* length says unless a crash cut it short, and loads of it are not clean  *)
(* now.                                                                    *)
(***************************************************************************)
LEMMA ChainStoreAgain ==
    ASSUME StorageInv, StorageInv', NEW w \in Handle, Writers = {w}, ChainInv(w), ~rolledBack,
           NEW p \in Handle, NEW node \in Block, NEW size \in Size, StoreAgain(p, node, size)
    PROVE  ChainInv(w)'
<1> DEFINE r == [AtRest(p) EXCEPT !.pc = "write", !.node = node, !.cur = node,
                                  !.ver = stores + 1, !.size = size, !.prev = blocks[node].len]
<1>1. /\ p = w /\ h[w].pc = "open" /\ node \in DOMAIN last
      /\ h' = [q \in Handle |->
                  IF q = p THEN r ELSE [h[q] EXCEPT !.clean = @ /\ h[q].node # node]]
      /\ UNCHANGED <<fileLen, blocks, last, cut, crashes, usedSpace, rootOffset>>
  BY DEF StoreAgain, MayStore, disk
<1>2. /\ r.pc = "write" /\ r.node = node /\ r.cur = node /\ r.prev = blocks[node].len
      /\ r.done = 0 /\ ~r.clean /\ r.mapped = h[p].mapped
  BY DEF AtRest, Closed
<1> HIDE DEF r
<1>3. h'[w] = r
  BY <1>1
<1>4. ASSUME NEW q \in Handle, q # w
      PROVE  /\ h'[q].pc = h[q].pc /\ h'[q].mapped = h[q].mapped /\ h'[q].used = h[q].used
             /\ h'[q].node = h[q].node /\ h'[q].got = h[q].got /\ h'[q].cur = h[q].cur
             /\ h'[q].clean = (h[q].clean /\ h[q].node # node)
  <2> DEFINE s == [h[q] EXCEPT !.clean = h[q].clean /\ h[q].node # node]
  <2>1. h'[q] = s
    BY <1>1, <1>4
  <2>2. h[q] \in HandleType
    BY DEF StorageInv, TypeOK
  <2> QED BY <2>1, <2>2 DEF HandleType
<1>5. "write" \in Storing /\ "open" \notin Storing
  BY DEF Storing
<1>6. node \in DOMAIN last /\ node \in InChain
  BY <1>1 DEF InChain
<1>7. OthersLoad(w)'
  BY <1>1, <1>4 DEF OthersLoad, ChainInv
<1>8. Mappings(w)'
  <2>1. \A q \in Handle : h'[q].mapped = h[q].mapped
    BY <1>1, <1>2, <1>3, <1>4
  <2> QED BY <1>1, <2>1 DEF Mappings, ChainInv
<1>9. Links' /\ Sizes'
  BY <1>1 DEF Links, Sizes, ChainInv
<1>10. InChain' \subseteq InChain
  <2>1. ASSUME NEW q \in Handle, h'[q].pc \in Storing PROVE h'[q].node \in InChain \cup {0}
    <3>1. CASE q = w
      BY <1>2, <1>3, <1>6, <3>1
    <3>2. CASE q # w
      BY <1>4, <2>1, <3>2 DEF InChain
    <3> QED BY <3>1, <3>2
  <2> QED BY <1>1, <2>1 DEF InChain
<1>11. Heads'
  BY <1>1, <1>10 DEF Heads, ChainInv
<1>12. Space(w)'
  <2>1. Space(w)
    BY DEF ChainInv
  <2>2. InUse(w)' = InUse(w)
    BY <1>1, <1>2, <1>3 DEF InUse
  <2>3. usedSpace' <= fileLen' + crashes' + (IF h'[w].pc = "resize" THEN 1 ELSE 0)
    BY <1>1, <1>2, <1>3, <2>1 DEF Space
  <2>4. \A q \in Handle : h'[q].pc = "opening" => h'[q].used <= usedSpace'
    BY <1>1, <1>2, <1>3, <1>4, <2>1 DEF Space
  <2>5. h'[w].pc \notin {"allocWrite", "resize", "use"}
    BY <1>2, <1>3
  <2>6. \A n \in InChain' : n <= InUse(w)'
    BY <1>10, <2>1, <2>2 DEF Space
  <2>7. \A b \in Block : blocks'[b].next <= InUse(w)' /\ (b > InUse(w)' => blocks'[b].next = 0)
    BY <1>1, <2>1, <2>2 DEF Space
  <2> QED BY <2>3, <2>4, <2>5, <2>6, <2>7 DEF Space
<1>13. StoreOK(w)'
  <2>1. /\ Len(Chain(node)) \in Nat /\ Len(Chain(node)) >= 1 /\ Chain(node)[1] = node
        /\ DOMAIN Chain(node) = 1..Len(Chain(node))
    BY ChainFacts DEF ChainInv
  <2>2. node \notin cut => blocks[node].len = Len(Chain(node))
    <3> SUFFICES ASSUME node \notin cut PROVE blocks[node].len = Len(Chain(node))
      OBVIOUS
    <3>1. ~BeingStored(node)
      BY <1>1, <1>5 DEF BeingStored, ChainInv, OthersLoad
    <3>2. Whole(node)
      BY <1>6, <3>1 DEF Settled, ChainInv, AllWhole
    <3>3. blocks[Chain(node)[1]].piece.parts = Len(Chain(node))
      <4>1. 1 \in 1..Len(Chain(node))
        BY <2>1
      <4>2. blocks[Chain(node)[1]].piece
                = [of |-> last[node], part |-> 1, parts |-> Len(Chain(node))]
        BY <3>2, <4>1 DEF Whole, Written
      <4> QED BY <4>2
    <3> QED BY <2>1, <3>3 DEF ChainInv, Sizes
  <2>3. Chain(node)' = Chain(node)
    BY <1>1 DEF Chain
  <2>4. ChainOf(blocks', h'[w].node) = Chain(node) /\ h'[w].node = node
    BY <1>1, <1>2, <1>3 DEF Chain
  <2>5. h'[w].done = 0 /\ h'[w].cur = node /\ h'[w].prev = blocks[node].len /\ h'[w].pc = "write"
    BY <1>2, <1>3
  <2>6. Placed(h[w])'
    <3>1. node # 0 /\ cut' = cut
      BY <1>1 DEF Block
    <3> QED BY <2>1, <2>2, <2>4, <2>5, <3>1 DEF Placed, Written, Chain
  <2> QED BY <2>4, <2>6 DEF StoreOK, Block
<1>14. ASSUME NEW n \in Block, Settled(n)' PROVE Settled(n)
  <2>1. ASSUME NEW q \in Handle, h[q].pc \in Storing, h[q].node = n PROVE FALSE
    <3>1. q # w
      BY <1>1, <1>5, <2>1
    <3>2. h'[q].pc \in Storing /\ h'[q].node = n
      BY <1>4, <2>1, <3>1
    <3> QED BY <1>14, <3>2 DEF Settled, BeingStored
  <2> QED BY <1>1, <1>14, <2>1 DEF Settled, BeingStored
<1>15. ASSUME NEW n \in Block, Settled(n), n # node PROVE Settled(n)'
  <2>1. ASSUME NEW q \in Handle, h'[q].pc \in Storing, h'[q].node = n PROVE FALSE
    <3>1. q # w
      BY <1>2, <1>3, <1>15, <2>1
    <3>2. h[q].pc \in Storing /\ h[q].node = n
      BY <1>4, <2>1, <3>1
    <3> QED BY <1>15, <3>2 DEF Settled, BeingStored
  <2> QED BY <1>1, <1>15, <2>1 DEF Settled, BeingStored
<1>16. AllWhole'
  <2>1. ASSUME NEW n \in Block, Settled(n)' PROVE Whole(n)'
    <3>1. Whole(n)
      BY <1>14, <2>1 DEF ChainInv, AllWhole
    <3> QED BY <1>1, <3>1 DEF Whole, Written, Chain
  <2> QED BY <2>1 DEF AllWhole
<1>17. ASSUME NEW q \in Handle PROVE LoadOK(q)'
  <2>1. CASE ~h'[q].clean
    BY <2>1 DEF LoadOK, Loading
  <2>2. CASE h'[q].clean
    <3>1. q # w /\ h[q].clean /\ h[q].node # node
      <4>1. q # w
        BY <1>2, <1>3, <2>2
      <4> QED BY <1>4, <2>2, <4>1
    <3>2. LoadOK(q)
      BY DEF ChainInv
    <3>3. ASSUME NEW n \in Block, n = h[q].node PROVE LoadOK(q)'
      <4>1. Settled(n)
        BY <3>1, <3>2, <3>3 DEF LoadOK, Loading
      <4>2. Settled(n)'
        BY <1>15, <3>1, <3>3, <4>1
      <4>3. Settled(h[q].node)'
        BY <1>4, <3>1, <3>3, <4>2 DEF Settled, BeingStored
      <4>4. /\ h'[q].pc = h[q].pc /\ h'[q].mapped = h[q].mapped
            /\ h'[q].node = h[q].node /\ h'[q].got = h[q].got /\ h'[q].cur = h[q].cur
        BY <1>4, <3>1
      <4>5. Chain(n)' = Chain(n) /\ Pieces(n)' = Pieces(n)
        BY <1>1 DEF Chain, Pieces
      <4>6. Chain(h[q].node)' = Chain(n)
        BY <3>3, <4>4, <4>5 DEF Chain
      <4>7. Pieces(h[q].node)' = Pieces(n)
        BY <3>3, <4>4, <4>5, <4>6 DEF Pieces, Chain
      <4> QED BY <1>1, <3>1, <3>2, <3>3, <4>3, <4>4, <4>6, <4>7 DEF LoadOK, Loading
    <3> QED BY <3>1, <3>2, <3>3 DEF LoadOK, Loading
  <2> QED BY <2>1, <2>2
<1> QED BY <1>7, <1>8, <1>9, <1>11, <1>12, <1>13, <1>16, <1>17 DEF ChainInv

-----------------------------------------------------------------------------
(***************************************************************************)
(* Cutting a chain at block k leaves its first k blocks.                   *)
(***************************************************************************)
LEMMA CutChain ==
    ASSUME NEW file, NEW file2, NEW n, NEW c, IsChain(file, n, c), NEW k \in 1..Len(c),
           \A i \in 1..(k - 1) : file2[c[i]].next = file[c[i]].next,
           file2[c[k]].next = 0
    PROVE  \E d : /\ IsChain(file2, n, d) /\ Len(d) = k
                  /\ \A i \in 1..k : d[i] = c[i]
<1> DEFINE d == SubSeq(c, 1, k)
<1>1. /\ c \in Seq(Block) /\ Len(c) \in Nat /\ c[1] = n
      /\ \A i \in 1..(Len(c) - 1) : file[c[i]].next = c[i + 1]
  BY DEF IsChain, Linked
<1>2. k \in Nat /\ k >= 1 /\ k <= Len(c)
  BY <1>1
<1>3. d \in Seq(Block) /\ Len(d) = k /\ \A i \in 1..k : d[i] = c[i]
  BY <1>1, <1>2
<1> HIDE DEF d
<1>4. ASSUME NEW i \in 1..(Len(d) - 1) PROVE file2[d[i]].next = d[i + 1]
  <2>1. i \in 1..k /\ i + 1 \in 1..k /\ i \in 1..(k - 1) /\ i \in 1..(Len(c) - 1)
    BY <1>1, <1>2, <1>3
  <2> QED BY <1>1, <1>3, <2>1
<1>5. d[Len(d)] = c[k] /\ d[1] = n /\ Len(d) >= 1
  BY <1>1, <1>2, <1>3
<1>6. IsChain(file2, n, d)
  BY <1>3, <1>4, <1>5 DEF IsChain, Linked
<1> QED BY <1>3, <1>6

(***************************************************************************)
(* Linking a block that points nowhere to block k of a chain replaces what *)
(* followed it.                                                            *)
(***************************************************************************)
LEMMA LinkChain ==
    ASSUME NEW file, NEW file2, NEW n, NEW c, IsChain(file, n, c), NEW k \in 1..Len(c),
           \A i \in 1..(k - 1) : file2[c[i]].next = file[c[i]].next,
           NEW x \in Block, file2[c[k]].next = x, file2[x].next = 0
    PROVE  \E d : /\ IsChain(file2, n, d) /\ Len(d) = k + 1 /\ d[k + 1] = x
                  /\ \A i \in 1..k : d[i] = c[i]
<1> DEFINE e == SubSeq(c, 1, k)
           d == Append(e, x)
<1>1. /\ c \in Seq(Block) /\ Len(c) \in Nat /\ c[1] = n
      /\ \A i \in 1..(Len(c) - 1) : file[c[i]].next = c[i + 1]
  BY DEF IsChain, Linked
<1>2. k \in Nat /\ k >= 1 /\ k <= Len(c)
  BY <1>1
<1>3. e \in Seq(Block) /\ Len(e) = k /\ \A i \in 1..k : e[i] = c[i]
  BY <1>1, <1>2
<1> HIDE DEF e
<1>4. d \in Seq(Block) /\ Len(d) = k + 1 /\ d[k + 1] = x /\ \A i \in 1..k : d[i] = c[i]
  BY <1>2, <1>3
<1> HIDE DEF d
<1>5. ASSUME NEW i \in 1..(Len(d) - 1) PROVE file2[d[i]].next = d[i + 1]
  <2>1. CASE i = k
    BY <1>2, <1>4, <2>1
  <2>2. CASE i # k
    <3>1. i \in 1..k /\ i + 1 \in 1..k /\ i \in 1..(k - 1) /\ i \in 1..(Len(c) - 1)
      BY <1>1, <1>2, <1>4, <2>2
    <3> QED BY <1>1, <1>4, <3>1
  <2> QED BY <2>1, <2>2
<1>6. d[Len(d)] = x /\ d[1] = n /\ Len(d) >= 1
  BY <1>1, <1>2, <1>4
<1>7. IsChain(file2, n, d)
  BY <1>4, <1>5, <1>6 DEF IsChain, Linked
<1> QED BY <1>4, <1>7

(***************************************************************************)
(* A step within a store keeps the invariant if the blocks it writes       *)
(* belong to the node's own chain or to none.                              *)
(***************************************************************************)
LEMMA Busy ==
    ASSUME StorageInv, StorageInv', NEW w \in Handle, ChainInv(w), NEW r,
           h' = [h EXCEPT ![w] = r], h[w].pc \in Storing, r.pc \in Storing,
           r.node = h[w].node, r.clean = h[w].clean,
           UNCHANGED <<last, cut, crashes, rootOffset>>,
           fileLen <= fileLen', r.mapped = fileLen', Links', Sizes', StoreOK(w)',
           \A n \in InChain : \A b \in Block : blocks'[b].next # n,
           \A n \in InChain \ {h[w].node} : \A i \in 1..Len(Chain(n)) :
               blocks'[Chain(n)[i]] = blocks[Chain(n)[i]],
           ~rolledBack' => Space(w)'
    PROVE  ChainInv(w)' /\ InChain' \subseteq InChain
<1>1. \A q \in Handle : h'[q] = IF q = w THEN r ELSE h[q]
  BY DEF StorageInv, TypeOK
<1>2. InChain' \subseteq InChain /\ \A n \in Block : BeingStored(n)' <=> BeingStored(n)
  BY StoringKept
<1>3. /\ fileLen \in Nat /\ fileLen' \in Nat /\ FirstLen \in Nat
      /\ \A q \in Handle : h[q].mapped \in Nat
      /\ InChain \subseteq Nat
  <2>1. fileLen \in Nat /\ fileLen' \in Nat /\ FirstLen \in Nat
    BY StorageAssumption DEF StorageInv, TypeOK
  <2>2. \A q \in Handle : h[q].mapped \in Nat
    BY DEF StorageInv, TypeOK, HandleType
  <2> QED BY <2>1, <2>2, InChainTyped DEF Block
<1>4. OthersLoad(w)'
  BY <1>1 DEF OthersLoad, ChainInv
<1>5. Mappings(w)'
  <2>1. FirstLen <= fileLen /\ \A q \in Handle : h[q].mapped <= fileLen
    BY DEF Mappings, ChainInv
  <2>2. FirstLen <= fileLen'
    BY <1>3, <2>1
  <2>3. \A q \in Handle : h'[q].mapped <= fileLen'
    BY <1>1, <1>3, <2>1
  <2> QED BY <1>1, <2>2, <2>3 DEF Mappings, ChainInv
<1>6. Heads'
  <2>1. \A n \in InChain : n <= fileLen
    BY DEF ChainInv, Heads
  <2>2. \A n \in InChain' : n <= fileLen'
    BY <1>2, <1>3, <2>1
  <2> QED BY <1>2, <2>2 DEF Heads
<1>7. \A n \in Block : Settled(n)' <=> Settled(n)
  BY <1>2 DEF Settled
<1>8. \A n \in Block : Settled(n) => n # h[w].node
  BY DEF Settled, BeingStored
<1>9. ~r.clean
  <2>1. "load" \notin Storing /\ "loaded" \notin Storing /\ "panicked" \notin Storing
    BY DEF Storing
  <2>2. h[w].clean => h[w].pc \in {"load", "loaded", "panicked"}
    BY NotStored
  <2> QED BY <2>1, <2>2
<1>10. AllWhole' /\ \A p \in Handle : LoadOK(p)'
  <2> DEFINE m == h[w].node
  <2>1. \A n \in Block : Settled(n) => n # m /\ Settled(n)' /\ last'[n] = last[n]
    BY <1>7, <1>8
  <2>2. \A n \in Block : Settled(n)' => Settled(n) \/ n = m
    BY <1>7
  <2>3. \A n \in Block : n = m /\ Settled(n)' => Whole(n)'
    BY <1>7, <1>8
  <2>4. \A n \in InChain \ {m} : \A i \in 1..Len(Chain(n)) :
            blocks'[Chain(n)[i]] = blocks[Chain(n)[i]]
    OBVIOUS
  <2> HIDE DEF m
  <2>5. fileLen \in Nat /\ fileLen' \in Nat
    BY <1>3
  <2> QED BY <1>9, <2>1, <2>2, <2>3, <2>4, <2>5, OthersStay
<1> QED BY <1>2, <1>4, <1>5, <1>6, <1>10 DEF ChainInv

(***************************************************************************)
(* Resize keeps the invariant: doubling makes room for the block handed    *)
(* out, since crashes have left the used space fewer blocks past the file  *)
(* than the file has.                                                      *)
(***************************************************************************)
LEMMA ChainResize ==
    ASSUME StorageInv, StorageInv', NEW w \in Handle, ChainInv(w), ~rolledBack,
           MaxCrashes < FirstLen,
           NEW p \in Handle, Resize(p)
    PROVE  ChainInv(w)'
<1> DEFINE r == [h[p] EXCEPT !.mapped = fileLen', !.pc = "use"]
<1>1. /\ h[p].pc = "resize" /\ h' = [h EXCEPT ![p] = r] /\ fileLen' = 2 * h[p].mapped
      /\ blocks' = [b \in Block |-> IF b <= fileLen' THEN blocks[b] ELSE Blank]
      /\ UNCHANGED <<usedSpace, rootOffset, last, cut, crashes>>
  BY DEF Resize, history
<1>2. /\ r.pc = "use" /\ r.mapped = fileLen' /\ r.used = h[p].used
      /\ r.clean = h[p].clean /\ r.node = h[p].node /\ r.cur = h[p].cur /\ r.ver = h[p].ver
      /\ r.size = h[p].size /\ r.prev = h[p].prev /\ r.done = h[p].done
  BY DEF StorageInv, TypeOK, HandleType
<1>3. {"resize", "use"} \subseteq Storing /\ {"resize", "use"} \subseteq Allocating
  BY DEF Storing, Allocating
<1>4. p = w /\ h[w].mapped = fileLen
  BY <1>1, <1>3, NotStored
<1>5. h'[w] = r
  BY <1>1, <1>4 DEF StorageInv, TypeOK
<1> HIDE DEF r
<1>6. /\ fileLen \in Nat /\ fileLen' = 2 * fileLen /\ fileLen' \in Nat /\ fileLen <= fileLen'
      /\ crashes \in Nat /\ usedSpace \in Nat /\ h[w].used \in Nat
      /\ MaxCrashes \in Nat /\ FirstLen \in Nat
      /\ FirstLen <= fileLen /\ crashes <= MaxCrashes
  <2>1. fileLen \in Nat /\ crashes \in Nat
    BY DEF StorageInv, TypeOK
  <2>2. usedSpace \in Nat /\ h[w].used \in Nat
    BY StorageAssumption DEF StorageInv, TypeOK, HandleType
  <2>3. MaxCrashes \in Nat /\ FirstLen \in Nat /\ FirstLen <= fileLen /\ crashes <= MaxCrashes
    BY StorageAssumption DEF ChainInv, Mappings
  <2>4. fileLen' = 2 * fileLen
    BY <1>1, <1>4
  <2> QED BY <2>1, <2>2, <2>3, <2>4
<1>7. Links /\ Heads /\ Sizes /\ Space(w) /\ StoreOK(w)
  BY DEF ChainInv
<1>8. ASSUME NEW b \in Block
      PROVE  /\ b \in Nat
             /\ blocks'[b].next = blocks[b].next
             /\ b <= fileLen => blocks'[b] = blocks[b]
             /\ blocks'[b] = blocks[b] \/ blocks'[b] = Blank
  <2>1. b \in Nat /\ blocks[b].next \in Nat
    BY NextTyped DEF StorageInv, TypeOK
  <2>2. blocks[b].next # 0 => blocks[b].next > b /\ blocks[b].next <= fileLen
    BY <1>7 DEF Links
  <2>3. b > fileLen => blocks[b].next = 0
    BY <1>6, <2>1, <2>2
  <2>4. b <= fileLen => b <= fileLen'
    BY <1>6, <2>1
  <2>5. blocks'[b] = IF b <= fileLen' THEN blocks[b] ELSE Blank
    BY <1>1
  <2>6. Blank.next = 0
    BY DEF Blank
  <2>7. ~(b <= fileLen') => b > fileLen
    BY <1>6, <2>1
  <2> HIDE DEF Blank
  <2> QED BY <2>1, <2>3, <2>4, <2>5, <2>6, <2>7
<1>9. Links'
  <2>1. \A b \in Block : blocks'[b].next # 0 => blocks'[b].next > b /\ blocks'[b].next <= fileLen'
    <3>1. ASSUME NEW b \in Block, blocks'[b].next # 0
          PROVE  blocks'[b].next > b /\ blocks'[b].next <= fileLen'
      <4>1. blocks'[b].next = blocks[b].next /\ blocks[b].next > b /\ blocks[b].next <= fileLen
        BY <1>7, <1>8, <3>1 DEF Links
      <4>2. blocks[b].next \in Nat
        BY NextTyped DEF StorageInv, TypeOK
      <4> QED BY <1>6, <4>1, <4>2
    <3> QED BY <3>1
  <2> QED BY <1>7, <1>8, <2>1 DEF Links
<1>10. Sizes'
  <2>1. Blank.len = Blank.piece.parts
    BY DEF Blank, Nothing
  <2> QED BY <1>7, <1>8, <2>1 DEF Sizes
<1>11. \A n \in InChain : \A b \in Block : blocks'[b].next # n
  BY <1>7, <1>8 DEF Heads
<1>12. \A n \in InChain : \A i \in 1..Len(Chain(n)) : blocks'[Chain(n)[i]] = blocks[Chain(n)[i]]
  <2>1. ASSUME NEW n \in InChain, NEW i \in 1..Len(Chain(n))
        PROVE  blocks'[Chain(n)[i]] = blocks[Chain(n)[i]]
    <3>1. n \in Block /\ Chain(n)[i] <= fileLen
      BY <1>7, ChainInFile
    <3>2. Chain(n)[i] \in Block
      BY <1>7, <3>1, ChainFacts
    <3> QED BY <1>8, <3>1, <3>2
  <2> QED BY <2>1
<1>13. StoreOK(w)'
  <2>1. ASSUME NEW n \in Block, n = h[w].node
        PROVE  /\ Chain(n)' = Chain(n)
               /\ \A i \in 1..Len(Chain(n)) : blocks'[Chain(n)[i]] = blocks[Chain(n)[i]]
    <3>1. n \in InChain
      BY <1>1, <1>3, <1>4, <2>1 DEF InChain, Block
    <3>2. Chain(n)' = Chain(n)
      BY <1>7, <1>9, <1>12, <3>1, SameChain
    <3> QED BY <1>12, <3>1, <3>2
  <2> QED BY <1>1, <1>2, <1>3, <1>4, <1>5, <1>7, <2>1, StageKept
<1>14. InChain' \subseteq InChain
  BY <1>1, <1>2, <1>3, <1>4, StoringKept
<1>15. Space(w)'
  <2>1. usedSpace = h[w].used + 1 /\ usedSpace <= fileLen + crashes + 1
    BY <1>1, <1>4, <1>7 DEF Space
  <2>2. InUse(w)' = InUse(w)
    BY <1>1, <1>2, <1>4, <1>5 DEF InUse
  <2>3. usedSpace' <= fileLen' + crashes' + (IF h'[w].pc = "resize" THEN 1 ELSE 0)
    BY <1>1, <1>2, <1>5, <1>6, <2>1
  <2>4. \A q \in Handle : h'[q].pc = "opening" => h'[q].used <= usedSpace'
    <3>1. ASSUME NEW q \in Handle, h'[q].pc = "opening" PROVE h'[q].used <= usedSpace'
      <4>1. h'[q] = h[q]
        BY <1>1, <1>2, <1>4, <1>5, <3>1 DEF StorageInv, TypeOK
      <4> QED BY <1>1, <1>7, <3>1, <4>1 DEF Space
    <3> QED BY <3>1
  <2>5. /\ h'[w].pc = "use" /\ usedSpace' = h'[w].used + 1
        /\ h'[w].used + 1 <= h'[w].mapped
    BY <1>1, <1>2, <1>4, <1>5, <1>6, <2>1
  <2>6. \A b \in Block : blocks'[b].next <= InUse(w)' /\ (b > InUse(w)' => blocks'[b].next = 0)
    BY <1>7, <1>8, <2>2 DEF Space
  <2>7. \A n \in InChain' : n <= InUse(w)'
    BY <1>7, <1>14, <2>2 DEF Space
  <2> QED BY <2>3, <2>4, <2>5, <2>6, <2>7 DEF Space
<1>16. /\ h' = [h EXCEPT ![w] = r] /\ h[w].pc \in Storing /\ r.pc \in Storing
       /\ r.node = h[w].node /\ r.clean = h[w].clean /\ r.mapped = fileLen'
       /\ UNCHANGED <<last, cut, crashes, rootOffset>>
  BY <1>1, <1>2, <1>3, <1>4
<1> QED BY <1>6, <1>9, <1>10, <1>11, <1>12, <1>13, <1>15, <1>16, Busy

(***************************************************************************)
(* What a store of a node that has a chain knows.                          *)
(***************************************************************************)
LEMMA StoreFacts ==
    ASSUME StorageInv, NEW w \in Handle, ChainInv(w), h[w].pc \in Storing, h[w].node # 0
    PROVE  /\ h[w].node \in Block /\ h[w].node \in InChain /\ Placed(h[w])
           /\ h[w].done \in Nat /\ h[w].prev \in Nat /\ h[w].size \in Nat /\ h[w].ver \in Nat
           /\ h[w].mapped = fileLen
           /\ h[w].clean = FALSE
<1>1. Placed(h[w])
  BY DEF ChainInv, StoreOK
<1>2. h[w].node \in Block
  BY <1>1 DEF Placed
<1>3. h[w].node \in InChain
  BY DEF InChain
<1>4. h[w] \in HandleType
  BY DEF StorageInv, TypeOK
<1>5. h[w].done \in Nat /\ h[w].prev \in Nat /\ h[w].size \in Nat /\ h[w].ver \in Nat
      /\ h[w].clean \in BOOLEAN
  BY <1>4, StorageAssumption DEF HandleType
<1>6. h[w].clean => h[w].pc \in {"load", "loaded", "panicked"}
  BY NotStored
<1>7. {"load", "loaded", "panicked"} \cap Storing = {}
  BY DEF Storing
<1>8. h[w].mapped = fileLen
  BY NotStored
<1> QED BY <1>1, <1>2, <1>3, <1>5, <1>6, <1>7, <1>8

(***************************************************************************)
(* WriteBlock keeps the invariant: the block is the next of the node's     *)
(* chain, and the step after it is to the block it points to, to an        *)
(* allocation or to the end.                                               *)
(***************************************************************************)
LEMMA ChainWriteBlock ==
    ASSUME StorageInv, StorageInv', NEW w \in Handle, ChainInv(w), ~rolledBack,
           NEW p \in Handle, WriteBlock(p)
    PROVE  ChainInv(w)'
<1> DEFINE done == h[p].done + 1
           after == AfterWrite(p, done)
           cur == IF after = "write" THEN blocks[h[p].cur].next ELSE h[p].cur
           r == [h[p] EXCEPT !.done = done, !.pc = after, !.cur = cur]
           piece == [of |-> h[p].ver, part |-> done, parts |-> h[p].size]
           b == [blocks[h[p].cur] EXCEPT !.primary = h[p].done = 0, !.len = h[p].size,
                                         !.piece = piece]
           n == h[p].node
           c == Chain(n)
           k == h[p].done
<1>1. /\ h[p].pc = "write" /\ h' = [h EXCEPT ![p] = r]
      /\ blocks' = [blocks EXCEPT ![h[p].cur] = b]
      /\ UNCHANGED <<usedSpace, rootOffset, fileLen, last, cut, crashes>>
  BY DEF WriteBlock, history
<1>2. /\ r.pc = after /\ r.mapped = h[p].mapped /\ r.used = h[p].used /\ r.done = done
      /\ r.clean = h[p].clean /\ r.node = h[p].node /\ r.cur = cur /\ r.ver = h[p].ver
      /\ r.size = h[p].size /\ r.prev = h[p].prev
  BY DEF StorageInv, TypeOK, HandleType
<1>3. {"write", "end", "alloc"} \subseteq Storing
  BY DEF Storing
<1>4. p = w
  BY <1>1, <1>3, NotStored
<1>5. h'[w] = r
  BY <1>1, <1>4 DEF StorageInv, TypeOK
<1>6. n # 0 /\ k < h[w].size
  BY <1>1, <1>4 DEF StorageInv, StageOK, Block
<1>7. /\ n \in Block /\ n \in InChain /\ Placed(h[w]) /\ k \in Nat /\ h[w].prev \in Nat
      /\ h[w].size \in Nat /\ h[w].mapped = fileLen
  BY <1>1, <1>3, <1>4, <1>6, StoreFacts
<1>8. Links /\ Heads /\ Sizes /\ Space(w)
  BY DEF ChainInv
<1>9. /\ c \in Seq(Block) /\ Len(c) \in Nat /\ Len(c) >= 1 /\ c[1] = n
      /\ \A i \in 1..Len(c) : c[i] \in Block
      /\ \A i, j \in 1..Len(c) : c[i] = c[j] => i = j
      /\ \A i \in 1..(Len(c) - 1) : blocks[c[i]].next = c[i + 1]
  BY <1>7, <1>8, ChainFacts
<1>10. /\ Written(n, h[w].ver, k, h[w].size)
       /\ k < Len(c) /\ h[w].cur = c[k + 1]
       /\ (k < h[w].prev => h[w].prev <= Len(c) \/ n \in cut)
  <2>1. h[w].cur # 0
    <3>1. h[w].cur \in 1..h[w].mapped
      BY <1>4 DEF WriteBlock
    <3> QED BY <3>1
  <2> QED BY <1>1, <1>4, <1>7, <2>1 DEF Placed
<1>11. /\ after \in {"end", "alloc", "write"}
       /\ after = "end" => done = h[w].size
       /\ after = "alloc" => done >= h[w].prev
       /\ after = "write" => done # h[w].size /\ done < h[w].prev
  <2> HIDE DEF n, c
  <2> QED BY <1>4, <1>6, <1>7 DEF AfterWrite
<1>12. /\ b.next = blocks[h[w].cur].next /\ b.piece = piece /\ b.len = h[w].size
       /\ b.primary = (k = 0)
       /\ piece.parts = h[w].size
  <2>1. blocks[h[w].cur] \in BlockType
    <3>1. k + 1 \in 1..Len(c)
      <4> HIDE DEF c, k
      <4> QED BY <1>7, <1>9, <1>10
    <3>2. h[w].cur \in Block
      BY <1>9, <1>10, <3>1
    <3> QED BY <3>2 DEF StorageInv, TypeOK
  <2> QED BY <1>4, <2>1 DEF BlockType
<1> HIDE DEF r, after, cur, b, c
<1>13. k + 1 \in 1..Len(c) /\ h[w].cur \in Block
  <2>1. k + 1 \in 1..Len(c)
    <3> HIDE DEF k
    <3> QED BY <1>7, <1>9, <1>10
  <2> QED BY <1>9, <1>10, <2>1
<1>14. \A x \in Block : blocks'[x] = IF x = h[w].cur THEN b ELSE blocks[x]
  BY <1>1, <1>4, <1>13 DEF StorageInv, TypeOK
<1>15. \A x \in Block : blocks'[x].next = blocks[x].next
  BY <1>12, <1>14
<1>16. Links'
  BY <1>1, <1>8, <1>15 DEF Links
<1>17. Sizes'
  BY <1>8, <1>12, <1>14 DEF Sizes
<1>18. Chain(n)' = c
  <2>1. \A i \in 1..Len(Chain(n)) : blocks'[Chain(n)[i]].next = blocks[Chain(n)[i]].next
    BY <1>9, <1>15 DEF c
  <2>2. ASSUME NEW m \in Block, m = n PROVE ChainOf(blocks', m) = Chain(m)
    <3>1. Chain(m)' = Chain(m)
      BY <1>8, <1>9, <1>15, <1>16, <2>1, <2>2, SameChain DEF c
    <3> QED BY <3>1 DEF Chain
  <2>3. ChainOf(blocks', n) = Chain(n)
    BY <1>7, <2>2
  <2>4. h'[p].node = n
    BY <1>2, <1>4, <1>5
  <2> QED BY <2>3, <2>4 DEF c, Chain
<1>19. StoreOK(w)'
  <2>1. \A i \in 1..k : c[i] # h[w].cur /\ c[i] \in Block
    <3>1. \A i \in 1..k : i \in 1..Len(c) /\ i # k + 1
      <4> HIDE DEF k
      <4> QED BY <1>7, <1>9, <1>10
    <3> QED BY <1>9, <1>10, <1>13, <3>1
  <2>2. \A i \in 1..k : blocks'[c[i]].piece = [of |-> h[w].ver, part |-> i, parts |-> h[w].size]
    BY <1>10, <1>14, <2>1 DEF Written, c
  <2>3. blocks'[c[k + 1]].piece = [of |-> h[w].ver, part |-> k + 1, parts |-> h[w].size]
    BY <1>4, <1>10, <1>12, <1>13, <1>14
  <2>4. \A i \in 1..done : blocks'[c[i]].piece = [of |-> h[w].ver, part |-> i, parts |-> h[w].size]
    <3>1. \A i \in 1..done : i \in 1..k \/ i = k + 1
      <4>1. done = k + 1
        OBVIOUS
      <4> HIDE DEF k, done
      <4> QED BY <1>7, <4>1
    <3> QED BY <2>2, <2>3, <3>1
  <2>5. blocks'[n].primary
    <3>1. CASE k = 0
      <4>1. n = h[w].cur
        BY <1>9, <1>10, <3>1
      <4> QED BY <1>7, <1>12, <1>14, <3>1, <4>1
    <3>2. CASE k # 0
      <4>1. k > 0 /\ 1 \in 1..k
        <5> HIDE DEF k
        <5> QED BY <1>7, <3>2
      <4>2. blocks[n].primary /\ n # h[w].cur
        BY <1>9, <1>10, <2>1, <4>1 DEF Written
      <4> QED BY <1>7, <1>14, <4>2
    <3> QED BY <3>1, <3>2
  <2>6. /\ done \in 1..Len(c) /\ c[done] = h[w].cur /\ done \in Nat
    BY <1>4, <1>7, <1>10, <1>13
  <2>7. after = "write" => IF cur = 0 THEN done = Len(c) /\ done < h[w].prev
                           ELSE done < Len(c) /\ cur = c[done + 1]
    <3> SUFFICES ASSUME after = "write"
                 PROVE  IF cur = 0 THEN done = Len(c) /\ done < h[w].prev
                        ELSE done < Len(c) /\ cur = c[done + 1]
      OBVIOUS
    <3>1. done < h[w].prev
      BY <1>4, <1>11
    <3>2. cur = blocks[c[done]].next
      BY <1>4, <2>6 DEF cur
    <3>3. CASE done = Len(c)
      <4>1. blocks[c[Len(c)]].next = 0
        BY <1>7, <1>8, ChainFacts DEF c
      <4> QED BY <3>1, <3>2, <3>3, <4>1
    <3>4. CASE done # Len(c)
      <4>1. done < Len(c) /\ done \in 1..(Len(c) - 1) /\ done + 1 \in 1..Len(c)
        <5> HIDE DEF k, done
        <5> QED BY <1>9, <2>6, <3>4
      <4>2. cur = c[done + 1]
        BY <1>9, <3>2, <4>1
      <4>3. c[done + 1] # 0
        <5>1. c[done + 1] \in Block
          BY <1>9, <4>1
        <5> QED BY <5>1 DEF Block
      <4> QED BY <4>1, <4>2, <4>3
    <3> QED BY <3>3, <3>4
  <2>8. after # "write" => cur = c[done]
    BY <1>4, <2>6 DEF cur
  <2>9. /\ h'[w].node = n /\ h'[w].done = done /\ h'[w].ver = h[w].ver /\ h'[w].size = h[w].size
        /\ h'[w].prev = h[w].prev /\ h'[w].cur = cur /\ h'[w].pc = after
    BY <1>2, <1>4, <1>5
  <2>10. Chain(h[w].node)' = c /\ ChainOf(blocks', n) = c
    <3>1. h'[w].node = n
      BY <2>9
    <3>2. Chain(n)' = c
      BY <1>18
    <3> QED BY <1>4, <3>1, <3>2 DEF Chain
  <2> HIDE DEF done, k
  <2>11. after = "write" => ~(done < h[w].prev) \/ h[w].prev <= Len(c) \/ n \in cut'
    <3>1. done = k + 1
      BY DEF done, k
    <3>2. done < h[w].prev => k < h[w].prev
      BY <1>7, <3>1
    <3> QED BY <1>1, <1>10, <3>2
  <2>12. Placed(h[w])'
    <3>1. Written(h[w].node, h[w].ver, h[w].done, h[w].size)'
      <4>1. ChainOf(blocks', h'[w].node) = c
        BY <2>9, <2>10
      <4> QED BY <2>4, <2>5, <2>9, <4>1 DEF Written, Chain
    <3>2. h'[w].node \in Block
      BY <1>7, <2>9
    <3>3. CASE after = "write"
      BY <2>6, <2>7, <2>9, <2>10, <2>11, <3>1, <3>2, <3>3 DEF Placed
    <3>4. CASE after # "write"
      BY <1>11, <2>6, <2>8, <2>9, <2>10, <3>1, <3>2, <3>4 DEF Placed
    <3> QED BY <3>3, <3>4
  <2> QED BY <1>6, <2>9, <2>12 DEF StoreOK
<1>20. \A m \in InChain : \A x \in Block : blocks'[x].next # m
  BY <1>8, <1>15 DEF Heads
<1>21. \A m \in InChain \ {h[w].node} : \A i \in 1..Len(Chain(m)) :
           blocks'[Chain(m)[i]] = blocks[Chain(m)[i]]
  <2>1. ASSUME NEW m \in InChain, m # n, NEW i \in 1..Len(Chain(m))
        PROVE  blocks'[Chain(m)[i]] = blocks[Chain(m)[i]]
    <3>1. m \in Block
      BY InChainTyped
    <3>2. Chain(m)[i] \in Block
      BY <1>8, <3>1, ChainFacts
    <3>3. Chain(m)[i] # Chain(n)[k + 1]
      BY <1>7, <1>8, <1>13, <2>1, ChainsApart DEF c
    <3> QED BY <1>10, <1>14, <3>2, <3>3 DEF c
  <2> QED BY <1>4, <2>1
<1>22. Space(w)'
  <2>1. InChain' \subseteq InChain
    BY <1>1, <1>2, <1>3, <1>4, <1>11, StoringKept
  <2>2. InUse(w)' = InUse(w)
    BY <1>1, <1>2, <1>4, <1>5, <1>11 DEF InUse
  <2>3. /\ h[w].pc \notin {"resize", "use", "allocWrite"}
        /\ h'[w].pc \notin {"resize", "use", "allocWrite", "opening"}
    BY <1>1, <1>2, <1>4, <1>5, <1>11
  <2>4. \A q \in Handle : h'[q].pc = "opening" => h'[q].used <= usedSpace'
    <3>1. ASSUME NEW q \in Handle, h'[q].pc = "opening" PROVE h'[q].used <= usedSpace'
      <4>1. h'[q] = h[q]
        BY <1>1, <1>4, <2>3, <3>1 DEF StorageInv, TypeOK
      <4> QED BY <1>1, <1>8, <3>1, <4>1 DEF Space
    <3> QED BY <3>1
  <2>5. usedSpace' <= fileLen' + crashes' + (IF h'[w].pc = "resize" THEN 1 ELSE 0)
    BY <1>1, <1>8, <2>3 DEF Space
  <2>6. \A x \in Block : blocks'[x].next <= InUse(w)' /\ (x > InUse(w)' => blocks'[x].next = 0)
    BY <1>8, <1>15, <2>2 DEF Space
  <2>7. \A m \in InChain' : m <= InUse(w)'
    BY <1>8, <2>1, <2>2 DEF Space
  <2> QED BY <2>3, <2>4, <2>5, <2>6, <2>7 DEF Space
<1>23. /\ h' = [h EXCEPT ![w] = r] /\ h[w].pc \in Storing /\ r.pc \in Storing
       /\ r.node = h[w].node /\ r.clean = h[w].clean /\ r.mapped = fileLen'
       /\ UNCHANGED <<last, cut, crashes, rootOffset>>
  BY <1>1, <1>2, <1>3, <1>4, <1>7, <1>11
<1>24. fileLen <= fileLen'
  BY <1>1 DEF StorageInv, TypeOK
<1> HIDE DEF n
<1> QED BY <1>16, <1>17, <1>19, <1>20, <1>21, <1>22, <1>23, <1>24, Busy

(***************************************************************************)
(* EndStore keeps the invariant: the chain is cut after the last piece, so *)
(* the node is whole and settled.                                          *)
(***************************************************************************)
LEMMA ChainEndStore ==
    ASSUME StorageInv, StorageInv', NEW w \in Handle, ChainInv(w), ~rolledBack,
           NEW p \in Handle, EndStore(p)
    PROVE  ChainInv(w)'
<1> DEFINE n == h[w].node
           k == h[w].done
           c == Chain(n)
           s == [AtRest(w) EXCEPT !.pc = "setRoot", !.node = n]
           r == IF rootOffset = 0 THEN s ELSE AtRest(w)
           b == [blocks[h[w].cur] EXCEPT !.next = 0]
<1>1. h[p].pc = "end" /\ {"end", "resize", "use", "allocWrite"} \subseteq Storing
      /\ {"open", "setRoot"} \cap Storing = {}
  BY DEF EndStore, Storing
<1>2. p = w
  BY <1>1, NotStored
<1>3. /\ h' = [h EXCEPT ![w] = r]
      /\ blocks' = [blocks EXCEPT ![h[w].cur] = b]
      /\ last' = [m \in DOMAIN last \cup {n} |-> IF m = n THEN h[w].ver ELSE last[m]]
      /\ cut' = cut \ {n}
      /\ UNCHANGED <<usedSpace, rootOffset, fileLen, crashes>>
  BY <1>2 DEF EndStore
<1>4. /\ r.pc \in {"open", "setRoot"} /\ r.mapped = h[w].mapped /\ ~r.clean
  <2>1. /\ s.pc = "setRoot" /\ s.mapped = h[w].mapped /\ ~s.clean
    BY DEF AtRest, Closed
  <2> HIDE DEF s
  <2> QED BY <2>1, RestFields
<1>5. h'[w] = r /\ \A q \in Handle : q # w => h'[q] = h[q]
  BY <1>3 DEF StorageInv, TypeOK
<1> HIDE DEF r
<1>6. n # 0 /\ h[w].pc = "end"
  BY <1>1, <1>2 DEF StorageInv, StageOK, Block
<1>7. /\ n \in Block /\ n \in InChain /\ Placed(h[w]) /\ k \in Nat
      /\ h[w].size \in Nat /\ h[w].mapped = fileLen
  BY <1>1, <1>6, StoreFacts
<1>8. Links /\ Heads /\ Sizes /\ Space(w)
  BY DEF ChainInv
<1>9. /\ c \in Seq(Block) /\ Len(c) \in Nat /\ c[1] = n
      /\ \A i \in 1..Len(c) : c[i] \in Block
      /\ \A i, j \in 1..Len(c) : c[i] = c[j] => i = j
  BY <1>7, <1>8, ChainFacts
<1>10. /\ Written(n, h[w].ver, k, h[w].size)
       /\ k \in 1..Len(c) /\ h[w].cur = c[k] /\ k = h[w].size
  BY <1>6, <1>7 DEF Placed
<1> HIDE DEF c
<1>11. h[w].cur \in Block
  BY <1>9, <1>10
<1>12. b.next = 0 /\ b.piece = blocks[h[w].cur].piece /\ b.len = blocks[h[w].cur].len
       /\ b.primary = blocks[h[w].cur].primary
  <2>1. blocks[h[w].cur] \in BlockType
    BY <1>11 DEF StorageInv, TypeOK
  <2> QED BY <2>1 DEF BlockType
<1> HIDE DEF b
<1>13. \A x \in Block : blocks'[x] = IF x = h[w].cur THEN b ELSE blocks[x]
  BY <1>3, <1>11 DEF StorageInv, TypeOK
<1>14. ASSUME NEW x \in Block
       PROVE  /\ blocks'[x].next = 0 \/ blocks'[x].next = blocks[x].next
              /\ blocks'[x].piece = blocks[x].piece
              /\ blocks'[x].len = blocks[x].len
              /\ blocks'[x].primary = blocks[x].primary
              /\ x # h[w].cur => blocks'[x] = blocks[x]
  BY <1>12, <1>13
<1>15. Links'
  BY <1>3, <1>8, <1>14 DEF Links
<1>16. Sizes'
  BY <1>8, <1>14 DEF Sizes
<1>17. ASSUME NEW q \in Handle, h'[q].pc \in Storing
       PROVE  q # w /\ h[q].pc \in Storing /\ h'[q].node = h[q].node
  BY <1>1, <1>4, <1>5, <1>17
<1>18. DOMAIN last' = DOMAIN last \cup {n}
  BY <1>3
<1>19. InChain' \subseteq InChain
  BY <1>7, <1>17, <1>18 DEF InChain
<1>20. OthersLoad(w)'
  BY <1>3, <1>5 DEF OthersLoad, ChainInv
<1>21. Mappings(w)'
  <2>1. \A q \in Handle : h'[q].mapped = h[q].mapped
    BY <1>4, <1>5
  <2> QED BY <1>3, <1>7, <2>1 DEF Mappings, ChainInv
<1>22. Heads'
  <2>1. \A m \in InChain' : m # 0 /\ m <= fileLen' /\ \A x \in Block : blocks[x].next # m
    BY <1>3, <1>8, <1>19, InChainTyped DEF Heads, Block
  <2> QED BY <1>14, <2>1 DEF Heads
<1>23. Space(w)'
  <2>1. InUse(w)' = InUse(w)
    BY <1>3, <1>4, <1>5, <1>6 DEF InUse
  <2>2. InUse(w) \in Nat
    BY <1>6, StorageAssumption DEF InUse, StorageInv, TypeOK
  <2>3. /\ h[w].pc \notin {"resize", "use", "allocWrite"}
        /\ h'[w].pc \notin {"resize", "use", "allocWrite", "opening"}
    BY <1>4, <1>5, <1>6
  <2>4. \A q \in Handle : h'[q].pc = "opening" => h'[q].used <= usedSpace'
    BY <1>3, <1>5, <1>8, <2>3 DEF Space
  <2>5. usedSpace' <= fileLen' + crashes' + (IF h'[w].pc = "resize" THEN 1 ELSE 0)
    BY <1>3, <1>8, <2>3 DEF Space
  <2>6. \A x \in Block : blocks'[x].next <= InUse(w)' /\ (x > InUse(w)' => blocks'[x].next = 0)
    <3>1. 0 <= InUse(w)
      BY <2>2
    <3> QED BY <1>8, <1>14, <2>1, <3>1 DEF Space
  <2>7. \A m \in InChain' : m <= InUse(w)'
    BY <1>8, <1>19, <2>1 DEF Space
  <2> QED BY <2>3, <2>4, <2>5, <2>6, <2>7 DEF Space
<1>24. StoreOK(w)'
  BY <1>1, <1>4, <1>5 DEF StoreOK
<1>25. \A m \in InChain \ {n} : \A i \in 1..Len(Chain(m)) :
           blocks'[Chain(m)[i]] = blocks[Chain(m)[i]]
  <2>1. ASSUME NEW m \in InChain, m # n, NEW i \in 1..Len(Chain(m))
        PROVE  blocks'[Chain(m)[i]] = blocks[Chain(m)[i]]
    <3>1. m \in Block
      BY InChainTyped
    <3>2. Chain(m)[i] \in Block
      BY <1>8, <3>1, ChainFacts
    <3>3. Chain(m)[i] # Chain(n)[k]
      BY <1>7, <1>8, <1>10, <2>1, ChainsApart DEF c
    <3> QED BY <1>10, <1>14, <3>2, <3>3 DEF c
  <2> QED BY <2>1
<1>26. ASSUME NEW m \in Block, m = n PROVE Whole(m)'
  <2>1. blocks \in [Block -> BlockType] /\ blocks' \in [Block -> BlockType]
    BY DEF StorageInv, TypeOK
  <2>2. Rising(blocks) /\ Rising(blocks')
    BY <1>8, <1>15 DEF Links, Rising
  <2>3. IsChain(blocks, n, c)
    BY <1>7, <2>1, <2>2, ChainIsChain DEF c, Chain
  <2>4. blocks'[c[k]].next = 0
    BY <1>10, <1>11, <1>12, <1>13
  <2>5. \A i \in 1..(k - 1) : blocks'[c[i]].next = blocks[c[i]].next
    <3>1. ASSUME NEW i \in 1..(k - 1) PROVE i \in 1..Len(c) /\ i # k
      <4> HIDE DEF k
      <4> QED BY <1>7, <1>9, <1>10
    <3>2. \A i \in 1..(k - 1) : c[i] # h[w].cur /\ c[i] \in Block
      BY <1>9, <1>10, <3>1
    <3> QED BY <1>14, <3>2
  <2> HIDE DEF n, k
  <2>6. PICK d : IsChain(blocks', n, d) /\ Len(d) = k /\ \A i \in 1..k : d[i] = c[i]
    <3> DEFINE f == blocks
               g == blocks'
    <3>1. IsChain(f, n, c) /\ g[c[k]].next = 0 /\ \A i \in 1..(k - 1) : g[c[i]].next = f[c[i]].next
      BY <2>3, <2>4, <2>5
    <3>2. k \in 1..Len(c)
      BY <1>10
    <3> HIDE DEF f, g
    <3>3. \E d : IsChain(g, n, d) /\ Len(d) = k /\ \A i \in 1..k : d[i] = c[i]
      BY <3>1, <3>2, CutChain
    <3> QED BY <3>3 DEF g
  <2>7. ChainOf(blocks', m) = d
    BY <1>26, <2>1, <2>2, <2>6, ChainUnique
  <2>8. Chain(m)' = d
    BY <2>7 DEF Chain
  <2>9. last'[m] = h[w].ver
    BY <1>3, <1>26
  <2>10. \A i \in 1..k :
            blocks'[d[i]].piece = [of |-> h[w].ver, part |-> i, parts |-> k]
    <3>1. \A i \in 1..k : c[i] \in Block
      BY <1>7, <1>9, <1>10
    <3>2. \A i \in 1..k :
            blocks[c[i]].piece = [of |-> h[w].ver, part |-> i, parts |-> k]
      BY <1>10 DEF Written, c
    <3> QED BY <1>14, <2>6, <3>1, <3>2
  <2>11. blocks'[m].primary
    <3>1. k > 0
      BY <1>7, <1>10
    <3> QED BY <1>10, <1>14, <1>26, <3>1 DEF Written
  <2> QED BY <2>6, <2>7, <2>9, <2>10, <2>11 DEF Whole, Written, Chain
<1>27. ASSUME NEW m \in Block, m # n PROVE BeingStored(m)' <=> BeingStored(m)
  <2>1. BeingStored(m)' => BeingStored(m)
    BY <1>17 DEF BeingStored
  <2>2. BeingStored(m) => BeingStored(m)'
    <3>1. ASSUME NEW q \in Handle, h[q].pc \in Storing, h[q].node = m PROVE BeingStored(m)'
      <4>1. h'[q] = h[q]
        BY <1>5, <1>27, <3>1
      <4> QED BY <3>1, <4>1 DEF BeingStored
    <3> QED BY <3>1 DEF BeingStored
  <2> QED BY <2>1, <2>2
<1>28. \A m \in Block : Settled(m) => m # n /\ Settled(m)' /\ last'[m] = last[m]
  <2>1. ASSUME NEW m \in Block, Settled(m) PROVE m # n /\ Settled(m)' /\ last'[m] = last[m]
    <3>1. m # n
      BY <1>1, <1>6, <2>1 DEF Settled, BeingStored
    <3>2. m \in DOMAIN last' /\ m \notin cut' /\ last'[m] = last[m]
      BY <1>3, <1>18, <2>1, <3>1 DEF Settled
    <3> QED BY <1>27, <2>1, <3>1, <3>2 DEF Settled
  <2> QED BY <2>1
<1>29. \A m \in Block : Settled(m)' => Settled(m) \/ m = n
  <2>1. ASSUME NEW m \in Block, Settled(m)', m # n PROVE Settled(m)
    BY <1>3, <1>18, <1>27, <2>1 DEF Settled
  <2> QED BY <2>1
<1>30. fileLen \in Nat /\ fileLen' \in Nat /\ fileLen <= fileLen'
  BY <1>3 DEF StorageInv, TypeOK
<1>31. \A m \in Block : m = n /\ Settled(m)' => Whole(m)'
  BY <1>26
<1> HIDE DEF n
<1>32. AllWhole' /\ \A q \in Handle : LoadOK(q)'
  BY <1>3, <1>4, <1>15, <1>25, <1>28, <1>29, <1>30, <1>31, OthersStay
<1> QED BY <1>15, <1>16, <1>20, <1>21, <1>22, <1>23, <1>24, <1>32 DEF ChainInv

(***************************************************************************)
(* UseBlock keeps the invariant when the block becomes a node's first, ... *)
(***************************************************************************)
LEMMA ChainFirstBlock ==
    ASSUME StorageInv, StorageInv', NEW w \in Handle, ChainInv(w), ~rolledBack,
           UseBlock(w), h[w].node = 0
    PROVE  ChainInv(w)'
<1> DEFINE block == h[w].used + 1
           r == [h[w] EXCEPT !.pc = "write", !.cur = block, !.node = block]
<1>1. /\ h[w].pc = "use" /\ h' = [h EXCEPT ![w] = r]
      /\ UNCHANGED <<blocks, usedSpace, rootOffset, fileLen, last, cut, crashes>>
  BY DEF UseBlock, history
<1>2. /\ r.pc = "write" /\ r.node = block /\ r.cur = block /\ r.mapped = h[w].mapped
      /\ r.clean = h[w].clean /\ r.done = h[w].done /\ r.prev = h[w].prev /\ r.used = h[w].used
      /\ r.ver = h[w].ver /\ r.size = h[w].size
  BY DEF StorageInv, TypeOK, HandleType
<1> HIDE DEF r
<1>3. h'[w] = r /\ \A q \in Handle : q # w => h'[q] = h[q]
  BY <1>1 DEF StorageInv, TypeOK
<1>4. "use" \in Storing /\ "write" \in Storing
  BY DEF Storing
<1>5. Links /\ Heads /\ Sizes /\ Space(w) /\ StoreOK(w)
  BY DEF ChainInv
<1>6. /\ h[w].mapped = fileLen /\ h[w].done = 0 /\ h[w].prev = 0
      /\ ~h[w].clean
  <2>1. h[w].done = 0 /\ h[w].prev = 0
    BY <1>1, <1>4, <1>5 DEF StoreOK
  <2> QED BY <1>1, <1>4, <2>1, NotStored
<1>7. /\ h[w].used \in Nat /\ block \in Block /\ block # 0 /\ block <= fileLen
      /\ usedSpace = block /\ InUse(w) = h[w].used
  <2>1. h[w].used \in 0..MaxBlocks /\ h[w].used < MaxBlocks /\ MaxBlocks \in Nat
    BY <1>1, StorageAssumption DEF StorageInv, StageOK, TypeOK, HandleType
  <2>2. block <= fileLen /\ usedSpace = block /\ InUse(w) = h[w].used
    BY <1>1, <1>5, <1>6 DEF Space, InUse
  <2> QED BY <2>1, <2>2 DEF Block
<1> HIDE DEF block
<1>8. block = h[w].used + 1
  BY DEF block
<1>9. blocks[block].next = 0 /\ \A b \in Block : blocks[b].next # block
  <2>1. \A b \in Block : blocks[b].next <= h[w].used /\ (b > h[w].used => blocks[b].next = 0)
    BY <1>5, <1>7 DEF Space
  <2>2. \A b \in Block : blocks[b].next \in Nat
    BY NextTyped DEF StorageInv, TypeOK
  <2> QED BY <1>7, <1>8, <2>1, <2>2
<1>10. block \notin InChain
  <2>1. \A n \in InChain : n <= h[w].used
    BY <1>5, <1>7 DEF Space
  <2> QED BY <1>7, <1>8, <2>1
<1>11. InChain' \subseteq InChain \cup {block}
  <2>1. ASSUME NEW q \in Handle, h'[q].pc \in Storing PROVE h'[q].node \in InChain \cup {block, 0}
    <3>1. CASE q = w
      BY <1>2, <1>3, <3>1
    <3>2. CASE q # w
      BY <1>3, <2>1, <3>2 DEF InChain
    <3> QED BY <3>1, <3>2
  <2> QED BY <1>1, <2>1 DEF InChain
<1>12. OthersLoad(w)'
  BY <1>1, <1>3 DEF OthersLoad, ChainInv
<1>13. Mappings(w)'
  <2>1. \A q \in Handle : h'[q].mapped = h[q].mapped
    BY <1>2, <1>3
  <2> QED BY <1>1, <1>6, <2>1 DEF Mappings, ChainInv
<1>14. Links' /\ Sizes'
  BY <1>1, <1>5 DEF Links, Sizes
<1>15. Heads'
  BY <1>1, <1>5, <1>7, <1>9, <1>11 DEF Heads
<1>16. Space(w)'
  <2>1. InUse(w)' = block
    BY <1>1, <1>2, <1>3, <1>7 DEF InUse
  <2>2. usedSpace' <= fileLen' + crashes' + (IF h'[w].pc = "resize" THEN 1 ELSE 0)
    BY <1>1, <1>2, <1>3, <1>5 DEF Space
  <2>3. \A q \in Handle : h'[q].pc = "opening" => h'[q].used <= usedSpace'
    BY <1>1, <1>2, <1>3, <1>5 DEF Space
  <2>4. h'[w].pc \notin {"allocWrite", "resize", "use"}
    BY <1>2, <1>3
  <2>5. \A b \in Block : blocks[b].next <= h[w].used /\ (b > h[w].used => blocks[b].next = 0)
    BY <1>5, <1>7 DEF Space
  <2>6. \A b \in Block : blocks[b].next \in Nat /\ b \in Nat
    BY NextTyped DEF StorageInv, TypeOK
  <2>7. \A b \in Block : blocks'[b].next <= InUse(w)' /\ (b > InUse(w)' => blocks'[b].next = 0)
    BY <1>1, <1>7, <1>8, <2>1, <2>5, <2>6
  <2>8. \A n \in InChain' : n <= InUse(w)'
    <3>1. \A n \in InChain : n <= h[w].used /\ n \in Nat
      BY <1>5, <1>7, InChainTyped DEF Space, Block
    <3> QED BY <1>7, <1>8, <1>11, <2>1, <3>1
  <2> QED BY <2>2, <2>3, <2>4, <2>7, <2>8 DEF Space
<1>17. StoreOK(w)'
  <2>1. Chain(block)[1] = block /\ Len(Chain(block)) \in Nat /\ Len(Chain(block)) >= 1
    BY <1>5, <1>7, ChainFacts
  <2>2. ChainOf(blocks', block) = Chain(block)
    BY <1>1 DEF Chain
  <2>3. /\ h'[w].node = block /\ h'[w].cur = block /\ h'[w].done = 0 /\ h'[w].prev = 0
        /\ h'[w].pc = "write"
    BY <1>2, <1>3, <1>6
  <2>4. Placed(h[w])'
    <3> DEFINE d == Chain(block)
    <3>1. d[1] = block /\ Len(d) \in Nat /\ 0 < Len(d) /\ 0 + 1 = 1 /\ 1..0 = {} /\ ~(0 > 0) /\ ~(0 < 0)
      <4> HIDE DEF d
      <4>1. d[1] = block /\ Len(d) \in Nat /\ Len(d) >= 1
        BY <2>1 DEF d
      <4> QED BY <4>1
    <3>2. ChainOf(blocks', h'[w].node) = d
      BY <2>2, <2>3
    <3> HIDE DEF d
    <3>3. h'[w].cur = d[h'[w].done + 1] /\ h'[w].done < Len(d)
      BY <2>3, <3>1
    <3>4. Written(h[w].node, h[w].ver, h[w].done, h[w].size)'
      BY <2>3, <3>1 DEF Written
    <3> QED BY <1>7, <2>3, <3>1, <3>2, <3>3, <3>4 DEF Placed, Chain
  <2> QED BY <1>7, <2>3, <2>4 DEF StoreOK
<1>18. ASSUME NEW m \in Block, m # block PROVE BeingStored(m)' <=> BeingStored(m)
  <2>1. m # 0
    BY DEF Block
  <2> QED BY <1>2, <1>3, <1>18, <2>1 DEF BeingStored
<1>19. \A m \in Block : Settled(m) => m # block /\ Settled(m)' /\ last'[m] = last[m]
  <2>1. ASSUME NEW m \in Block, Settled(m) PROVE m # block /\ Settled(m)'
    <3>1. m \in InChain
      BY <2>1 DEF Settled, InChain
    <3>2. m # block
      BY <1>10, <3>1
    <3> QED BY <1>1, <1>18, <2>1, <3>2 DEF Settled
  <2> QED BY <1>1, <2>1
<1>20. \A m \in Block : Settled(m)' => Settled(m) \/ m = block
  BY <1>1, <1>18 DEF Settled
<1>21. \A m \in Block : m = block /\ Settled(m)' => Whole(m)'
  <2>2. ASSUME NEW m \in Block, m = block PROVE ~Settled(m)'
    <3>1. BeingStored(m)'
      BY <1>2, <1>3, <1>4, <2>2 DEF BeingStored
    <3> QED BY <3>1 DEF Settled
  <2> QED BY <2>2
<1>22. fileLen \in Nat /\ fileLen' \in Nat /\ fileLen <= fileLen' /\ ~r.clean
  BY <1>1, <1>2, <1>6 DEF StorageInv, TypeOK
<1>23. \A m \in InChain \ {block} : \A i \in 1..Len(Chain(m)) :
           blocks'[Chain(m)[i]] = blocks[Chain(m)[i]]
  BY <1>1
<1>24. AllWhole' /\ \A q \in Handle : LoadOK(q)'
  BY <1>1, <1>14, <1>19, <1>20, <1>21, <1>22, <1>23, OthersStay
<1> QED BY <1>12, <1>13, <1>14, <1>15, <1>16, <1>17, <1>24 DEF ChainInv

(***************************************************************************)
(* ... and when it is linked to the block before.                          *)
(***************************************************************************)
LEMMA ChainNextBlock ==
    ASSUME StorageInv, StorageInv', NEW w \in Handle, ChainInv(w), ~rolledBack,
           UseBlock(w), h[w].node # 0
    PROVE  ChainInv(w)'
<1> DEFINE block == h[w].used + 1
           n == h[w].node
           k == h[w].done
           c == Chain(n)
           r == [h[w] EXCEPT !.pc = "write", !.cur = block, !.node = n]
           b == [blocks[h[w].cur] EXCEPT !.next = block]
<1>1. /\ h[w].pc = "use" /\ h' = [h EXCEPT ![w] = r]
      /\ blocks' = [blocks EXCEPT ![h[w].cur] = b]
      /\ UNCHANGED <<usedSpace, rootOffset, fileLen, last, cut, crashes>>
  BY DEF UseBlock, history
<1>2. /\ r.pc = "write" /\ r.node = n /\ r.cur = block /\ r.mapped = h[w].mapped
      /\ r.clean = h[w].clean /\ r.done = h[w].done /\ r.prev = h[w].prev /\ r.used = h[w].used
      /\ r.ver = h[w].ver /\ r.size = h[w].size
  BY DEF StorageInv, TypeOK, HandleType
<1> HIDE DEF r
<1>3. h'[w] = r /\ \A q \in Handle : q # w => h'[q] = h[q]
  BY <1>1 DEF StorageInv, TypeOK
<1>4. "use" \in Storing /\ "write" \in Storing
  BY DEF Storing
<1>5. Links /\ Heads /\ Sizes /\ Space(w)
  BY DEF ChainInv
<1>6. /\ n \in Block /\ n \in InChain /\ Placed(h[w]) /\ k \in Nat /\ h[w].prev \in Nat
      /\ h[w].mapped = fileLen
  BY <1>1, <1>4, StoreFacts
<1>7. /\ h[w].used \in Nat /\ block \in Block /\ block \in Nat /\ block # 0 /\ block <= fileLen
      /\ usedSpace = block /\ InUse(w) = h[w].used
  <2>1. h[w].used \in 0..MaxBlocks /\ h[w].used < MaxBlocks /\ MaxBlocks \in Nat
    BY <1>1, StorageAssumption DEF StorageInv, StageOK, TypeOK, HandleType
  <2>2. block <= fileLen /\ usedSpace = block /\ InUse(w) = h[w].used
    BY <1>1, <1>5, <1>6 DEF Space, InUse
  <2> QED BY <2>1, <2>2 DEF Block
<1> HIDE DEF block
<1>8. block = h[w].used + 1
  BY DEF block
<1>9. /\ c \in Seq(Block) /\ Len(c) \in Nat /\ Len(c) >= 1 /\ c[1] = n
      /\ \A i \in 1..Len(c) : c[i] \in Block /\ c[i] \in Nat
      /\ \A i, j \in 1..Len(c) : c[i] = c[j] => i = j
  BY <1>5, <1>6, ChainFacts
<1>10. /\ Written(n, h[w].ver, k, h[w].size)
       /\ k \in 1..Len(c) /\ h[w].cur = c[k] /\ k >= h[w].prev
  BY <1>1, <1>6 DEF Placed
<1>11. h[w].cur \in Block /\ h[w].cur \in Nat /\ h[w].cur <= h[w].used
  <2>1. c[k] <= InUse(w)
    BY <1>5, <1>6, <1>10, ChainInUse
  <2> HIDE DEF c
  <2> QED BY <1>7, <1>9, <1>10, <2>1
<1> HIDE DEF c
<1>12. /\ b.next = block /\ b.piece = blocks[h[w].cur].piece /\ b.len = blocks[h[w].cur].len
       /\ b.primary = blocks[h[w].cur].primary
  <2>1. blocks[h[w].cur] \in BlockType
    BY <1>11 DEF StorageInv, TypeOK
  <2> QED BY <2>1 DEF BlockType
<1> HIDE DEF b
<1>13. \A x \in Block : blocks'[x] = IF x = h[w].cur THEN b ELSE blocks[x]
  BY <1>1, <1>11 DEF StorageInv, TypeOK
<1>14. ASSUME NEW x \in Block
       PROVE  /\ x # h[w].cur => blocks'[x] = blocks[x]
              /\ blocks'[x].next = IF x = h[w].cur THEN block ELSE blocks[x].next
              /\ blocks'[x].piece = blocks[x].piece
              /\ blocks'[x].len = blocks[x].len
              /\ blocks'[x].primary = blocks[x].primary
  BY <1>12, <1>13
<1>15. ASSUME NEW x \in Block
       PROVE  /\ blocks[x].next \in Nat /\ x \in Nat /\ blocks[x].next <= h[w].used
              /\ x > h[w].used => blocks[x].next = 0
              /\ blocks[x].next # block
  <2>1. blocks[x].next <= h[w].used /\ (x > h[w].used => blocks[x].next = 0)
    BY <1>5, <1>7 DEF Space
  <2>2. blocks[x].next \in Nat /\ x \in Nat
    BY NextTyped DEF StorageInv, TypeOK
  <2> QED BY <1>7, <1>8, <2>1, <2>2
<1>16. Links'
  <2>1. ASSUME NEW x \in Block, blocks'[x].next # 0
        PROVE  blocks'[x].next > x /\ blocks'[x].next <= fileLen'
    <3>1. CASE x = h[w].cur
      BY <1>1, <1>7, <1>8, <1>11, <1>14, <3>1
    <3>2. CASE x # h[w].cur
      BY <1>1, <1>5, <1>14, <2>1, <3>2 DEF Links
    <3> QED BY <3>1, <3>2
  <2>2. ASSUME NEW x \in Block, NEW y \in Block, blocks'[x].next = blocks'[y].next,
               blocks'[y].next # 0
        PROVE  x = y
    BY <1>5, <1>14, <1>15, <2>2 DEF Links
  <2> QED BY <2>1, <2>2 DEF Links
<1>17. Sizes'
  BY <1>5, <1>14 DEF Sizes
<1>18. \A m \in InChain : \A x \in Block : blocks'[x].next # m
  <2>1. \A m \in InChain : m # block
    <3>1. \A m \in InChain : m <= h[w].used
      BY <1>5, <1>7 DEF Space
    <3> QED BY <1>7, <1>8, <3>1
  <2> QED BY <1>5, <1>14, <2>1 DEF Heads
<1>19. \A m \in InChain \ {n} : \A i \in 1..Len(Chain(m)) :
           blocks'[Chain(m)[i]] = blocks[Chain(m)[i]]
  <2>1. ASSUME NEW m \in InChain, m # n, NEW i \in 1..Len(Chain(m))
        PROVE  blocks'[Chain(m)[i]] = blocks[Chain(m)[i]]
    <3>1. m \in Block
      BY InChainTyped
    <3>2. Chain(m)[i] \in Block
      BY <1>5, <3>1, ChainFacts
    <3>3. Chain(m)[i] # Chain(n)[k]
      BY <1>5, <1>6, <1>10, <2>1, ChainsApart DEF c
    <3> QED BY <1>10, <1>14, <3>2, <3>3 DEF c
  <2> QED BY <2>1
<1>20. StoreOK(w)'
  <2>1. blocks \in [Block -> BlockType] /\ blocks' \in [Block -> BlockType]
    BY DEF StorageInv, TypeOK
  <2>2. Rising(blocks) /\ Rising(blocks')
    BY <1>5, <1>16 DEF Links, Rising
  <2>3. IsChain(blocks, n, c)
    BY <1>6, <2>1, <2>2, ChainIsChain DEF c, Chain
  <2>4. blocks'[c[k]].next = block /\ blocks'[block].next = 0
    BY <1>7, <1>8, <1>10, <1>11, <1>14, <1>15
  <2>5. \A i \in 1..(k - 1) : blocks'[c[i]].next = blocks[c[i]].next
    <3>1. ASSUME NEW i \in 1..(k - 1) PROVE i \in 1..Len(c) /\ i # k
      <4> HIDE DEF k
      <4> QED BY <1>6, <1>9, <1>10
    <3>2. \A i \in 1..(k - 1) : c[i] # h[w].cur /\ c[i] \in Block
      BY <1>9, <1>10, <3>1
    <3> QED BY <1>14, <3>2
  <2>12. /\ h'[w].node = n /\ h'[w].cur = block /\ h'[w].done = k /\ h'[w].prev = h[w].prev
         /\ h'[w].pc = "write" /\ h'[w].ver = h[w].ver /\ h'[w].size = h[w].size
    BY <1>2, <1>3
  <2> HIDE DEF n, k
  <2>6. PICK d : /\ IsChain(blocks', n, d) /\ Len(d) = k + 1 /\ d[k + 1] = block
                 /\ \A i \in 1..k : d[i] = c[i]
    BY <1>7, <1>10, <2>3, <2>4, <2>5, LinkChain
  <2>7. ChainOf(blocks', n) = d
    BY <1>6, <2>1, <2>2, <2>6, ChainUnique
  <2>10. \A i \in 1..k :
            blocks'[d[i]].piece = [of |-> h[w].ver, part |-> i, parts |-> h[w].size]
    <3>1. \A i \in 1..k : c[i] \in Block
      BY <1>6, <1>9, <1>10
    <3>2. \A i \in 1..k :
            blocks[c[i]].piece = [of |-> h[w].ver, part |-> i, parts |-> h[w].size]
      BY <1>10 DEF Written, c
    <3> QED BY <1>14, <2>6, <3>1, <3>2
  <2>11. blocks'[n].primary
    <3>1. k > 0
      BY <1>6, <1>10
    <3> QED BY <1>6, <1>10, <1>14, <3>1 DEF Written
  <2>13. k < k + 1 /\ ~(k < h[w].prev)
    BY <1>6, <1>10
  <2>14. Placed(h[w])'
    <3>1. Written(h[w].node, h[w].ver, h[w].done, h[w].size)'
      BY <2>7, <2>10, <2>11, <2>12 DEF Written, Chain
    <3>2. block # 0
      BY <1>7
    <3> QED BY <1>6, <2>6, <2>7, <2>12, <2>13, <3>1, <3>2 DEF Placed, Chain
  <2> QED BY <2>12, <2>14, <1>6 DEF StoreOK, Block
<1>21. Space(w)'
  <2>1. InUse(w)' = block
    BY <1>1, <1>2, <1>3, <1>7 DEF InUse
  <2>2. usedSpace' <= fileLen' + crashes' + (IF h'[w].pc = "resize" THEN 1 ELSE 0)
    BY <1>1, <1>2, <1>3, <1>5 DEF Space
  <2>3. \A q \in Handle : h'[q].pc = "opening" => h'[q].used <= usedSpace'
    BY <1>1, <1>2, <1>3, <1>5 DEF Space
  <2>4. h'[w].pc \notin {"allocWrite", "resize", "use"}
    BY <1>2, <1>3
  <2>5. ASSUME NEW x \in Block
        PROVE  blocks'[x].next <= InUse(w)' /\ (x > InUse(w)' => blocks'[x].next = 0)
    <3>1. CASE x = h[w].cur
      BY <1>7, <1>8, <1>11, <1>14, <2>1, <3>1
    <3>2. CASE x # h[w].cur
      BY <1>7, <1>8, <1>14, <1>15, <2>1, <3>2
    <3> QED BY <3>1, <3>2
  <2>6. InChain' \subseteq InChain
    BY <1>1, <1>2, <1>4, StoringKept
  <2>7. \A m \in InChain' : m <= InUse(w)'
    <3>1. \A m \in InChain : m <= h[w].used /\ m \in Nat
      BY <1>5, <1>7, InChainTyped DEF Space, Block
    <3> QED BY <1>7, <1>8, <2>1, <2>6, <3>1
  <2> QED BY <2>2, <2>3, <2>4, <2>5, <2>7 DEF Space
<1>22. /\ h' = [h EXCEPT ![w] = r] /\ h[w].pc \in Storing /\ r.pc \in Storing
       /\ r.node = h[w].node /\ r.clean = h[w].clean /\ r.mapped = fileLen'
       /\ UNCHANGED <<last, cut, crashes, rootOffset>>
  BY <1>1, <1>2, <1>4, <1>6
<1>23. fileLen <= fileLen'
  BY <1>1 DEF StorageInv, TypeOK
<1> QED BY <1>16, <1>17, <1>18, <1>19, <1>20, <1>21, <1>22, <1>23, Busy

(***************************************************************************)
(* The invariant holds of an empty file.                                   *)
(***************************************************************************)
LEMMA ChainInit ==
    ASSUME Init, NEW w \in Handle
    PROVE  ChainInv(w)
<1>1. /\ usedSpace = 0 /\ rootOffset = 0 /\ fileLen = FirstLen /\ crashes = 0
      /\ \A b \in Block : blocks[b] = Blank
      /\ \A p \in Handle : h[p] = Closed
      /\ DOMAIN last = {}
  BY DEF Init
<1>2. /\ Blank.next = 0 /\ Blank.len = 0 /\ Blank.piece.parts = 0
      /\ Closed.pc = "closed" /\ Closed.mapped = 0 /\ ~Closed.clean
  BY DEF Blank, Nothing, Closed
<1>3. "closed" \notin Storing \cup {"setRoot", "opening", "allocWrite", "resize", "use"}
  BY DEF Storing
<1>4. FirstLen \in Nat /\ MaxCrashes \in Nat
  BY StorageAssumption
<1>5. InChain = {}
  BY <1>1, <1>2, <1>3 DEF InChain
<1>6. OthersLoad(w) /\ Mappings(w) /\ Links /\ Heads /\ Sizes
  BY <1>1, <1>2, <1>3, <1>4, <1>5 DEF OthersLoad, Mappings, Links, Heads, Sizes
<1>7. Space(w)
  <2>1. InUse(w) = 0
    BY <1>1, <1>2 DEF InUse
  <2> QED BY <1>1, <1>2, <1>3, <1>4, <1>5, <2>1 DEF Space
<1>8. StoreOK(w) /\ AllWhole /\ \A p \in Handle : LoadOK(p)
  BY <1>1, <1>2, <1>3 DEF StoreOK, AllWhole, Settled, LoadOK
<1> QED BY <1>6, <1>7, <1>8 DEF ChainInv

(***************************************************************************)
(* Every step keeps it but a store led over the header, the last one.      *)
(***************************************************************************)
LEMMA ChainStep ==
    ASSUME NEW w \in Handle, Writers = {w}, MaxCrashes < FirstLen,
           StorageInv, ChainInv(w), [NextCreated]_vars, ~wrecked'
    PROVE  StorageInv' /\ ChainInv(w)'
<1>1. CASE UNCHANGED vars
  <2>1. UNCHANGED <<usedSpace, rootOffset, fileLen, blocks, h, last, cut, stores, crashes, rolledBack,
                   wrecked>>
    BY <1>1 DEF vars, disk, history
  <2>2. StorageInv'
    BY <1>1, StepInv
  <2>3. OthersLoad(w)' /\ Mappings(w)' /\ Links' /\ Sizes'
    BY <2>1 DEF ChainInv, OthersLoad, Mappings, Links, Sizes
  <2>4. InChain' = InChain /\ InUse(w)' = InUse(w)
    BY <2>1 DEF InChain, InUse
  <2>5. Heads' /\ (~rolledBack' => Space(w)')
    BY <2>1, <2>4 DEF ChainInv, Heads, Space
  <2>6. ASSUME NEW n \in Block PROVE Settled(n)' <=> Settled(n)
    BY <2>1 DEF Settled, BeingStored
  <2>7. StoreOK(w)'
    BY <2>1 DEF ChainInv, StoreOK, Placed, Written, Chain
  <2>8. AllWhole'
    BY <2>1, <2>6 DEF ChainInv, AllWhole, Whole, Written, Chain
  <2>9. ASSUME NEW p \in Handle PROVE LoadOK(p)'
    <3>1. LoadOK(p) /\ h'[p] = h[p]
      BY <2>1 DEF ChainInv
    <3>2. CASE ~h[p].clean
      BY <3>1, <3>2 DEF LoadOK
    <3>3. CASE h[p].clean
      <4>1. h[p].node \in Block
        BY <3>1, <3>3 DEF LoadOK
      <4>2. Settled(h[p].node)' <=> Settled(h[p].node)
        BY <2>1, <3>1 DEF Settled, BeingStored
      <4>3. Chain(h[p].node)' = Chain(h[p].node) /\ Pieces(h[p].node)' = Pieces(h[p].node)
        BY <2>1 DEF Chain, Pieces
      <4> QED BY <2>1, <3>1, <4>2, <4>3 DEF LoadOK, Loading
    <3> QED BY <3>2, <3>3
  <2> QED BY <2>2, <2>3, <2>5, <2>7, <2>8, <2>9 DEF ChainInv
<1>2. CASE NextCreated
  <2>1. ~rolledBack /\ ~wrecked /\ Next
    BY <1>2 DEF NextCreated, Next, OpenCreated
  <2>6. ASSUME NEW p \in Handle PROVE ~WriteOverHeader(p)
    BY DEF WriteOverHeader
  <2>2. StorageInv'
    BY <2>1, StepInv
  <2>3. ASSUME NEW p \in Handle, UseBlock(p) PROVE ChainInv(w)'
    <3>1. p = w
      BY <2>3, NotStored DEF UseBlock, Storing
    <3> QED BY <2>1, <2>2, <2>3, <3>1, ChainFirstBlock, ChainNextBlock
  <2>4. ASSUME NEW p \in Handle, Store(p) PROVE ChainInv(w)'
    BY <2>1, <2>2, <2>3, <2>4, <2>6, ChainStoreNew, ChainStoreAgain, ChainAllocate,
       ChainAllocateWrite, ChainResize, ChainWriteBlock, ChainEndStore, ChainSetRootOffset,
       ChainMoveRoot
       DEF Store
  <2>5. ASSUME NEW p \in Handle, Read(p) PROVE ChainInv(w)'
    BY <2>1, <2>2, <2>5, ChainLoad, ChainReadBlock DEF Read
  <2> QED BY <1>2, <2>1, <2>2, <2>4, <2>5, ChainOpen, ChainWriteBack, ChainNewTree, ChainClose,
             ChainCrash
          DEF NextCreated
<1> QED BY <1>1, <1>2

-----------------------------------------------------------------------------
(***************************************************************************)
(* The invariant holds in every state that one writer, any readers and     *)
(* fewer crashes than a new file has blocks can reach, up to a store over  *)
(* the header.                                                             *)
(***************************************************************************)
LEMMA ChainInvariant ==
    ASSUME NEW w \in Handle, Writers = {w}, MaxCrashes < FirstLen
    PROVE  OneWriterSpec => [](wrecked \/ (StorageInv /\ ChainInv(w)))
<1>1. Init => StorageInv /\ ChainInv(w)
  BY InitInv, ChainInit
<1>2. ASSUME wrecked \/ (StorageInv /\ ChainInv(w)), [NextCreated]_vars
      PROVE  (wrecked \/ (StorageInv /\ ChainInv(w)))'
  <2>1. CASE wrecked
    BY <1>2, <2>1 DEF NextCreated, vars, history
  <2>2. CASE wrecked'
    BY <2>2
  <2>3. CASE ~wrecked /\ ~wrecked'
    BY <1>2, <2>3, ChainStep
  <2> QED BY <2>1, <2>2, <2>3
<1> QED BY <1>1, <1>2, PTL DEF OneWriterSpec

(***************************************************************************)
(* With one writer, the chains of two nodes never share a block and stay   *)
(* inside the file and the used space (ChainsDisjoint), for any number of  *)
(* readers, nodes, sizes and stores, and fewer crashes than a new file has *)
(* blocks (244 in the code): store_node and increment_and_allocate_block   *)
(* never hand out or link a block twice, until an open undoes an           *)
(* allocation or a store is led over the header.                           *)
(***************************************************************************)
THEOREM OneWriterDisjoint ==
    ASSUME NEW w \in Handle, Writers = {w}, MaxCrashes < FirstLen
    PROVE  OneWriterSpec => []ChainsDisjoint
<1>1. ASSUME wrecked \/ (StorageInv /\ ChainInv(w)) PROVE ChainsDisjoint
  <2> SUFFICES ASSUME ~rolledBack, ~wrecked, NEW n \in InChain
               PROVE  /\ Len(Chain(n)) <= usedSpace
                      /\ Reach(n) \subseteq 1..usedSpace \cap 1..fileLen
                      /\ \A m \in InChain \ {n} : Reach(n) \cap Reach(m) = {}
    BY DEF ChainsDisjoint
  <2>0. StorageInv /\ ChainInv(w)
    BY <1>1
  <2>1. Links /\ Heads /\ Space(w)
    BY <2>0 DEF ChainInv
  <2>2. n \in Block
    BY <2>0, InChainTyped
  <2>3. /\ Len(Chain(n)) \in Nat /\ Len(Chain(n)) <= InUse(w) /\ InUse(w) \in Nat
        /\ \A i \in 1..Len(Chain(n)) : Chain(n)[i] <= InUse(w)
    BY <2>0, <2>1, <2>2, ChainFacts, ChainInUse
  <2>4. usedSpace \in Nat /\ fileLen \in Nat /\ InUse(w) <= usedSpace
    <3>1. usedSpace \in Nat /\ fileLen \in Nat /\ h[w].used \in Nat
      BY <2>0, StorageAssumption DEF StorageInv, TypeOK, HandleType
    <3>2. h[w].pc \in {"resize", "use"} => usedSpace = h[w].used + 1
      BY <2>1 DEF Space
    <3> QED BY <3>1, <3>2 DEF InUse
  <2>5. Reach(n) = {Chain(n)[i] : i \in 1..Len(Chain(n))}
    BY <2>0, <2>1, <2>2, ReachIs
  <2>6. ASSUME NEW i \in 1..Len(Chain(n))
        PROVE  Chain(n)[i] \in 1..usedSpace /\ Chain(n)[i] \in 1..fileLen
    <3> DEFINE x == Chain(n)[i]
    <3>1. x \in Block /\ x <= InUse(w) /\ x <= fileLen
      BY <2>0, <2>1, <2>2, <2>3, ChainFacts, ChainInFile
    <3>2. x \in Nat /\ x >= 1
      BY <3>1 DEF Block
    <3> HIDE DEF x
    <3>3. x \in 1..usedSpace /\ x \in 1..fileLen
      BY <2>3, <2>4, <3>1, <3>2
    <3> QED BY <3>3 DEF x
  <2>7. ASSUME NEW m \in InChain \ {n} PROVE Reach(n) \cap Reach(m) = {}
    <3>1. m \in Block /\ m # n /\ m \in InChain
      BY <2>0, InChainTyped
    <3>2. Reach(m) = {Chain(m)[i] : i \in 1..Len(Chain(m))}
      BY <2>0, <2>1, <3>1, ReachIs
    <3>3. \A i \in 1..Len(Chain(n)), j \in 1..Len(Chain(m)) : Chain(n)[i] # Chain(m)[j]
      BY <2>0, <2>1, <3>1, ChainsApart
    <3> QED BY <2>5, <3>2, <3>3
  <2>8. Len(Chain(n)) <= usedSpace
    BY <2>3, <2>4
  <2> QED BY <2>5, <2>6, <2>7, <2>8
<1> QED BY <1>1, ChainInvariant, PTL

(***************************************************************************)
(* With one writer, store_node writes to blocks of its own node only,      *)
(* inside what the handle has mapped, and to the header only over a node   *)
(* whose growth a crash has cut short (StoreStaysInside).                  *)
(***************************************************************************)
THEOREM OneWriterStaysInside ==
    ASSUME NEW w \in Handle, Writers = {w}, MaxCrashes < FirstLen
    PROVE  OneWriterSpec => []StoreStaysInside
<1>1. ASSUME wrecked \/ (StorageInv /\ ChainInv(w)) PROVE StoreStaysInside
  <2> SUFFICES ASSUME ~wrecked, StorageInv, ChainInv(w) PROVE StoreStaysInside
    BY <1>1 DEF StoreStaysInside
  <2>0. Links /\ Heads
    BY DEF ChainInv
  <2>1. ASSUME NEW p \in Handle PROVE h[p].mapped <= fileLen
    BY NotStored
  <2>3. ASSUME NEW p \in Handle, h[p].pc = "write", h[p].cur = 0 PROVE CutShort(p)
    <3>1. p = w /\ h[w].pc \in Storing
      BY <2>3, NotStored DEF Storing
    <3>2. h[w].node # 0
      BY <2>3, <3>1 DEF StorageInv, StageOK, Block
    <3>3. Placed(h[w]) /\ h[w].done \in Nat /\ h[w].prev \in Nat /\ h[w].node \in Block
      BY <3>1, <3>2, StoreFacts
    <3>4. Len(Chain(h[w].node)) \in Nat
      BY <2>0, <3>3, ChainFacts
    <3>5. /\ h[w].done = Len(Chain(h[w].node)) /\ h[w].done < h[w].prev
          /\ h[w].prev <= Len(Chain(h[w].node)) \/ h[w].node \in cut
      BY <2>3, <3>1, <3>3 DEF Placed
    <3>6. h[w].prev > Len(Chain(h[w].node)) /\ h[w].node \in cut
      BY <3>3, <3>4, <3>5
    <3> QED BY <3>1, <3>6 DEF CutShort
  <2>2. ASSUME NEW p \in Handle, h[p].pc \in {"write", "end"},
               ~(h[p].pc = "write" /\ h[p].cur = 0)
        PROVE  h[p].cur \in Reach(h[p].node) \cap 1..h[p].mapped
    <3> DEFINE n == h[w].node
               c == Chain(n)
    <3>1. p = w /\ h[w].pc \in Storing /\ h[w].mapped = fileLen
      <4>1. h[p].pc \in Storing
        BY <2>2 DEF Storing
      <4> QED BY <4>1, NotStored
    <3>2. n # 0
      BY <2>2, <3>1 DEF StorageInv, StageOK, Block
    <3>3. n \in Block /\ n \in InChain /\ Placed(h[w]) /\ h[w].done \in Nat
      BY <3>1, <3>2, StoreFacts
    <3>4. Len(c) \in Nat
      BY <2>0, <3>3, ChainFacts
    <3>5. PICK i \in 1..Len(c) : h[w].cur = c[i]
      <4>1. CASE h[w].pc = "write"
        <5>1. h[w].done < Len(c) /\ h[w].cur = c[h[w].done + 1]
          BY <2>2, <3>1, <3>3, <4>1 DEF Placed
        <5>2. h[w].done + 1 \in 1..Len(c)
          <6> HIDE DEF c
          <6> QED BY <3>3, <3>4, <5>1
        <5> QED BY <5>1, <5>2
      <4>2. CASE h[w].pc # "write"
        BY <3>3, <4>2 DEF Placed
      <4> QED BY <4>1, <4>2
    <3>6. c[i] \in Block /\ c[i] <= fileLen /\ c[i] \in Reach(n)
      <4>1. \A j \in 1..Len(c) : c[j] \in Block
        BY <2>0, <3>3, ChainFacts
      <4>2. \A j \in 1..Len(c) : c[j] <= fileLen
        BY <2>0, <3>3, ChainInFile
      <4>3. Reach(n) = {c[j] : j \in 1..Len(c)}
        BY <2>0, <3>3, ReachIs
      <4> HIDE DEF c
      <4> QED BY <4>1, <4>2, <4>3
    <3>7. fileLen \in Nat /\ c[i] \in Nat /\ c[i] >= 1
      <4>1. fileLen \in Nat
        BY DEF StorageInv, TypeOK
      <4>2. \A x \in Block : x \in Nat /\ x >= 1
        BY StorageAssumption DEF Block
      <4> HIDE DEF c
      <4> QED BY <3>6, <4>1, <4>2
    <3> QED BY <3>1, <3>5, <3>6, <3>7
  <2> QED BY <2>1, <2>2, <2>3 DEF StoreStaysInside
<1> QED BY <1>1, ChainInvariant, PTL

(***************************************************************************)
(* With one writer, load_node of a node that no store overlaps returns     *)
(* what was stored in it last, and panics only in a handle that was opened *)
(* before the file grew (LoadIsExact), until an open undoes an allocation  *)
(* or a store is led over the header.                                      *)
(***************************************************************************)
THEOREM OneWriterLoads ==
    ASSUME NEW w \in Handle, Writers = {w}, MaxCrashes < FirstLen
    PROVE  OneWriterSpec => []LoadIsExact
<1>1. ASSUME wrecked \/ (StorageInv /\ ChainInv(w)) PROVE LoadIsExact
  <2> SUFFICES ASSUME StorageInv, ChainInv(w), NEW p \in Handle, h[p].clean
               PROVE  /\ h[p].pc # "failed"
                      /\ h[p].pc = "panicked" => h[p].mapped < fileLen
                      /\ h[p].pc = "loaded" => IsWhole(h[p].got, last[h[p].node])
    BY <1>1 DEF LoadIsExact
  <2> DEFINE n == h[p].node
             c == Chain(n)
  <2>1. n \in Block /\ Loading(h[p], n)
    BY DEF ChainInv, LoadOK
  <2>2. h[p].pc = "loaded" => IsWhole(h[p].got, last[n])
    <3> SUFFICES ASSUME h[p].pc = "loaded" PROVE IsWhole(h[p].got, last[n])
      OBVIOUS
    <3>1. h[p].got = Pieces(n) /\ Whole(n)
      BY <2>1 DEF Loading, ChainInv, AllWhole
    <3>2. c \in Seq(Block) /\ Len(c) \in Nat /\ Len(c) >= 1
      BY <2>1, ChainFacts DEF ChainInv
    <3>3. \A i \in 1..Len(c) : blocks[c[i]].piece = [of |-> last[n], part |-> i, parts |-> Len(c)]
      BY <3>1 DEF Whole, Written
    <3>4. Pieces(n) = [i \in 1..Len(c) |-> blocks[c[i]].piece]
      BY <3>2 DEF Pieces
    <3> DEFINE g == Pieces(n)
               k == Len(c)
    <3>5. Len(g) = k /\ \A i \in 1..k : g[i] = [of |-> last[n], part |-> i, parts |-> k]
      BY <3>2, <3>3, <3>4
    <3> HIDE DEF n, c, g, k
    <3>6. k \in Nat /\ 1 \in 1..k /\ k \in 1..k
      BY <3>2 DEF k
    <3>7. DOMAIN g = 1..k
      BY <3>4 DEF g, k
    <3>8. IsWhole(g, last[n])
      BY <3>5, <3>6, <3>7 DEF IsWhole
    <3> QED BY <3>1, <3>8 DEF g
  <2> QED BY <2>1, <2>2 DEF Loading
<1> QED BY <1>1, ChainInvariant, PTL
==============================================================================
