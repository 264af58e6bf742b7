------------------------------- MODULE Storage -------------------------------
(***************************************************************************)
(* The file below a tree: structures/mmap_tree/storage.rs, opened through  *)
(* Tree::new.  A node is a chain of blocks; every handle maps the file     *)
(* itself, and any other may read between two writes.  A step reads or     *)
(* writes one block or one word of the header.  The flag, the length and   *)
(* the data of a block are written one after the other; a store cut short  *)
(* among them leaves a chain and a length that one cut after all three     *)
(* leaves too, and what the data of a node so cut decodes to is left open. *)
(*                                                                         *)
(* Blocks are numbered from 1 in file order; 0 is the header, and as a     *)
(* pointer it means none.  Lengths are counted in blocks.  What a node     *)
(* serializes to is known by the store that wrote it, cut in pieces.       *)
(***************************************************************************)
EXTENDS Naturals, FiniteSets, SequencesExt

CONSTANTS
    Handle,     \* the storage managers open at a time
    Writers,    \* those whose trees insert; the others only search
    FirstLen,   \* blocks there is room for in a new file
    MaxSize,    \* bound: blocks a node takes
    MaxBlocks,  \* bound: blocks handed out
    MaxStores,  \* bound: nodes stored
    MaxCrashes  \* bound: crashes

ASSUME StorageAssumption ==
    /\ Writers \subseteq Handle
    /\ {FirstLen, MaxSize, MaxBlocks, MaxStores} \subseteq Nat \ {0}
    /\ MaxCrashes \in Nat

VARIABLES
    usedSpace,  \* header: blocks handed out
    rootOffset, \* header: the tree's root
    fileLen,    \* blocks the file has room for
    blocks,     \* what each block holds
    h,          \* the handles
    last,       \* history: the latest whole store of each node
    cut,        \* history: nodes whose latest store a crash cut short
    stores,     \* history: stores begun
    crashes,    \* history: crashes
    rolledBack, \* history: an open has written back a used space since exceeded
    wrecked     \* history: a store has written over the header

disk == <<usedSpace, rootOffset, fileLen, blocks>>
history == <<last, cut, stores, crashes, rolledBack, wrecked>>
vars == <<disk, h, history>>

Block == 1..MaxBlocks
Size == 1..MaxSize

Nothing == [of |-> 0, part |-> 0, parts |-> 0]
Piece == [of : Nat, part : 0..MaxSize, parts : 0..MaxSize]

BlockType == [primary : BOOLEAN, len : 0..MaxSize, piece : Piece, next : 0..MaxBlocks]

Blank == [primary |-> FALSE, len |-> 0, piece |-> Nothing, next |-> 0]

Storing == {"alloc", "allocWrite", "resize", "use", "write", "end"}
Stages == Storing \cup {"closed", "opening", "new", "setRoot", "open",
                        "load", "loaded", "failed", "panicked"}

(***************************************************************************)
(* A handle: its stage, the length it mapped, a used space it has read;    *)
(* the node it stores or loads and the block it is at; for a store, its    *)
(* number, size, previous size and blocks written; for a load, the pieces  *)
(* read, and (history) whether no store of the node overlaps it.           *)
(***************************************************************************)
Closed == [pc |-> "closed", mapped |-> 0, used |-> 0, node |-> 0, cur |-> 0,
           ver |-> 0, size |-> 0, prev |-> 0, done |-> 0, got |-> <<>>, clean |-> FALSE]

HandleType ==
    [pc : Stages, mapped : Nat, used : 0..MaxBlocks, node : 0..MaxBlocks, cur : 0..MaxBlocks,
     ver : Nat, size : 0..MaxSize, prev : 0..MaxSize, done : Nat, got : Seq(Piece),
     clean : BOOLEAN]

AtRest(p) == [Closed EXCEPT !.pc = "open", !.mapped = h[p].mapped]

(***************************************************************************)
(* The blocks from the first on (without end when they form a cycle: one   *)
(* more than there are), and the pieces load_node collects from them.      *)
(***************************************************************************)
ChainOf(file, first) ==
    LET from[fuel \in 0..MaxBlocks] ==
            [b \in Block |-> IF file[b].next = 0 \/ fuel = 0 THEN <<b>>
                             ELSE <<b>> \o from[fuel - 1][file[b].next]]
    IN  from[MaxBlocks][first]

Chain(first) == ChainOf(blocks, first)

Pieces(first) == LET chain == Chain(first) IN [i \in DOMAIN chain |-> blocks[chain[i]].piece]

(***************************************************************************)
(* The pieces begin with all those of one store.  Node::deserialize reads  *)
(* as much as the counts in the node ask for and ignores what follows, so  *)
(* what loads from these is what that store stored.  What loads from other *)
(* pieces, cut short or of two stores, depends on their bytes.             *)
(***************************************************************************)
IsWhole(pieces, ver) ==
    \E parts \in DOMAIN pieces :
        \A i \in 1..parts : pieces[i] = [of |-> ver, part |-> i, parts |-> parts]

(***************************************************************************)
(* LockService.acquire locks a file that it closes as it returns, which    *)
(* unlocks it: a load or a store is let in whoever is inside.              *)
(***************************************************************************)
Acquire(p, node) == TRUE

-----------------------------------------------------------------------------
(***************************************************************************)
(* StorageManager::new: the file is mapped, and the used space it holds is *)
(* read and, in a second step, written back.                               *)
(***************************************************************************)
Open(p) ==
    /\ h[p].pc = "closed"
    /\ h' = [h EXCEPT ![p] = [Closed EXCEPT !.pc = "opening", !.mapped = fileLen,
                                            !.used = usedSpace]]
    /\ UNCHANGED <<disk, history>>

WriteBack(p) ==
    /\ h[p].pc = "opening"
    /\ usedSpace' = h[p].used
    /\ rolledBack' = (rolledBack \/ h[p].used < usedSpace)
    /\ h' = [h EXCEPT ![p].pc = "new"]
    /\ UNCHANGED <<rootOffset, fileLen, blocks, last, cut, stores, crashes, wrecked>>

(***************************************************************************)
(* A new node has no offset yet and is given a block before anything.      *)
(***************************************************************************)
NewNode(p, size) ==
    [AtRest(p) EXCEPT !.pc = "alloc", !.ver = stores + 1, !.size = size]

(***************************************************************************)
(* The rest of Tree::new: a file nothing is allocated in is given a root.  *)
(***************************************************************************)
NewTree(p) ==
    /\ h[p].pc = "new"
    /\ \/ /\ usedSpace = 0
          /\ h' = [h EXCEPT ![p] = NewNode(p, 1)]
          /\ stores' = stores + 1
       \/ /\ usedSpace # 0
          /\ h' = [h EXCEPT ![p] = AtRest(p)]
          /\ UNCHANGED stores
    /\ UNCHANGED <<disk, last, cut, crashes, rolledBack, wrecked>>

SetRootOffset(p) ==
    /\ h[p].pc = "setRoot"
    /\ rootOffset' = h[p].node
    /\ h' = [h EXCEPT ![p] = AtRest(p)]
    /\ UNCHANGED <<usedSpace, fileLen, blocks, history>>

-----------------------------------------------------------------------------
(***************************************************************************)
(* store_node.  The tree stores nodes it has made and nodes it has loaded, *)
(* those a crash has cut short among them: a node whose last store only    *)
(* got as far as blocks with the bytes they had loads as it was, and the   *)
(* length of the store cut short is taken for the previous one.            *)
(***************************************************************************)
MayStore(p) ==
    /\ p \in Writers
    /\ h[p].pc = "open"
    /\ rootOffset # 0
    /\ stores < MaxStores

StoreNew(p, size) ==
    /\ MayStore(p)
    /\ usedSpace + size <= MaxBlocks
    /\ h' = [h EXCEPT ![p] = NewNode(p, size)]
    /\ stores' = stores + 1
    /\ UNCHANGED <<disk, last, cut, crashes, rolledBack, wrecked>>

StoreAgain(p, node, size) ==
    /\ MayStore(p)
    /\ node \in DOMAIN last
    /\ usedSpace + size <= MaxBlocks
    /\ h' = [q \in Handle |->
                IF q = p
                THEN [AtRest(p) EXCEPT !.pc = "write", !.node = node, !.cur = node,
                                       !.ver = stores + 1, !.size = size,
                                       !.prev = blocks[node].len]
                ELSE [h[q] EXCEPT !.clean = @ /\ h[q].node # node]]
    /\ stores' = stores + 1
    /\ UNCHANGED <<disk, last, cut, crashes, rolledBack, wrecked>>

(***************************************************************************)
(* increment_and_allocate_block: the used space is read, then written.     *)
(***************************************************************************)
AllocateCached(p) ==                \* a mutant: the handle's own copy is not read anew
    /\ h[p].pc = "alloc"
    /\ h' = [h EXCEPT ![p].pc = "allocWrite"]
    /\ UNCHANGED <<disk, history>>

Allocate(p) ==
    /\ h[p].pc = "alloc"
    /\ usedSpace < MaxBlocks
    /\ h' = [h EXCEPT ![p].used = usedSpace, ![p].pc = "allocWrite"]
    /\ UNCHANGED <<disk, history>>

AllocateWriteLate(p) ==             \* a mutant: the file grows a block too late
    /\ h[p].pc = "allocWrite"
    /\ usedSpace' = h[p].used + 1
    /\ h' = [h EXCEPT ![p].pc = IF h[p].used > h[p].mapped THEN "resize" ELSE "use"]
    /\ UNCHANGED <<rootOffset, fileLen, blocks, history>>

AllocateWrite(p) ==
    /\ h[p].pc = "allocWrite"
    /\ usedSpace' = h[p].used + 1
    /\ h' = [h EXCEPT ![p].pc = IF h[p].used + 1 > h[p].mapped THEN "resize" ELSE "use"]
    /\ UNCHANGED <<rootOffset, fileLen, blocks, history>>

(***************************************************************************)
(* resize_mmap gives the file twice the length this handle had mapped,     *)
(* whatever its length is, and maps it anew.                               *)
(***************************************************************************)
Resize(p) ==
    /\ h[p].pc = "resize"
    /\ fileLen' = 2 * h[p].mapped
    /\ blocks' = [b \in Block |-> IF b <= fileLen' THEN blocks[b] ELSE Blank]
    /\ h' = [h EXCEPT ![p].mapped = fileLen', ![p].pc = "use"]
    /\ UNCHANGED <<usedSpace, rootOffset, history>>

(***************************************************************************)
(* The block becomes the node's first, or the one before is linked to it.  *)
(***************************************************************************)
UseUnlinked(p) ==                   \* a mutant: the pointer is not written
    /\ h[p].pc = "use"
    /\ h' = [h EXCEPT ![p].pc = "write", ![p].cur = h[p].used + 1,
                      ![p].node = IF @ = 0 THEN h[p].used + 1 ELSE @]
    /\ UNCHANGED <<disk, history>>

UseBlockAsRoot(p) ==                \* a mutant: the root is named before it is stored
    /\ h[p].pc = "use"
    /\ LET block == h[p].used + 1 IN
       /\ h' = [h EXCEPT ![p].pc = "write", ![p].cur = block,
                         ![p].node = IF @ = 0 THEN block ELSE @]
       /\ blocks' = IF h[p].node = 0 THEN blocks
                    ELSE [blocks EXCEPT ![h[p].cur].next = block]
       /\ rootOffset' = IF rootOffset = 0 THEN block ELSE rootOffset
    /\ UNCHANGED <<usedSpace, fileLen, history>>

UseBlock(p) ==
    /\ h[p].pc = "use"
    /\ LET block == h[p].used + 1 IN
       /\ h' = [h EXCEPT ![p].pc = "write", ![p].cur = block,
                         ![p].node = IF @ = 0 THEN block ELSE @]
       /\ blocks' = IF h[p].node = 0 THEN blocks
                    ELSE [blocks EXCEPT ![h[p].cur].next = block]
    /\ UNCHANGED <<usedSpace, rootOffset, fileLen, history>>

(***************************************************************************)
(* One turn of the loop: a block gets the length of the whole node and its *)
(* piece.  The next block is the one linked already, or a fresh one once   *)
(* the blocks the node had are used up.                                    *)
(***************************************************************************)
AfterWriteLong(p, done) ==          \* a mutant: one turn too many
    IF done > h[p].size THEN "end"
    ELSE IF h[p].size > h[p].prev /\ done >= h[p].prev THEN "alloc"
    ELSE "write"

AfterWrite(p, done) ==
    IF done = h[p].size THEN "end"
    ELSE IF h[p].size > h[p].prev /\ done >= h[p].prev THEN "alloc"
    ELSE "write"

WriteBlock(p) ==
    /\ h[p].pc = "write"
    /\ h[p].cur \in 1..h[p].mapped
    /\ h[p].done = 0 => Acquire(p, h[p].node)
    /\ LET done == h[p].done + 1
           after == AfterWrite(p, done)
       IN  /\ blocks' = [blocks EXCEPT ![h[p].cur] =
                            [@ EXCEPT !.primary = h[p].done = 0,
                                      !.len = h[p].size,
                                      !.piece = [of |-> h[p].ver, part |-> done,
                                                 parts |-> h[p].size]]]
           /\ h' = [h EXCEPT ![p].done = done, ![p].pc = after,
                             ![p].cur = IF after = "write" THEN blocks[@].next ELSE @]
    /\ UNCHANGED <<usedSpace, rootOffset, fileLen, history>>

(***************************************************************************)
(* The chain has ended before the blocks the length promised were used up: *)
(* the store goes on at offset 0 (the case commented out in store_node),   *)
(* over the header and, but for its pointer, the first block.  Where it    *)
(* goes from there depends on bytes; what follows is left out.             *)
(***************************************************************************)
WriteOverHeader(p) ==
    /\ h[p].pc = "write"
    /\ h[p].cur = 0
    /\ wrecked' = TRUE
    /\ usedSpace' \in 0..MaxBlocks
    /\ rootOffset' \in 0..MaxBlocks
    /\ blocks' = [blocks EXCEPT ![1] = [Blank EXCEPT !.next = blocks[1].next]]
    /\ UNCHANGED <<fileLen, h, last, cut, stores, crashes, rolledBack>>

(***************************************************************************)
(* A block past what the handle has mapped (another writer's, or one that  *)
(* doubling a short mapping does not reach) panics: the request ends here. *)
(***************************************************************************)
PanicStore(p) ==
    /\ h[p].pc = "write"
    /\ h[p].cur > h[p].mapped
    /\ cut' = cut \cup {h[p].node}
    /\ h' = [h EXCEPT ![p] = Closed]
    /\ UNCHANGED <<disk, last, stores, crashes, rolledBack, wrecked>>

(***************************************************************************)
(* The last block points nowhere; blocks that followed it are not given    *)
(* back.  A node Tree::new made becomes the root; others are the tree's.   *)
(***************************************************************************)
EndStore(p) ==
    /\ h[p].pc = "end"
    /\ blocks' = [blocks EXCEPT ![h[p].cur].next = 0]
    /\ last' = [n \in DOMAIN last \cup {h[p].node} |->
                   IF n = h[p].node THEN h[p].ver ELSE last[n]]
    /\ cut' = cut \ {h[p].node}
    /\ h' = [h EXCEPT ![p] =
                IF rootOffset = 0 THEN [AtRest(p) EXCEPT !.pc = "setRoot", !.node = h[p].node]
                ELSE AtRest(p)]
    /\ UNCHANGED <<usedSpace, rootOffset, fileLen, stores, crashes, rolledBack, wrecked>>

(***************************************************************************)
(* A root split ends by naming the new root, a node stored by then.        *)
(***************************************************************************)
MoveRoot(p, node) ==
    /\ p \in Writers
    /\ h[p].pc = "open"
    /\ rootOffset # 0
    /\ node # rootOffset
    /\ node \in DOMAIN last
    /\ rootOffset' = node
    /\ UNCHANGED <<usedSpace, fileLen, blocks, h, history>>

-----------------------------------------------------------------------------
(***************************************************************************)
(* load_node, a block at a time, of a node some pointer names.             *)
(***************************************************************************)
BeingStored(node) == \E q \in Handle : h[q].pc \in Storing /\ h[q].node = node

Load(p, node) ==
    /\ h[p].pc = "open"
    /\ p \notin Writers
    /\ node \in DOMAIN last
    /\ Acquire(p, node)
    /\ h' = [h EXCEPT ![p] = [AtRest(p) EXCEPT !.pc = "load", !.node = node, !.cur = node,
                                      !.clean = node \notin cut /\ ~BeingStored(node)]]
    /\ UNCHANGED <<disk, history>>

(***************************************************************************)
(* A pointer past what the handle has mapped panics; a chain that does not *)
(* begin with a primary block is an error.                                 *)
(***************************************************************************)
ReadBlock(p) ==
    /\ h[p].pc = "load"
    /\ LET block == blocks[h[p].cur] IN
       h' = [h EXCEPT ![p] =
           IF @.cur > @.mapped THEN [@ EXCEPT !.pc = "panicked"]
           ELSE IF @.got = <<>> /\ ~block.primary THEN [@ EXCEPT !.pc = "failed"]
           ELSE [@ EXCEPT !.got = Append(h[p].got, block.piece), !.cur = block.next,
                          !.pc = IF block.next = 0 THEN "loaded" ELSE "load"]]
    /\ UNCHANGED <<disk, history>>

(***************************************************************************)
(* The handle is dropped, with the request that made it.                   *)
(***************************************************************************)
Close(p) ==
    /\ h[p].pc \in {"open", "loaded", "failed", "panicked"}
    /\ h' = [h EXCEPT ![p] = Closed]
    /\ UNCHANGED <<disk, history>>

(***************************************************************************)
(* The process dies: what was written to the mapped file stays.            *)
(***************************************************************************)
Crash ==
    /\ crashes < MaxCrashes
    /\ \E p \in Handle : h[p].pc # "closed"
    /\ crashes' = crashes + 1
    /\ cut' = cut \cup ({h[p].node : p \in {q \in Handle : h[q].pc \in Storing}} \ {0})
    /\ h' = [p \in Handle |-> Closed]
    /\ UNCHANGED <<disk, last, stores, rolledBack, wrecked>>

-----------------------------------------------------------------------------
Init == /\ usedSpace = 0
        /\ rootOffset = 0
        /\ fileLen = FirstLen
        /\ blocks = [b \in Block |-> Blank]
        /\ h = [p \in Handle |-> Closed]
        /\ last = <<>>
        /\ cut = {}
        /\ stores = 0
        /\ crashes = 0
        /\ rolledBack = FALSE
        /\ wrecked = FALSE

Store(p) == \/ \E size \in Size : StoreNew(p, size)
            \/ \E node \in Block, size \in Size : StoreAgain(p, node, size)
            \/ Allocate(p) \/ AllocateWrite(p) \/ Resize(p) \/ UseBlock(p)
            \/ WriteBlock(p) \/ WriteOverHeader(p) \/ EndStore(p)
            \/ SetRootOffset(p)
            \/ \E node \in Block : MoveRoot(p, node)

Read(p) == \/ \E node \in Block : Load(p, node)
           \/ ReadBlock(p)

Next ==
    /\ ~wrecked
    /\ \/ \E p \in Handle : Open(p) \/ WriteBack(p) \/ NewTree(p) \/ Close(p)
                             \/ Store(p) \/ PanicStore(p) \/ Read(p)
       \/ Crash

Spec == Init /\ [][Next]_vars

(***************************************************************************)
(* A file is created by a handle that stores, and what follows an open     *)
(* that undid an allocation is left out.  One writer never panics.         *)
(***************************************************************************)
OpenCreated(p) == (p \in Writers \/ rootOffset # 0) /\ Open(p)

NextCreated ==
    /\ ~rolledBack
    /\ ~wrecked
    /\ \/ \E p \in Handle : OpenCreated(p) \/ WriteBack(p) \/ NewTree(p) \/ Close(p)
                             \/ Store(p) \/ Read(p)
       \/ Crash

OneWriterSpec == Init /\ [][NextCreated]_vars

-----------------------------------------------------------------------------
(***************************************************************************)
(* Header, blocks, handles and histories have the types the code gives     *)
(* them.                                                                   *)
(***************************************************************************)
TypeOK ==
    /\ usedSpace \in 0..MaxBlocks
    /\ rootOffset \in 0..MaxBlocks
    /\ fileLen \in Nat
    /\ blocks \in [Block -> BlockType]
    /\ h \in [Handle -> HandleType]
    /\ \A p \in Handle : h[p].done <= h[p].size
    /\ DOMAIN last \subseteq Block
    /\ cut \subseteq Block
    /\ {stores, crashes} \subseteq Nat
    /\ {rolledBack, wrecked} \subseteq BOOLEAN

Reach(node) == ToSet(Chain(node))

InChain == DOMAIN last \cup ({h[p].node : p \in {q \in Handle : h[q].pc \in Storing}} \ {0})

(***************************************************************************)
(* The chains of two nodes never share a block, and each ends, inside the  *)
(* file and the space handed out: at every write of a store that grows or  *)
(* shrinks a node, and over nodes that a crash has cut short.  Two things  *)
(* end this: an open that writes back a used space an allocation had       *)
(* passed (storage.rs:71), and a store that a chain cut short has led to   *)
(* the header.                                                             *)
(***************************************************************************)
ChainsDisjoint ==
    ~rolledBack /\ ~wrecked =>
        \A n \in InChain :
            /\ Len(Chain(n)) <= usedSpace
            /\ Reach(n) \subseteq 1..usedSpace \cap 1..fileLen
            /\ \A m \in InChain \ {n} : Reach(n) \cap Reach(m) = {}

(***************************************************************************)
(* A store writes blocks of its own chain only, inside what its handle has *)
(* mapped, with one exception: it follows a null pointer into the header   *)
(* only over a node whose growth a crash has cut short and whose chain was *)
(* left with fewer blocks than the length in it promises.                  *)
(***************************************************************************)
CutShort(p) ==
    h[p].node \in cut /\ h[p].prev > Len(Chain(h[p].node))

StoreStaysInside ==
    ~wrecked =>
        \A p \in Handle :
            /\ h[p].mapped <= fileLen
            /\ h[p].pc \in {"write", "end"} =>
                   \/ h[p].cur \in Reach(h[p].node) \cap 1..h[p].mapped
                   \/ h[p].pc = "write" /\ h[p].cur = 0 /\ CutShort(p)

(***************************************************************************)
(* A load that no store of the same node overlaps, of a node whose latest  *)
(* store was not cut short, reads what that store wrote, whatever is       *)
(* stored, allocated, moved or resized meanwhile and whatever other nodes  *)
(* a crash has cut short, as long as no store of those has been led over   *)
(* the header.  It may panic, but only in a handle opened before the file  *)
(* grew.                                                                   *)
(***************************************************************************)
LoadIsExact ==
    \A p \in Handle :
        h[p].clean /\ ~rolledBack /\ ~wrecked =>
            /\ h[p].pc # "failed"
            /\ h[p].pc = "panicked" => h[p].mapped < fileLen
            /\ h[p].pc = "loaded" => IsWhole(h[p].got, last[h[p].node])

(***************************************************************************)
(* README.md:10 says the data is durable and persistent: the header would  *)
(* name a stored root, or none, at all times.  No run checks it: a store   *)
(* of a node whose growth a crash cut short writes over the header         *)
(* (storage.rs:94-101, 175-193).                                           *)
(***************************************************************************)
RootIsDurable == rootOffset # 0 => rootOffset \in DOMAIN last

(***************************************************************************)
(* The header names a root only once the root is stored whole: a file      *)
(* whose first store or root split a crash cuts short has the root before, *)
(* or none.  It holds until a store is led over the header.                *)
(***************************************************************************)
RootIsStored == ~wrecked => RootIsDurable
=============================================================================
