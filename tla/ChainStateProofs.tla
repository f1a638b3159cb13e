--------------------------- MODULE ChainStateProofs ---------------------------
(***************************************************************************)
(* Proofs about ChainState, for every tree of blocks and every bound.      *)
(***************************************************************************)
EXTENDS ChainState, TLAPS

-----------------------------------------------------------------------------
(***************************************************************************)
(* The tree of blocks.  An ancestor set is the least closed set, so what   *)
(* holds of it is shown by exhibiting a closed set.                        *)
(***************************************************************************)

\* A closed set that holds a block holds its ancestors.
LEMMA AncLeast ==
    ASSUME NEW b \in Block, NEW S \in SUBSET Block, b \in S, Closed(S)
    PROVE  Anc[b] \subseteq S
  BY DEF Anc

\* The ancestors are blocks, among them the block itself, and closed.
LEMMA AncBasic ==
    ASSUME NEW b \in Block
    PROVE  /\ Anc[b] \subseteq Block
           /\ b \in Anc[b]
           /\ Closed(Anc[b])
  <1>1. Anc[b] \subseteq Block /\ b \in Anc[b]
    BY DEF Anc
  <1>2. ASSUME NEW x \in Anc[b], Prev[x] # NULL
        PROVE  Prev[x] \in Anc[b]
    <2>1. x \in Block /\ Prev[x] \in Block
      BY <1>1, <1>2, BlockTreeAssumption
    <2>2. \A S \in SUBSET Block : b \in S /\ Closed(S) => Prev[x] \in S
      BY <1>2, <2>1 DEF Anc, Closed
    <2> QED
      BY <2>1, <2>2 DEF Anc
  <1> QED
    BY <1>1, <1>2 DEF Closed

\* An ancestor's ancestors are ancestors.
LEMMA AncTransitive ==
    ASSUME NEW b \in Block, NEW a \in Anc[b]
    PROVE  a \in Block /\ Anc[a] \subseteq Anc[b]
  BY AncBasic, AncLeast

\* A block's ancestors are itself and its parent's.
LEMMA AncStep ==
    ASSUME NEW b \in Block
    PROVE  Anc[b] = {b} \cup Chain(Prev[b])
  <1> DEFINE S == {b} \cup Chain(Prev[b])
  <1>1. S \subseteq Block /\ b \in S
    BY AncBasic, BlockTreeAssumption DEF Chain
  <1>2. Closed(S)
    BY AncBasic, BlockTreeAssumption DEF Chain, Closed
  <1>3. Anc[b] \subseteq S
    BY <1>1, <1>2, AncLeast
  <1>4. Chain(Prev[b]) \subseteq Anc[b]
    BY AncBasic, AncTransitive, BlockTreeAssumption DEF Chain, Closed
  <1> QED
    BY <1>3, <1>4, AncBasic

\* Work grows along a chain.
LEMMA AncWork ==
    ASSUME NEW b \in Block, NEW a \in Anc[b]
    PROVE  Work[a] <= Work[b] /\ (a # b => Work[a] < Work[b])
  <1> DEFINE S == {x \in Anc[b] : Work[x] <= Work[b] /\ (x # b => Work[x] < Work[b])}
  <1>1. S \subseteq Block /\ b \in S
    BY AncBasic, BlockTreeAssumption
  <1>2. ASSUME NEW x \in S, Prev[x] # NULL
        PROVE  Prev[x] \in S
    <2>1. x \in Block /\ x # Genesis /\ Prev[x] \in Anc[b] /\ Prev[x] \in Block
      BY <1>1, <1>2, AncBasic, BlockTreeAssumption DEF Closed
    <2>2. Work[Prev[x]] < Work[x]
      BY <2>1, BlockTreeAssumption
    <2>3. Work[x] \in Nat /\ Work[b] \in Nat /\ Work[Prev[x]] \in Nat
      BY <2>1, BlockTreeAssumption
    <2>4. Work[Prev[x]] < Work[b]
      BY <2>2, <2>3
    <2> QED
      BY <2>1, <2>3, <2>4
  <1>3. Closed(S)
    BY <1>2 DEF Closed
  <1>4. Anc[b] \subseteq S
    BY <1>1, <1>3, AncLeast
  <1> QED
    BY <1>4

\* Two blocks of one chain are ancestor and descendant.
LEMMA AncTotal ==
    ASSUME NEW t \in Block, NEW a \in Anc[t], NEW c \in Anc[t]
    PROVE  a \in Anc[c] \/ c \in Anc[a]
  <1> DEFINE S == {x \in Anc[t] : x \in Anc[c] \/ c \in Anc[x]}
  <1>1. S \subseteq Block /\ t \in S /\ c \in Block
    BY AncBasic
  <1>2. ASSUME NEW x \in S, Prev[x] # NULL
        PROVE  Prev[x] \in S
    <2>1. x \in Block /\ Prev[x] \in Anc[t] /\ Prev[x] \in Block
      BY <1>1, <1>2, AncBasic, BlockTreeAssumption DEF Closed
    <2>2. CASE x \in Anc[c]
      BY <1>1, <1>2, <2>1, <2>2, AncBasic DEF Closed
    <2>3. CASE c \in Anc[x] /\ c = x
      BY <1>1, <1>2, <2>1, <2>3, AncBasic DEF Closed
    <2>4. CASE c \in Anc[x] /\ c # x
      BY <1>2, <2>1, <2>4, AncStep DEF Chain
    <2> QED
      BY <2>2, <2>3, <2>4
  <1>3. Closed(S)
    BY <1>2 DEF Closed
  <1>4. Anc[t] \subseteq S
    BY <1>1, <1>3, AncLeast
  <1> QED
    BY <1>4

\* A block has at most one child on a chain.
LEMMA ChildUnique ==
    ASSUME NEW t \in MaybeBlock, NEW c \in Chain(t), NEW d \in Chain(t),
           Prev[c] = Prev[d]
    PROVE  c = d
  <1>1. t \in Block /\ c \in Block /\ d \in Block /\ c \in Anc[t] /\ d \in Anc[t]
    BY AncBasic DEF Chain, MaybeBlock
  <1>2. ASSUME NEW x \in Block, NEW y \in Block, x \in Anc[y], x # y,
               Prev[x] = Prev[y]
        PROVE  FALSE
    <2>1. x \in Chain(Prev[x])
      BY <1>2, AncStep
    <2>2. Prev[x] \in Block /\ x # Genesis /\ x \in Anc[Prev[x]]
      BY <2>1, BlockTreeAssumption DEF Chain
    <2>3. Work[x] <= Work[Prev[x]] /\ Work[Prev[x]] < Work[x]
      BY <2>2, AncWork, BlockTreeAssumption
    <2>4. Work[x] \in Nat /\ Work[Prev[x]] \in Nat
      BY <2>2, BlockTreeAssumption
    <2> QED
      BY <2>3, <2>4
  <1>3. c \in Anc[d] \/ d \in Anc[c]
    BY <1>1, AncTotal
  <1> QED
    BY <1>1, <1>2, <1>3

\* The same facts for a chain that may be empty.
LEMMA ChainBasic ==
    ASSUME NEW t \in MaybeBlock
    PROVE  /\ Chain(t) \subseteq Block
           /\ t # NULL => t \in Chain(t)
           /\ \A x \in Chain(t) : Chain(x) \subseteq Chain(t) /\ x # NULL
  BY AncBasic, AncTransitive, BlockTreeAssumption DEF Chain, MaybeBlock

\* A closed set that holds the tip of a chain holds the chain.
LEMMA ChainLeast ==
    ASSUME NEW t \in MaybeBlock, NEW S \in SUBSET Block, t \in S \cup {NULL},
           Closed(S)
    PROVE  Chain(t) \subseteq S
  BY AncLeast, BlockTreeAssumption DEF Chain, MaybeBlock

-----------------------------------------------------------------------------
(***************************************************************************)
(* Type correctness.                                                       *)
(***************************************************************************)

\* Every variable has its type in the initial state.
LEMMA TypeInit == Init => TypeOK
  <1>1. Init => MemoryTypeOK /\ DiskTypeOK /\ HandlerTypeOK
    BY BlockTreeAssumption
       DEF Init, MemoryTypeOK, DiskTypeOK, HandlerTypeOK, MaybeBlock
  <1>2. Init => vWorkQueue \in Seq(Block) /\ faults \in 0 .. MaxFaults
    BY FaultsAssumption DEF Init
  <1>3. Init => fRequestShutdown \in BOOLEAN
    BY DEF Init
  <1> QED
    BY <1>1, <1>2, <1>3 DEF TypeOK

\* What a process starts from in memory has its type.
LEMMA LostType ==
    LoseMemory => /\ MemoryTypeOK' /\ HandlerTypeOK'
                  /\ vWorkQueue' \in Seq(Block)
                  /\ fRequestShutdown' \in BOOLEAN
  <1>1. LoseMemory => MemoryTypeOK' /\ HandlerTypeOK' /\ vWorkQueue' \in Seq(Block)
    BY DEF LoseMemory, MemoryTypeOK, HandlerTypeOK, MaybeBlock
  <1>2. LoseMemory => fRequestShutdown' \in BOOLEAN
    BY DEF LoseMemory
  <1> QED
    BY <1>1, <1>2

\* Every step of the node keeps every variable in its type.
LEMMA TypeStep == TypeOK /\ [Next]_vars => TypeOK'
  <1> SUFFICES ASSUME TypeOK, [Next]_vars PROVE TypeOK'
    OBVIOUS
  <1> USE BlockTreeAssumption, FaultsAssumption
  <1>1. ASSUME NEW b \in Block, HoldOrphan(b) PROVE TypeOK'
    BY <1>1 DEF HoldOrphan, TypeOK, MemoryTypeOK, DiskTypeOK, HandlerTypeOK,
       index, chain, disk, handler, MaybeBlock
  <1>2. ASSUME NEW b \in Block, AcceptBlock(b) PROVE TypeOK'
    BY <1>2 DEF AcceptBlock, AddToBlockIndex, IsNew, TypeOK, MemoryTypeOK,
       DiskTypeOK, HandlerTypeOK, index, chain, disk, handler, MaybeBlock
  <1>3. ASSUME NEW b \in Block, TryOrphan(b) PROVE TypeOK'
    <2>1. MemoryTypeOK'
      BY <1>3 DEF TryOrphan, AddToBlockIndex, TypeOK, index, chain, disk,
         handler, MaybeBlock, MemoryTypeOK
    <2>2. DiskTypeOK'
      BY <1>3 DEF TryOrphan, AddToBlockIndex, TypeOK, index, chain, disk,
         handler, MaybeBlock, DiskTypeOK, MemoryTypeOK
    <2>3. HandlerTypeOK'
      BY <1>3 DEF TryOrphan, AddToBlockIndex, TypeOK, index, chain, disk,
         handler, MaybeBlock, HandlerTypeOK, MemoryTypeOK
    <2>4. vWorkQueue' \in Seq(Block)
      BY <1>3 DEF TryOrphan, AddToBlockIndex, TypeOK, index, chain, disk,
         handler, MaybeBlock, HandlerTypeOK
    <2>5. fRequestShutdown' \in BOOLEAN
      BY <1>3 DEF TryOrphan, AddToBlockIndex, TypeOK, index, chain, disk,
         handler, MaybeBlock
    <2>6. faults' \in 0 .. MaxFaults
      BY <1>3 DEF TryOrphan, AddToBlockIndex, TypeOK, index, chain, disk,
         handler, MaybeBlock
    <2> QED
      BY <2>1, <2>2, <2>3, <2>4, <2>5, <2>6 DEF TypeOK
  <1>4. CASE NextInWorkQueue
    <2>1. MemoryTypeOK'
      BY <1>4 DEF NextInWorkQueue, TypeOK, index, chain, disk, handler,
         MaybeBlock, MemoryTypeOK
    <2>2. DiskTypeOK'
      BY <1>4 DEF NextInWorkQueue, TypeOK, index, chain, disk, handler,
         MaybeBlock, DiskTypeOK, MemoryTypeOK
    <2>3. HandlerTypeOK'
      BY <1>4 DEF NextInWorkQueue, TypeOK, index, chain, disk, handler,
         MaybeBlock, HandlerTypeOK, MemoryTypeOK
    <2>4. vWorkQueue' \in Seq(Block)
      BY <1>4 DEF NextInWorkQueue, TypeOK, index, chain, disk, handler,
         MaybeBlock, HandlerTypeOK
    <2>5. fRequestShutdown' \in BOOLEAN
      BY <1>4 DEF NextInWorkQueue, TypeOK, index, chain, disk, handler,
         MaybeBlock
    <2>6. faults' \in 0 .. MaxFaults
      BY <1>4 DEF NextInWorkQueue, TypeOK, index, chain, disk, handler,
         MaybeBlock
    <2> QED
      BY <2>1, <2>2, <2>3, <2>4, <2>5, <2>6 DEF TypeOK
  <1>5. CASE ProcessBlockDone
    BY <1>5 DEF ProcessBlockDone, TypeOK, MemoryTypeOK, DiskTypeOK,
       HandlerTypeOK, index, chain, disk, handler, MaybeBlock
  <1>6. CASE NoBetterCandidate
    BY <1>6 DEF NoBetterCandidate, TypeOK, MemoryTypeOK, DiskTypeOK,
       HandlerTypeOK, index, chain, disk, handler, MaybeBlock
  <1>7. ASSUME NEW b \in Block, MarkFailedDescendants(b) PROVE TypeOK'
    <2>1. FailedDescendants(b) \subseteq Block
      BY AncBasic DEF FailedDescendants, Walk
    <2>2. DiskTypeOK' /\ faults' \in 0 .. MaxFaults
      BY <1>7, <2>1 DEF MarkFailedDescendants, BestInvalid, TypeOK, DiskTypeOK
    <2>3. CASE pindexBest = NULL /\ LoseMemory
      BY <1>7, <2>2, <2>3, LostType DEF TypeOK
    <2>4. CASE pindexBest # NULL
      BY <1>7, <2>1, <2>2, <2>4 DEF MarkFailedDescendants, MarkFailed, TypeOK,
         MemoryTypeOK, HandlerTypeOK, handler
    <2> QED
      BY <1>7, <2>3, <2>4 DEF MarkFailedDescendants
  <1>8. ASSUME NEW b \in Block, StartAttach(b) PROVE TypeOK'
    BY <1>8, AncBasic DEF StartAttach, TypeOK, MemoryTypeOK, DiskTypeOK,
       HandlerTypeOK, index, chain, disk, handler, MaybeBlock, ToAttach, Walk
  <1>9. CASE AttachDone
    BY <1>9 DEF AttachDone, TypeOK, MemoryTypeOK, DiskTypeOK, HandlerTypeOK,
       index, chain, disk, handler, MaybeBlock
  <1>10. ASSUME NEW b \in Block, SetBestChain(b) PROVE TypeOK'
    BY <1>10 DEF SetBestChain, TypeOK, MemoryTypeOK, DiskTypeOK,
       HandlerTypeOK, index, chain, disk, handler, MaybeBlock
  <1>11. CASE DisconnectBlock
    BY <1>11 DEF DisconnectBlock, TypeOK, MemoryTypeOK, DiskTypeOK,
       HandlerTypeOK, index, chain, disk, handler, MaybeBlock
  <1>12. ASSUME NEW b \in Block, ConnectBlock(b) PROVE TypeOK'
    BY <1>12 DEF ConnectBlock, UndoWritten, TypeOK, MemoryTypeOK, DiskTypeOK,
       HandlerTypeOK, index, chain, disk, handler, MaybeBlock
  <1>13. ASSUME NEW b \in Block, ConnectBlockInvalid(b) PROVE TypeOK'
    <2>1. MemoryTypeOK'
      BY <1>13 DEF ConnectBlockInvalid, InvalidBlockFound, SetBestChainFails,
         TypeOK, MemoryTypeOK
    <2>2. HandlerTypeOK'
      BY <1>13 DEF ConnectBlockInvalid, InvalidBlockFound, SetBestChainFails,
         TypeOK, MemoryTypeOK, HandlerTypeOK, MaybeBlock
    <2>3. nBestInvalidWork' \in Nat
      BY <1>13 DEF ConnectBlockInvalid, InvalidBlockFound, SetBestChainFails,
         TypeOK, DiskTypeOK, HandlerTypeOK, BestInvalid, Connects, MaybeBlock
    <2>4. DiskTypeOK'
      BY <1>13, <2>3 DEF ConnectBlockInvalid, InvalidBlockFound, SetBestChainFails,
         TypeOK, DiskTypeOK
    <2>5. vWorkQueue' \in Seq(Block) /\ fRequestShutdown' \in BOOLEAN
         /\ faults' \in 0 .. MaxFaults
      BY <1>13 DEF ConnectBlockInvalid, InvalidBlockFound, SetBestChainFails,
         TypeOK
    <2> QED
      BY <2>1, <2>2, <2>4, <2>5 DEF TypeOK
  <1>14. CASE SwitchTip
    BY <1>14, ChainBasic DEF SwitchTip, TypeOK, MemoryTypeOK, DiskTypeOK,
       HandlerTypeOK, index, chain, disk, handler, MaybeBlock, NewLinks,
       vConnect, vDisconnect
  <1>15. CASE AcceptBlockReturns
    <2>1. MemoryTypeOK'
      BY <1>15 DEF AcceptBlockReturns, NewWorkQueue, TypeOK, index, chain, disk,
         handler, MaybeBlock, MemoryTypeOK
    <2>2. DiskTypeOK'
      BY <1>15 DEF AcceptBlockReturns, NewWorkQueue, TypeOK, index, chain, disk,
         handler, MaybeBlock, DiskTypeOK, MemoryTypeOK
    <2>3. HandlerTypeOK'
      BY <1>15 DEF AcceptBlockReturns, NewWorkQueue, TypeOK, index, chain, disk,
         handler, MaybeBlock, HandlerTypeOK, MemoryTypeOK
    <2>4. vWorkQueue' \in Seq(Block)
      BY <1>15 DEF AcceptBlockReturns, NewWorkQueue, TypeOK, index, chain, disk,
         handler, MaybeBlock, HandlerTypeOK
    <2>5. fRequestShutdown' \in BOOLEAN
      BY <1>15 DEF AcceptBlockReturns, NewWorkQueue, TypeOK, index, chain, disk,
         handler, MaybeBlock
    <2>6. faults' \in 0 .. MaxFaults
      BY <1>15 DEF AcceptBlockReturns, NewWorkQueue, TypeOK, index, chain, disk,
         handler, MaybeBlock
    <2> QED
      BY <2>1, <2>2, <2>3, <2>4, <2>5, <2>6 DEF TypeOK
  <1>16. CASE GenesisAdded
    BY <1>16 DEF GenesisAdded, TypeOK, MemoryTypeOK, DiskTypeOK,
       HandlerTypeOK, index, chain, disk, handler, MaybeBlock
  <1>17. CASE InitDone
    BY <1>17 DEF InitDone, TypeOK, MemoryTypeOK, DiskTypeOK, HandlerTypeOK,
       index, chain, disk, handler, MaybeBlock
  <1>18. CASE InitError
    <2>1. MemoryTypeOK' /\ HandlerTypeOK' /\ vWorkQueue' \in Seq(Block) /\
       fRequestShutdown' \in BOOLEAN
      BY <1>18, LostType DEF InitError, FlushAndExit
    <2>2. DiskTypeOK'
      BY <1>18 DEF InitError, TypeOK, DiskTypeOK, FlushAndExit, disk,
         MemoryTypeOK, MaybeBlock
    <2>3. faults' \in 0 .. MaxFaults
      BY <1>18 DEF InitError, FlushAndExit, TypeOK
    <2> QED
      BY <2>1, <2>2, <2>3 DEF TypeOK
  <1>19. CASE Interrupted
    <2>1. MemoryTypeOK'
      BY <1>19 DEF Interrupted, TypeOK, index, chain, disk, handler, MaybeBlock,
         MemoryTypeOK
    <2>2. DiskTypeOK'
      BY <1>19 DEF Interrupted, TypeOK, index, chain, disk, handler, MaybeBlock,
         DiskTypeOK, MemoryTypeOK
    <2>3. HandlerTypeOK'
      BY <1>19 DEF Interrupted, TypeOK, index, chain, disk, handler, MaybeBlock,
         HandlerTypeOK, MemoryTypeOK
    <2>4. vWorkQueue' \in Seq(Block)
      BY <1>19 DEF Interrupted, TypeOK, index, chain, disk, handler, MaybeBlock,
         HandlerTypeOK
    <2>5. fRequestShutdown' \in BOOLEAN
      BY <1>19 DEF Interrupted, TypeOK, index, chain, disk, handler, MaybeBlock
    <2>6. faults' \in 0 .. MaxFaults
      BY <1>19 DEF Interrupted, TypeOK, index, chain, disk, handler, MaybeBlock
    <2> QED
      BY <2>1, <2>2, <2>3, <2>4, <2>5, <2>6 DEF TypeOK
  <1>20. CASE Start
    <2>1. MemoryTypeOK'
      BY <1>20, ChainBasic DEF Start, LoadBlockIndexDB, TypeOK, index, chain,
         disk, handler, MaybeBlock, MemoryTypeOK, DiskTypeOK
    <2>2. DiskTypeOK'
      BY <1>20, ChainBasic DEF Start, LoadBlockIndexDB, TypeOK, index, chain,
         disk, handler, MaybeBlock, DiskTypeOK, MemoryTypeOK
    <2>3. HandlerTypeOK'
      BY <1>20, ChainBasic DEF Start, LoadBlockIndexDB, TypeOK, index, chain,
         disk, handler, MaybeBlock, HandlerTypeOK, MemoryTypeOK
    <2>4. vWorkQueue' \in Seq(Block)
      BY <1>20, ChainBasic DEF Start, LoadBlockIndexDB, TypeOK, index, chain,
         disk, handler, MaybeBlock, HandlerTypeOK
    <2>5. fRequestShutdown' \in BOOLEAN
      BY <1>20, ChainBasic DEF Start, LoadBlockIndexDB, TypeOK, index, chain,
         disk, handler, MaybeBlock
    <2>6. faults' \in 0 .. MaxFaults
      BY <1>20, ChainBasic DEF Start, LoadBlockIndexDB, TypeOK, index, chain,
         disk, handler, MaybeBlock
    <2> QED
      BY <2>1, <2>2, <2>3, <2>4, <2>5, <2>6 DEF TypeOK
  <1>21. CASE StartShutdown
    BY <1>21 DEF StartShutdown, TypeOK, MemoryTypeOK, DiskTypeOK,
       HandlerTypeOK, index, chain, disk, handler, MaybeBlock
  <1>22. CASE Shutdown
    <2>1. MemoryTypeOK' /\ HandlerTypeOK' /\ vWorkQueue' \in Seq(Block) /\
       fRequestShutdown' \in BOOLEAN
      BY <1>22, LostType DEF Shutdown, FlushAndExit
    <2>2. DiskTypeOK'
      BY <1>22 DEF Shutdown, TypeOK, DiskTypeOK, FlushAndExit, disk,
         MemoryTypeOK, MaybeBlock
    <2>3. faults' \in 0 .. MaxFaults
      BY <1>22 DEF Shutdown, FlushAndExit, TypeOK
    <2> QED
      BY <2>1, <2>2, <2>3 DEF TypeOK
  <1>23. ASSUME NEW b \in Block, AcceptBlockError(b) PROVE TypeOK'
    <2>1. MemoryTypeOK'
      BY <1>23 DEF AcceptBlockError, DiskSpaceLow, TypeOK, index, chain, disk,
         handler, MaybeBlock, MemoryTypeOK
    <2>2. DiskTypeOK'
      BY <1>23 DEF AcceptBlockError, DiskSpaceLow, TypeOK, index, chain, disk,
         handler, MaybeBlock, DiskTypeOK, MemoryTypeOK
    <2>3. HandlerTypeOK'
      BY <1>23 DEF AcceptBlockError, DiskSpaceLow, TypeOK, index, chain, disk,
         handler, MaybeBlock, HandlerTypeOK, MemoryTypeOK
    <2>4. vWorkQueue' \in Seq(Block)
      BY <1>23 DEF AcceptBlockError, DiskSpaceLow, TypeOK, index, chain, disk,
         handler, MaybeBlock, HandlerTypeOK
    <2>5. fRequestShutdown' \in BOOLEAN
      BY <1>23 DEF AcceptBlockError, DiskSpaceLow, TypeOK, index, chain, disk,
         handler, MaybeBlock
    <2>6. faults' \in 0 .. MaxFaults
      BY <1>23 DEF AcceptBlockError, DiskSpaceLow, TypeOK, index, chain, disk,
         handler, MaybeBlock
    <2> QED
      BY <2>1, <2>2, <2>3, <2>4, <2>5, <2>6 DEF TypeOK
  <1>24. ASSUME NEW b \in Block, TryOrphanError(b) PROVE TypeOK'
    <2>1. MemoryTypeOK'
      BY <1>24 DEF TryOrphanError, DiskSpaceLow, TypeOK, index, chain, disk,
         handler, MaybeBlock, MemoryTypeOK
    <2>2. DiskTypeOK'
      BY <1>24 DEF TryOrphanError, DiskSpaceLow, TypeOK, index, chain, disk,
         handler, MaybeBlock, DiskTypeOK, MemoryTypeOK
    <2>3. HandlerTypeOK'
      BY <1>24 DEF TryOrphanError, DiskSpaceLow, TypeOK, index, chain, disk,
         handler, MaybeBlock, HandlerTypeOK, MemoryTypeOK
    <2>4. vWorkQueue' \in Seq(Block)
      BY <1>24 DEF TryOrphanError, DiskSpaceLow, TypeOK, index, chain, disk,
         handler, MaybeBlock, HandlerTypeOK
    <2>5. fRequestShutdown' \in BOOLEAN
      BY <1>24 DEF TryOrphanError, DiskSpaceLow, TypeOK, index, chain, disk,
         handler, MaybeBlock
    <2>6. faults' \in 0 .. MaxFaults
      BY <1>24 DEF TryOrphanError, DiskSpaceLow, TypeOK, index, chain, disk,
         handler, MaybeBlock
    <2> QED
      BY <2>1, <2>2, <2>3, <2>4, <2>5, <2>6 DEF TypeOK
  <1>25. ASSUME NEW b \in Block, ConnectBlockError(b) PROVE TypeOK'
    <2>1. MemoryTypeOK'
      BY <1>25 DEF ConnectBlockError, DiskSpaceLow, SetBestChainFails, TypeOK,
         index, chain, disk, handler, MaybeBlock, Connects, MemoryTypeOK
    <2>2. DiskTypeOK'
      BY <1>25 DEF ConnectBlockError, DiskSpaceLow, SetBestChainFails, TypeOK,
         index, chain, disk, handler, MaybeBlock, Connects, DiskTypeOK, MemoryTypeOK
    <2>3. HandlerTypeOK'
      BY <1>25 DEF ConnectBlockError, DiskSpaceLow, SetBestChainFails, TypeOK,
         index, chain, disk, handler, MaybeBlock, Connects, HandlerTypeOK, MemoryTypeOK
    <2>4. vWorkQueue' \in Seq(Block)
      BY <1>25 DEF ConnectBlockError, DiskSpaceLow, SetBestChainFails, TypeOK,
         index, chain, disk, handler, MaybeBlock, Connects
    <2>5. fRequestShutdown' \in BOOLEAN
      BY <1>25 DEF ConnectBlockError, DiskSpaceLow, SetBestChainFails, TypeOK,
         index, chain, disk, handler, MaybeBlock, Connects
    <2>6. faults' \in 0 .. MaxFaults
      BY <1>25 DEF ConnectBlockError, DiskSpaceLow, SetBestChainFails, TypeOK,
         index, chain, disk, handler, MaybeBlock, Connects
    <2> QED
      BY <2>1, <2>2, <2>3, <2>4, <2>5, <2>6 DEF TypeOK
  <1>26. CASE SwitchTipError
    <2>1. MemoryTypeOK'
      BY <1>26 DEF SwitchTipError, DiskSpaceLow, SetBestChainFails, TypeOK,
         index, chain, disk, handler, MaybeBlock, MemoryTypeOK, HandlerTypeOK
    <2>2. DiskTypeOK'
      BY <1>26 DEF SwitchTipError, DiskSpaceLow, SetBestChainFails, TypeOK,
         index, chain, disk, handler, MaybeBlock, DiskTypeOK, MemoryTypeOK
    <2>3. HandlerTypeOK'
      BY <1>26 DEF SwitchTipError, DiskSpaceLow, SetBestChainFails, TypeOK,
         index, chain, disk, handler, MaybeBlock, HandlerTypeOK, MemoryTypeOK
    <2>4. vWorkQueue' \in Seq(Block)
      BY <1>26 DEF SwitchTipError, DiskSpaceLow, SetBestChainFails, TypeOK,
         index, chain, disk, handler, MaybeBlock
    <2>5. fRequestShutdown' \in BOOLEAN
      BY <1>26 DEF SwitchTipError, DiskSpaceLow, SetBestChainFails, TypeOK,
         index, chain, disk, handler, MaybeBlock
    <2>6. faults' \in 0 .. MaxFaults
      BY <1>26 DEF SwitchTipError, DiskSpaceLow, SetBestChainFails, TypeOK,
         index, chain, disk, handler, MaybeBlock
    <2> QED
      BY <2>1, <2>2, <2>3, <2>4, <2>5, <2>6 DEF TypeOK
  <1>27. CASE Crash
    <2>1. MemoryTypeOK' /\ HandlerTypeOK' /\ vWorkQueue' \in Seq(Block) /\
       fRequestShutdown' \in BOOLEAN
      BY <1>27, LostType DEF Crash
    <2>2. DiskTypeOK'
      BY <1>27 DEF Crash, TypeOK, DiskTypeOK, disk, MemoryTypeOK, MaybeBlock
    <2>3. faults' \in 0 .. MaxFaults
      BY <1>27 DEF Crash, TypeOK
    <2> QED
      BY <2>1, <2>2, <2>3 DEF TypeOK
  <1>28. ASSUME NEW b \in Block, CrashInMarking(b) PROVE TypeOK'
    <2>1. MemoryTypeOK' /\ HandlerTypeOK' /\ vWorkQueue' \in Seq(Block) /\
       fRequestShutdown' \in BOOLEAN
      BY <1>28, LostType DEF CrashInMarking
    <2>2. DiskTypeOK'
      BY <1>28, AncBasic DEF CrashInMarking, TypeOK, DiskTypeOK,
         FailedDescendants, Walk, disk, MemoryTypeOK, MaybeBlock
    <2>3. faults' \in 0 .. MaxFaults
      BY <1>28 DEF CrashInMarking, TypeOK
    <2> QED
      BY <2>1, <2>2, <2>3 DEF TypeOK
  <1>29. ASSUME NEW b \in Block, CrashInInvalidFound(b) PROVE TypeOK'
    <2>1. MemoryTypeOK' /\ HandlerTypeOK' /\ vWorkQueue' \in Seq(Block) /\
       fRequestShutdown' \in BOOLEAN
      BY <1>29, LostType DEF CrashInInvalidFound
    <2>2. DiskTypeOK'
      <3>1. pindexNew \in Block
        BY <1>29 DEF CrashInInvalidFound, Connects, vConnect, Chain, TypeOK,
           HandlerTypeOK, MaybeBlock
      <3>2. nBestInvalidWork' \in Nat
        BY <1>29, <3>1, BlockTreeAssumption
           DEF CrashInInvalidFound, BestInvalid, TypeOK, DiskTypeOK
      <3> QED
        BY <1>29, <3>2 DEF CrashInInvalidFound, TypeOK, DiskTypeOK
    <2>3. faults' \in 0 .. MaxFaults
      BY <1>29 DEF CrashInInvalidFound, TypeOK
    <2> QED
      BY <2>1, <2>2, <2>3 DEF TypeOK
  <1>30. CASE UNCHANGED vars
    BY <1>30 DEF TypeOK, MemoryTypeOK, DiskTypeOK, HandlerTypeOK, index,
       chain, disk, handler, MaybeBlock, vars
  <1> QED
    BY <1>1, <1>2, <1>3, <1>4, <1>5, <1>6, <1>7, <1>8, <1>9, <1>10, <1>11,
       <1>12, <1>13, <1>14, <1>15, <1>16, <1>17, <1>18, <1>19, <1>20, <1>21,
       <1>22, <1>23, <1>24, <1>25, <1>26, <1>27, <1>28, <1>29, <1>30 DEF
       Next, HandlerStep, Fault

\* TypeOK holds in every state the node can be in.
THEOREM TypeCorrect == Spec => []TypeOK
  BY TypeInit, TypeStep, PTL DEF Spec

-----------------------------------------------------------------------------
(***************************************************************************)
(* The index in memory and on disk.                                        *)
(***************************************************************************)

\* A running node has on disk what it has in memory; the index is closed
\* under pprev.
IndexInv ==
    /\ Closed(dbIndex) /\ dbFailed \subseteq dbIndex
    /\ pc # "down" => mapBlockIndex = dbIndex /\ failed = dbFailed /\ haveUndo = dbUndo
    /\ pc = "down" => mapBlockIndex = {} /\ failed = {} /\ haveUndo = {}
    /\ CandidatesRight

\* Every block the node refers to is in the index.
Known == mapBlockIndex \cup {NULL}
RefInv ==
    /\ cur \in Known /\ pindexNew \in Known /\ viewTip \in Known
    /\ coinsTip \in Known /\ pindexBest \in Known
    /\ dbCoinsTip \in dbIndex \cup {NULL}
    /\ vAttach \subseteq mapBlockIndex
    /\ \A i \in 1 .. Len(vWorkQueue) : vWorkQueue[i] \in mapBlockIndex
    /\ pc = "switch" => pindexNew # NULL

\* The chain of a block in the index is in the index.
LEMMA KnownChain ==
    ASSUME TypeOK, IndexInv, NEW t \in dbIndex \cup {NULL}
    PROVE  Chain(t) \subseteq dbIndex
  BY ChainLeast DEF TypeOK, DiskTypeOK, IndexInv, MaybeBlock

\* The blocks SetBestChain connects are in the index.
LEMMA ConnectsKnown ==
    ASSUME TypeOK, IndexInv, RefInv, NEW b \in Block, Connects(b)
    PROVE  b \in dbIndex /\ pc # "down"
  BY KnownChain DEF Connects, vConnect, RefInv, Known, IndexInv

\* The blocks marked as failed children are in the index.
LEMMA DescendantsKnown ==
    ASSUME TypeOK, IndexInv, NEW b \in Block, IsTop(b)
    PROVE  FailedDescendants(b) \subseteq mapBlockIndex /\ Walk(b) \subseteq mapBlockIndex
  <1>1. b \in mapBlockIndex /\ pc # "down"
    BY DEF IsTop, IndexInv, CandidatesRight
  <1>2. Anc[b] \subseteq mapBlockIndex
    BY <1>1, KnownChain, BlockTreeAssumption DEF IndexInv, Chain
  <1> QED
    BY <1>2 DEF FailedDescendants, Walk

\* A handler step keeps the index sound: no failed block becomes a candidate
\* again and none is forgotten.
LEMMA IndexStep == TypeOK /\ IndexInv /\ RefInv /\ [Next]_vars => IndexInv'
  <1> SUFFICES ASSUME TypeOK, IndexInv, RefInv, [Next]_vars PROVE IndexInv'
    OBVIOUS
  <1> USE BlockTreeAssumption
  <1>1. ASSUME NEW b \in Block, HoldOrphan(b) PROVE IndexInv'
    BY <1>1 DEF HoldOrphan, IndexInv, CandidatesRight, index, chain, disk,
       handler
  <1>2. ASSUME NEW b \in Block, AcceptBlock(b) PROVE IndexInv'
    BY <1>2 DEF AcceptBlock, AddToBlockIndex, IsNew, IndexInv,
       CandidatesRight, index, chain, disk, handler, Closed
  <1>3. ASSUME NEW b \in Block, TryOrphan(b) PROVE IndexInv'
    <2>1. Head(vWorkQueue) \in mapBlockIndex
      BY <1>3 DEF TryOrphan, RefInv, TypeOK
    <2>2. mapBlockIndex = dbIndex /\ failed = dbFailed /\ haveUndo = dbUndo
      BY <1>3 DEF TryOrphan, IndexInv
    <2>3. CASE b \notin BadHeader \cup mapBlockIndex /\ AddToBlockIndex(b)
      <3>1. Prev[b] \in dbIndex /\ b \notin dbFailed
        BY <1>3, <2>1, <2>2, <2>3 DEF TryOrphan, IndexInv
      <3>2. Closed(dbIndex')
        BY <2>3, <3>1 DEF AddToBlockIndex, IndexInv, Closed
      <3> QED
        BY <2>2, <2>3, <3>1, <3>2 DEF AddToBlockIndex, IndexInv, CandidatesRight
    <2>4. CASE b \in BadHeader \cup mapBlockIndex
      BY <1>3, <2>2, <2>4 DEF TryOrphan, AddToBlockIndex, IndexInv, CandidatesRight,
         index, chain, disk
    <2> QED
      BY <1>3, <2>3, <2>4 DEF TryOrphan
  <1>4. CASE NextInWorkQueue
    BY <1>4 DEF NextInWorkQueue, IndexInv, CandidatesRight, index, chain,
       disk, handler
  <1>5. CASE ProcessBlockDone
    BY <1>5 DEF ProcessBlockDone, IndexInv, CandidatesRight, index, chain,
       disk, handler
  <1>6. CASE NoBetterCandidate
    BY <1>6 DEF NoBetterCandidate, IndexInv, CandidatesRight, index, chain,
       disk, handler
  <1>7. ASSUME NEW b \in Block, MarkFailedDescendants(b) PROVE IndexInv'
    BY <1>7, DescendantsKnown DEF MarkFailedDescendants, MarkFailed,
       LoseMemory, IndexInv, CandidatesRight, index, chain, disk, handler
  <1>8. ASSUME NEW b \in Block, StartAttach(b) PROVE IndexInv'
    BY <1>8 DEF StartAttach, IndexInv, CandidatesRight, index, chain, disk,
       handler
  <1>9. CASE AttachDone
    BY <1>9 DEF AttachDone, IndexInv, CandidatesRight, index, chain, disk,
       handler
  <1>10. ASSUME NEW b \in Block, SetBestChain(b) PROVE IndexInv'
    BY <1>10 DEF SetBestChain, IndexInv, CandidatesRight, index, chain, disk,
       handler
  <1>11. CASE DisconnectBlock
    BY <1>11 DEF DisconnectBlock, IndexInv, CandidatesRight, index, chain,
       disk, handler
  <1>12. ASSUME NEW b \in Block, ConnectBlock(b) PROVE IndexInv'
    BY <1>12, ConnectsKnown DEF ConnectBlock, UndoWritten, IndexInv,
       CandidatesRight, index, chain, disk, handler
  <1>13. ASSUME NEW b \in Block, ConnectBlockInvalid(b) PROVE IndexInv'
    BY <1>13, ConnectsKnown DEF ConnectBlockInvalid, InvalidBlockFound,
       SetBestChainFails, IndexInv, CandidatesRight, index, chain, disk,
       handler
  <1>14. CASE SwitchTip
    BY <1>14 DEF SwitchTip, IndexInv, CandidatesRight, index, chain, disk,
       handler
  <1>15. CASE AcceptBlockReturns
    BY <1>15 DEF AcceptBlockReturns, IndexInv, CandidatesRight, index, chain,
       disk, handler
  <1>16. CASE GenesisAdded
    BY <1>16 DEF GenesisAdded, IndexInv, CandidatesRight, index, chain, disk,
       handler
  <1>17. CASE InitDone
    BY <1>17 DEF InitDone, IndexInv, CandidatesRight, index, chain, disk,
       handler
  <1>18. CASE InitError
    BY <1>18 DEF InitError, FlushAndExit, LoseMemory, IndexInv,
       CandidatesRight, index, chain, disk, handler
  <1>19. CASE Interrupted
    BY <1>19 DEF Interrupted, IndexInv, CandidatesRight, index, chain, disk,
       handler
  <1>20. CASE Start
    BY <1>20 DEF Start, LoadBlockIndexDB, IndexInv, CandidatesRight, index,
       chain, disk, handler, Closed
  <1>21. CASE StartShutdown
    BY <1>21 DEF StartShutdown, IndexInv, CandidatesRight, index, chain,
       disk, handler
  <1>22. CASE Shutdown
    BY <1>22 DEF Shutdown, FlushAndExit, LoseMemory, IndexInv,
       CandidatesRight, index, chain, disk, handler
  <1>23. ASSUME NEW b \in Block, AcceptBlockError(b) PROVE IndexInv'
    BY <1>23 DEF AcceptBlockError, DiskSpaceLow, IndexInv, CandidatesRight,
       index, chain, disk, handler
  <1>24. ASSUME NEW b \in Block, TryOrphanError(b) PROVE IndexInv'
    BY <1>24 DEF TryOrphanError, DiskSpaceLow, IndexInv, CandidatesRight,
       index, chain, disk, handler
  <1>25. ASSUME NEW b \in Block, ConnectBlockError(b) PROVE IndexInv'
    BY <1>25, ConnectsKnown DEF ConnectBlockError, DiskSpaceLow,
       SetBestChainFails, IndexInv, CandidatesRight, index, chain, disk,
       handler
  <1>26. CASE SwitchTipError
    BY <1>26 DEF SwitchTipError, DiskSpaceLow, SetBestChainFails, IndexInv,
       CandidatesRight, index, chain, disk, handler
  <1>27. CASE Crash
    BY <1>27 DEF Crash, LoseMemory, IndexInv, CandidatesRight, index, chain,
       disk, handler
  <1>28. ASSUME NEW b \in Block, CrashInMarking(b) PROVE IndexInv'
    BY <1>28, DescendantsKnown DEF CrashInMarking, LoseMemory, IndexInv,
       CandidatesRight, index, chain, disk, handler
  <1>29. ASSUME NEW b \in Block, CrashInInvalidFound(b) PROVE IndexInv'
    BY <1>29, ConnectsKnown DEF CrashInInvalidFound, LoseMemory, IndexInv,
       CandidatesRight, index, chain, disk, handler
  <1>30. CASE UNCHANGED vars
    BY <1>30 DEF IndexInv, CandidatesRight, index, chain, disk, handler, vars
  <1> QED
    BY <1>1, <1>2, <1>3, <1>4, <1>5, <1>6, <1>7, <1>8, <1>9, <1>10, <1>11,
       <1>12, <1>13, <1>14, <1>15, <1>16, <1>17, <1>18, <1>19, <1>20, <1>21,
       <1>22, <1>23, <1>24, <1>25, <1>26, <1>27, <1>28, <1>29, <1>30 DEF
       Next, HandlerStep, Fault

\* A lost memory refers to no block.
LEMMA LostRef == LoseMemory => /\ mapBlockIndex' = {} /\ cur' = NULL
                               /\ pindexNew' = NULL /\ viewTip' = NULL
                               /\ coinsTip' = NULL /\ pindexBest' = NULL
                               /\ vAttach' = {} /\ pc' = "down"
                               /\ \A i \in 1 .. Len(vWorkQueue') : FALSE
  BY DEF LoseMemory

\* A handler step refers to indexed blocks only.
LEMMA RefStep == TypeOK /\ IndexInv /\ RefInv /\ [Next]_vars => RefInv'
  <1> SUFFICES ASSUME TypeOK, IndexInv, RefInv, [Next]_vars PROVE RefInv'
    OBVIOUS
  <1> USE BlockTreeAssumption
  <1>1. ASSUME NEW b \in Block, HoldOrphan(b) PROVE RefInv'
    BY <1>1 DEF HoldOrphan, RefInv, Known, index, chain, disk, handler
  <1>2. ASSUME NEW b \in Block, AcceptBlock(b) PROVE RefInv'
    BY <1>2 DEF AcceptBlock, AddToBlockIndex, IsNew, RefInv, Known, index,
       chain, disk, handler
  <1>3. ASSUME NEW b \in Block, TryOrphan(b) PROVE RefInv'
    BY <1>3 DEF TryOrphan, AddToBlockIndex, RefInv, Known, index, chain,
       disk, handler
  <1>4. CASE NextInWorkQueue
    BY <1>4 DEF NextInWorkQueue, RefInv, Known, index, chain, disk, handler,
       TypeOK
  <1>5. CASE ProcessBlockDone
    BY <1>5 DEF ProcessBlockDone, RefInv, Known, index, chain, disk, handler
  <1>6. CASE NoBetterCandidate
    BY <1>6 DEF NoBetterCandidate, RefInv, Known, index, chain, disk, handler
  <1>7. ASSUME NEW b \in Block, MarkFailedDescendants(b) PROVE RefInv'
    <2>1. CASE pindexBest = NULL /\ LoseMemory
      BY <1>7, <2>1, LostRef DEF MarkFailedDescendants, RefInv, Known
    <2>2. CASE pindexBest # NULL
      BY <1>7, <2>2 DEF MarkFailedDescendants, RefInv, Known, handler
    <2> QED
      BY <1>7, <2>1, <2>2 DEF MarkFailedDescendants
  <1>8. ASSUME NEW b \in Block, StartAttach(b) PROVE RefInv'
    BY <1>8, DescendantsKnown DEF StartAttach, RefInv, Known, index, chain,
       disk, handler, ToAttach
  <1>9. CASE AttachDone
    BY <1>9 DEF AttachDone, RefInv, Known, index, chain, disk, handler
  <1>10. ASSUME NEW b \in Block, SetBestChain(b) PROVE RefInv'
    BY <1>10 DEF SetBestChain, RefInv, Known, index, chain, disk, handler
  <1>11. CASE DisconnectBlock
    BY <1>11 DEF DisconnectBlock, RefInv, Known, index, chain, disk, handler,
       IndexInv, Closed, TypeOK, MemoryTypeOK
  <1>12. ASSUME NEW b \in Block, ConnectBlock(b) PROVE RefInv'
    BY <1>12, ConnectsKnown DEF ConnectBlock, UndoWritten, RefInv, Known,
       index, chain, disk, handler, IndexInv
  <1>13. ASSUME NEW b \in Block, ConnectBlockInvalid(b) PROVE RefInv'
    BY <1>13 DEF ConnectBlockInvalid, InvalidBlockFound, SetBestChainFails,
       RefInv, Known, index, chain, disk, handler
  <1>14. CASE SwitchTip
    BY <1>14 DEF SwitchTip, RefInv, Known, index, chain, disk, handler,
       IndexInv
  <1>15. CASE AcceptBlockReturns
    BY <1>15 DEF AcceptBlockReturns, RefInv, Known, index, chain, disk,
       handler, TypeOK, NewWorkQueue
  <1>16. CASE GenesisAdded
    BY <1>16 DEF GenesisAdded, RefInv, Known, index, chain, disk, handler
  <1>17. CASE InitDone
    BY <1>17 DEF InitDone, RefInv, Known, index, chain, disk, handler
  <1>18. CASE InitError
    BY <1>18, LostRef DEF InitError, FlushAndExit, IndexInv, RefInv, Known, disk
  <1>19. CASE Interrupted
    BY <1>19 DEF Interrupted, RefInv, Known, index, chain, disk, handler
  <1>20. CASE Start
    BY <1>20 DEF Start, LoadBlockIndexDB, RefInv, Known, index, chain, disk,
       handler, IndexInv, TypeOK
  <1>21. CASE StartShutdown
    BY <1>21 DEF StartShutdown, RefInv, Known, index, chain, disk, handler
  <1>22. CASE Shutdown
    BY <1>22, LostRef DEF Shutdown, FlushAndExit, IndexInv, RefInv, Known, disk
  <1>23. ASSUME NEW b \in Block, AcceptBlockError(b) PROVE RefInv'
    BY <1>23 DEF AcceptBlockError, DiskSpaceLow, RefInv, Known, index, chain,
       disk, handler
  <1>24. ASSUME NEW b \in Block, TryOrphanError(b) PROVE RefInv'
    BY <1>24 DEF TryOrphanError, DiskSpaceLow, RefInv, Known, index, chain,
       disk, handler
  <1>25. ASSUME NEW b \in Block, ConnectBlockError(b) PROVE RefInv'
    BY <1>25 DEF ConnectBlockError, DiskSpaceLow, SetBestChainFails, RefInv,
       Known, index, chain, disk, handler
  <1>26. CASE SwitchTipError
    BY <1>26 DEF SwitchTipError, DiskSpaceLow, SetBestChainFails, RefInv,
       Known, index, chain, disk, handler
  <1>27. CASE Crash
    BY <1>27, LostRef DEF Crash, RefInv, Known, disk
  <1>28. ASSUME NEW b \in Block, CrashInMarking(b) PROVE RefInv'
    BY <1>28, LostRef DEF CrashInMarking, RefInv, Known, disk
  <1>29. ASSUME NEW b \in Block, CrashInInvalidFound(b) PROVE RefInv'
    BY <1>29, LostRef DEF CrashInInvalidFound, RefInv, Known, disk
  <1>30. CASE UNCHANGED vars
    BY <1>30 DEF RefInv, Known, index, chain, disk, handler, vars
  <1> QED
    BY <1>1, <1>2, <1>3, <1>4, <1>5, <1>6, <1>7, <1>8, <1>9, <1>10, <1>11,
       <1>12, <1>13, <1>14, <1>15, <1>16, <1>17, <1>18, <1>19, <1>20, <1>21,
       <1>22, <1>23, <1>24, <1>25, <1>26, <1>27, <1>28, <1>29, <1>30 DEF
       Next, HandlerStep, Fault

-----------------------------------------------------------------------------
(***************************************************************************)
(* The rules.  Whatever a tip of the node points to, every block below it  *)
(* was connected by ConnectBlock and can be disconnected again.            *)
(***************************************************************************)

Sound(t) == Chain(t) \cap Invalid = {} /\ Chain(t) \ {Genesis} \subseteq dbUndo

RuleInv ==
    /\ \A b \in dbFailed : Anc[b] \cap Invalid # {}
    /\ Sound(pindexBest) /\ Sound(coinsTip) /\ Sound(viewTip) /\ Sound(dbCoinsTip)

\* No tip at all is sound.
LEMMA SoundNull == Sound(NULL) /\ Chain(NULL) = {}
  BY DEF Sound, Chain

\* Undo data is never lost, so what is sound stays sound.
LEMMA SoundStays ==
    ASSUME dbUndo \subseteq dbUndo', NEW t \in MaybeBlock, Sound(t)
    PROVE  Chain(t) \cap Invalid = {} /\ Chain(t) \ {Genesis} \subseteq dbUndo'
  BY DEF Sound

\* A block on top of a sound chain that ConnectBlock accepts is sound.
LEMMA SoundConnect ==
    ASSUME NEW b \in Block, Sound(Prev[b]), b \notin Invalid
    PROVE  Chain(b) \cap Invalid = {} /\ Chain(b) \ {Genesis} \subseteq dbUndo \cup ({b} \ {Genesis})
  BY AncStep, BlockTreeAssumption DEF Sound, Chain

\* The parent of a sound block is sound.
LEMMA SoundDisconnect ==
    ASSUME NEW b \in Block, Sound(b)
    PROVE  Sound(Prev[b])
  BY AncStep, BlockTreeAssumption DEF Sound, Chain

\* A block above a failed one has an ancestor that breaks a rule.
LEMMA DescendantsFailed ==
    ASSUME TypeOK, IndexInv, RuleInv, NEW b \in Block, IsTop(b),
           NEW a \in FailedDescendants(b)
    PROVE  Anc[a] \cap Invalid # {}
  <1>1. a \in Block /\ pc # "down"
    BY DescendantsKnown DEF TypeOK, MemoryTypeOK, IsTop, IndexInv, CandidatesRight
  <1>2. PICK f \in failed : f \in Anc[a]
    BY DEF FailedDescendants
  <1>3. Anc[f] \cap Invalid # {}
    BY <1>1, <1>2 DEF RuleInv, IndexInv
  <1> QED
    BY <1>1, <1>2, <1>3, AncTransitive

\* What a step makes a tip is sound, and what it marks as failed deserves it.
LEMMA RuleStep ==
    TypeOK /\ IndexInv /\ RefInv /\ RuleInv /\ [Next]_vars => RuleInv'
  <1> SUFFICES ASSUME TypeOK, IndexInv, RefInv, RuleInv, [Next]_vars PROVE RuleInv'
    OBVIOUS
  <1> USE BlockTreeAssumption, RulesAssumption
  <1>1. ASSUME NEW b \in Block, HoldOrphan(b) PROVE RuleInv'
    BY <1>1 DEF HoldOrphan, RuleInv, Sound, index, chain, disk, handler
  <1>2. ASSUME NEW b \in Block, AcceptBlock(b) PROVE RuleInv'
    BY <1>2 DEF AcceptBlock, AddToBlockIndex, IsNew, RuleInv, Sound, index,
       chain, disk, handler
  <1>3. ASSUME NEW b \in Block, TryOrphan(b) PROVE RuleInv'
    BY <1>3 DEF TryOrphan, AddToBlockIndex, RuleInv, Sound, index, chain,
       disk, handler
  <1>4. CASE NextInWorkQueue
    BY <1>4 DEF NextInWorkQueue, RuleInv, Sound, index, chain, disk, handler
  <1>5. CASE ProcessBlockDone
    BY <1>5 DEF ProcessBlockDone, RuleInv, Sound, index, chain, disk, handler
  <1>6. CASE NoBetterCandidate
    BY <1>6 DEF NoBetterCandidate, RuleInv, Sound, index, chain, disk,
       handler
  <1>7. ASSUME NEW b \in Block, MarkFailedDescendants(b) PROVE RuleInv'
    <2>1. \A f \in dbFailed' : Anc[f] \cap Invalid # {}
      BY <1>7, DescendantsFailed DEF MarkFailedDescendants, RuleInv
    <2>2. CASE pindexBest = NULL /\ LoseMemory
      BY <1>7, <2>1, <2>2, LostRef, SoundNull DEF MarkFailedDescendants, RuleInv, Sound
    <2>3. CASE pindexBest # NULL
      BY <1>7, <2>1, <2>3 DEF MarkFailedDescendants, RuleInv, Sound, handler
    <2> QED
      BY <1>7, <2>2, <2>3 DEF MarkFailedDescendants
  <1>8. ASSUME NEW b \in Block, StartAttach(b) PROVE RuleInv'
    BY <1>8 DEF StartAttach, RuleInv, Sound, index, chain, disk, handler
  <1>9. CASE AttachDone
    BY <1>9 DEF AttachDone, RuleInv, Sound, index, chain, disk, handler
  <1>10. ASSUME NEW b \in Block, SetBestChain(b) PROVE RuleInv'
    BY <1>10 DEF SetBestChain, RuleInv, Sound, index, chain, disk, handler
  <1>11. CASE DisconnectBlock
    BY <1>11, SoundDisconnect DEF DisconnectBlock, RuleInv, Sound, index,
       chain, disk, handler, TypeOK, MemoryTypeOK
  <1>12. ASSUME NEW b \in Block, ConnectBlock(b) PROVE RuleInv'
    <2>1. Prev[b] = viewTip
      BY <1>12 DEF ConnectBlock, Connects
    <2>2. Chain(b) \cap Invalid = {} /\ Chain(b) \ {Genesis} \subseteq dbUndo'
      BY <1>12, <2>1, SoundConnect DEF ConnectBlock, UndoWritten, RuleInv
    <2> QED
      BY <1>12, <2>2 DEF ConnectBlock, UndoWritten, RuleInv, Sound, chain
  <1>13. ASSUME NEW b \in Block, ConnectBlockInvalid(b) PROVE RuleInv'
    BY <1>13, SoundNull, AncBasic DEF ConnectBlockInvalid, InvalidBlockFound,
       SetBestChainFails, RuleInv, Sound, index, chain, disk, handler
  <1>14. CASE SwitchTip
    BY <1>14, SoundNull DEF SwitchTip, RuleInv, Sound, index, chain, disk,
       handler
  <1>15. CASE AcceptBlockReturns
    BY <1>15 DEF AcceptBlockReturns, RuleInv, Sound, index, chain, disk,
       handler
  <1>16. CASE GenesisAdded
    BY <1>16 DEF GenesisAdded, RuleInv, Sound, index, chain, disk, handler
  <1>17. CASE InitDone
    BY <1>17 DEF InitDone, RuleInv, Sound, index, chain, disk, handler
  <1>18. CASE InitError
    BY <1>18, LostRef, SoundNull DEF InitError, FlushAndExit, RuleInv, Sound,
       disk
  <1>19. CASE Interrupted
    BY <1>19 DEF Interrupted, RuleInv, Sound, index, chain, disk, handler
  <1>20. CASE Start
    BY <1>20 DEF Start, LoadBlockIndexDB, RuleInv, Sound, index, chain, disk,
       handler
  <1>21. CASE StartShutdown
    BY <1>21 DEF StartShutdown, RuleInv, Sound, index, chain, disk, handler
  <1>22. CASE Shutdown
    BY <1>22, LostRef, SoundNull DEF Shutdown, FlushAndExit, RuleInv, Sound, disk
  <1>23. ASSUME NEW b \in Block, AcceptBlockError(b) PROVE RuleInv'
    BY <1>23 DEF AcceptBlockError, DiskSpaceLow, RuleInv, Sound, index,
       chain, disk, handler
  <1>24. ASSUME NEW b \in Block, TryOrphanError(b) PROVE RuleInv'
    BY <1>24 DEF TryOrphanError, DiskSpaceLow, RuleInv, Sound, index, chain,
       disk, handler
  <1>25. ASSUME NEW b \in Block, ConnectBlockError(b) PROVE RuleInv'
    BY <1>25, SoundNull DEF ConnectBlockError, DiskSpaceLow,
       SetBestChainFails, RuleInv, Sound, index, chain, disk, handler
  <1>26. CASE SwitchTipError
    BY <1>26, SoundNull DEF SwitchTipError, DiskSpaceLow, SetBestChainFails,
       RuleInv, Sound, index, chain, disk, handler
  <1>27. CASE Crash
    BY <1>27, LostRef, SoundNull DEF Crash, RuleInv, Sound, disk
  <1>28. ASSUME NEW b \in Block, CrashInMarking(b) PROVE RuleInv'
    BY <1>28, LostRef, SoundNull, DescendantsFailed DEF CrashInMarking, RuleInv,
       Sound, disk
  <1>29. ASSUME NEW b \in Block, CrashInInvalidFound(b) PROVE RuleInv'
    BY <1>29, LostRef, SoundNull DEF CrashInInvalidFound, RuleInv, Sound, disk
  <1>30. CASE UNCHANGED vars
    BY <1>30 DEF RuleInv, Sound, index, chain, disk, handler, vars
  <1> QED
    BY <1>1, <1>2, <1>3, <1>4, <1>5, <1>6, <1>7, <1>8, <1>9, <1>10, <1>11,
       <1>12, <1>13, <1>14, <1>15, <1>16, <1>17, <1>18, <1>19, <1>20, <1>21,
       <1>22, <1>23, <1>24, <1>25, <1>26, <1>27, <1>28, <1>29, <1>30 DEF
       Next, HandlerStep, Fault

-----------------------------------------------------------------------------
(***************************************************************************)
(* The inductive invariant of the index and the rules, and what it gives.  *)
(***************************************************************************)

CoreInv == TypeOK /\ IndexInv /\ RefInv /\ RuleInv

\* The invariant holds of a node that starts with an empty data directory.
LEMMA CoreInit == Init => CoreInv
  <1> SUFFICES ASSUME Init PROVE CoreInv
    OBVIOUS
  <1>1. IndexInv
    BY DEF Init, IndexInv, CandidatesRight, Closed
  <1>2. RefInv
    BY DEF Init, RefInv, Known
  <1>3. RuleInv
    BY SoundNull DEF Init, RuleInv
  <1> QED
    BY <1>1, <1>2, <1>3, TypeInit DEF CoreInv

\* Every step of the handler, of start-up, of Shutdown and every crash keeps it.
LEMMA CoreStep == CoreInv /\ [Next]_vars => CoreInv'
  BY TypeStep, IndexStep, RefStep, RuleStep DEF CoreInv

\* CoreInv holds in every state the node can be in.
THEOREM CoreCorrect == Spec => []CoreInv
  BY CoreInit, CoreStep, PTL DEF Spec

\* The candidates are exactly the indexed blocks that have not failed.
THEOREM CandidatesCorrect == Spec => []CandidatesRight
  <1>1. CoreInv => CandidatesRight
    BY DEF CoreInv, IndexInv
  <1> QED
    BY <1>1, CoreCorrect, PTL

\* A failed block, in memory or on disk, has an ancestor that breaks a rule.
THEOREM FailedCorrect == Spec => []FailedSound
  <1>1. CoreInv => FailedSound
    BY DEF CoreInv, IndexInv, RuleInv, FailedSound
  <1> QED
    BY <1>1, CoreCorrect, PTL

\* No bad or failed block is on the best chain or in the coins.
LEMMA CoreBestChain == CoreInv => BestChainValid
  <1>1. ASSUME CoreInv, NEW t \in MaybeBlock, Sound(t)
        PROVE  Chain(t) \cap (failed \cup dbFailed \cup Invalid) = {}
    <2>1. ASSUME NEW x \in Chain(t), x \in failed \cup dbFailed
          PROVE  FALSE
      <3>1. Anc[x] \cap Invalid # {}
        BY <1>1, <2>1 DEF CoreInv, IndexInv, RuleInv
      <3>2. Anc[x] \subseteq Chain(t)
        BY <1>1, <2>1, ChainBasic DEF Chain
      <3> QED
        BY <1>1, <3>1, <3>2 DEF Sound
    <2> QED
      BY <1>1, <2>1 DEF Sound
  <1> QED
    BY <1>1 DEF CoreInv, RuleInv, TypeOK, MemoryTypeOK, DiskTypeOK, BestChainValid

\* The same of every state the node can be in, crashes and restarts included.
THEOREM BestChainCorrect == Spec => []BestChainValid
  BY CoreBestChain, CoreCorrect, PTL

\* The coins of memory and disk can always be wound back to the genesis block.
THEOREM UndoCorrect == Spec => []UndoAvailable
  <1>1. ASSUME CoreInv PROVE UndoAvailable
    <2>1. Chain(dbCoinsTip) \subseteq dbIndex
      BY <1>1, KnownChain DEF CoreInv, RefInv
    <2>2. Chain(coinsTip) \subseteq mapBlockIndex
      BY <1>1, KnownChain, SoundNull DEF CoreInv, RefInv, Known, IndexInv
    <2>3. Chain(coinsTip) \ {Genesis} \subseteq haveUndo
      BY <1>1, SoundNull DEF CoreInv, RefInv, Known, IndexInv, RuleInv, Sound
    <2> QED
      BY <1>1, <2>1, <2>2, <2>3 DEF CoreInv, RuleInv, Sound, UndoAvailable
  <1> QED
    BY <1>1, CoreCorrect, PTL

-----------------------------------------------------------------------------
(***************************************************************************)
(* The links of the main chain.                                            *)
(***************************************************************************)

\* The links that SetBestChain leaves are those of its new chain.
LEMMA NewLinksRight ==
    ASSUME NEW old \in MaybeBlock, old = coinsTip, pindexNew \in Block,
           \A b, c \in Block : pnext[b] = c <=> c \in Chain(old) /\ Prev[c] = b,
           NEW b \in Block, NEW c \in Block
    PROVE  NewLinks[b] = c <=> c \in Chain(pindexNew) /\ Prev[c] = b
  <1>1. NULL \notin Block /\ vConnect \subseteq Block /\ vDisconnect \subseteq Block
    BY ChainBasic, BlockTreeAssumption DEF vConnect, vDisconnect, MaybeBlock
  <1>2. CASE \E x \in vConnect : Prev[x] = b
    <2>1. PICK x \in vConnect : Prev[x] = b /\ NewLinks[b] = x
      BY <1>2 DEF NewLinks
    <2>2. x \in Chain(pindexNew)
      BY <2>1 DEF vConnect
    <2>3. c \in Chain(pindexNew) /\ Prev[c] = b => c = x
      BY <2>1, <2>2, ChildUnique DEF MaybeBlock
    <2> QED
      BY <2>1, <2>2, <2>3
  <1>3. CASE (~ \E x \in vConnect : Prev[x] = b) /\ \E d \in vDisconnect : Prev[d] = b
    <2>1. NewLinks[b] = NULL
      BY <1>3 DEF NewLinks
    <2>2. PICK d \in vDisconnect : Prev[d] = b
      BY <1>3
    <2>3. ASSUME c \in Chain(pindexNew), Prev[c] = b
          PROVE  FALSE
      <3>1. c \in Chain(old)
        BY <1>3, <2>3 DEF vConnect
      <3>2. d \in Chain(old) /\ d \notin Chain(pindexNew)
        BY <2>2 DEF vDisconnect
      <3>3. c = d
        BY <2>2, <2>3, <3>1, <3>2, ChildUnique
      <3> QED
        BY <2>3, <3>2, <3>3
    <2> QED
      BY <1>1, <2>1, <2>3
  <1>4. CASE (~ \E x \in vConnect : Prev[x] = b) /\ ~ \E d \in vDisconnect : Prev[d] = b
    <2>1. NewLinks[b] = pnext[b]
      BY <1>4 DEF NewLinks
    <2> QED
      BY <1>4, <2>1 DEF vConnect, vDisconnect
  <1> QED
    BY <1>2, <1>3, <1>4

\* The links that LoadBlockIndexDB makes are those of the loaded chain.
LEMMA LoadedLinksRight ==
    ASSUME TypeOK, Start
    PROVE  \A b, c \in Block : pnext'[b] = c <=> c \in Chain(pindexBest') /\ Prev[c] = b
  <1> SUFFICES ASSUME NEW b \in Block, NEW c \in Block
               PROVE  pnext'[b] = c <=> c \in Chain(pindexBest') /\ Prev[c] = b
    OBVIOUS
  <1>1. pindexBest' = dbCoinsTip /\ dbCoinsTip \in MaybeBlock /\ NULL \notin Block
    BY BlockTreeAssumption DEF Start, LoadBlockIndexDB, TypeOK, DiskTypeOK
  <1>2. CASE \E x \in Chain(dbCoinsTip) : Prev[x] = b
    <2>1. PICK x \in Chain(dbCoinsTip) : Prev[x] = b /\ pnext'[b] = x
      BY <1>2 DEF Start, LoadBlockIndexDB
    <2>2. c \in Chain(dbCoinsTip) /\ Prev[c] = b => c = x
      BY <1>1, <2>1, ChildUnique
    <2> QED
      BY <1>1, <2>1, <2>2
  <1>3. CASE ~ \E x \in Chain(dbCoinsTip) : Prev[x] = b
    BY <1>1, <1>3 DEF Start, LoadBlockIndexDB
  <1> QED
    BY <1>2, <1>3

\* A node without a chain has no links.
LEMMA LostLinks == LoseMemory => MainChainLinked'
  BY SoundNull, BlockTreeAssumption DEF LoseMemory, MainChainLinked

\* Unless it asks for a shutdown, a step leaves tip, coins and links agreeing.
LEMMA LinkStep == CoreInv /\ MainChainLinked /\ [Next]_vars => MainChainLinked'
  <1> SUFFICES ASSUME CoreInv, MainChainLinked, [Next]_vars PROVE MainChainLinked'
    OBVIOUS
  <1>1. ASSUME NEW b \in Block, HoldOrphan(b) PROVE MainChainLinked'
    BY <1>1 DEF HoldOrphan, MainChainLinked, index, chain, disk, handler
  <1>2. ASSUME NEW b \in Block, AcceptBlock(b) PROVE MainChainLinked'
    BY <1>2 DEF AcceptBlock, AddToBlockIndex, IsNew, MainChainLinked, index,
       chain, disk, handler
  <1>3. ASSUME NEW b \in Block, TryOrphan(b) PROVE MainChainLinked'
    BY <1>3 DEF TryOrphan, AddToBlockIndex, MainChainLinked, index, chain,
       disk, handler
  <1>4. CASE NextInWorkQueue
    BY <1>4 DEF NextInWorkQueue, MainChainLinked, index, chain, disk, handler
  <1>5. CASE ProcessBlockDone
    BY <1>5 DEF ProcessBlockDone, MainChainLinked, index, chain, disk,
       handler
  <1>6. CASE NoBetterCandidate
    BY <1>6 DEF NoBetterCandidate, MainChainLinked, index, chain, disk,
       handler
  <1>7. ASSUME NEW b \in Block, MarkFailedDescendants(b) PROVE MainChainLinked'
    <2>1. CASE pindexBest = NULL /\ LoseMemory
      BY <2>1, LostLinks
    <2>2. CASE pindexBest # NULL
      BY <1>7, <2>2 DEF MarkFailedDescendants, MainChainLinked
    <2> QED
      BY <1>7, <2>1, <2>2 DEF MarkFailedDescendants
  <1>8. ASSUME NEW b \in Block, StartAttach(b) PROVE MainChainLinked'
    BY <1>8 DEF StartAttach, MainChainLinked, index, chain, disk, handler
  <1>9. CASE AttachDone
    BY <1>9 DEF AttachDone, MainChainLinked, index, chain, disk, handler
  <1>10. ASSUME NEW b \in Block, SetBestChain(b) PROVE MainChainLinked'
    BY <1>10 DEF SetBestChain, MainChainLinked, index, chain, disk, handler
  <1>11. CASE DisconnectBlock
    BY <1>11 DEF DisconnectBlock, MainChainLinked, index, chain, disk,
       handler
  <1>12. ASSUME NEW b \in Block, ConnectBlock(b) PROVE MainChainLinked'
    BY <1>12 DEF ConnectBlock, UndoWritten, MainChainLinked, index, chain,
       disk, handler
  <1>13. ASSUME NEW b \in Block, ConnectBlockInvalid(b) PROVE MainChainLinked'
    BY <1>13 DEF ConnectBlockInvalid, InvalidBlockFound, SetBestChainFails,
       MainChainLinked, index, chain, disk, handler
  <1>14. CASE SwitchTip
    <2>1. pindexBest' = pindexNew /\ coinsTip' = pindexNew /\ pnext' = NewLinks
          /\ fRequestShutdown' = fRequestShutdown
      BY <1>14 DEF SwitchTip
    <2>2. pindexNew \in Block /\ coinsTip \in MaybeBlock
      BY <1>14 DEF SwitchTip, CoreInv, RefInv, Known, TypeOK, MemoryTypeOK
    <2>3. ~fRequestShutdown => \A b, c \in Block :
            NewLinks[b] = c <=> c \in Chain(pindexNew) /\ Prev[c] = b
      BY <2>2, NewLinksRight DEF MainChainLinked
    <2> QED
      BY <2>1, <2>3 DEF MainChainLinked
  <1>15. CASE AcceptBlockReturns
    BY <1>15 DEF AcceptBlockReturns, MainChainLinked, index, chain, disk,
       handler
  <1>16. CASE GenesisAdded
    BY <1>16 DEF GenesisAdded, MainChainLinked, index, chain, disk, handler
  <1>17. CASE InitDone
    BY <1>17 DEF InitDone, MainChainLinked, index, chain, disk, handler
  <1>18. CASE InitError
    BY <1>18, LostLinks DEF InitError, FlushAndExit
  <1>19. CASE Interrupted
    BY <1>19 DEF Interrupted, MainChainLinked, index, chain, disk, handler
  <1>20. CASE Start
    BY <1>20, LoadedLinksRight DEF Start, LoadBlockIndexDB, MainChainLinked, CoreInv
  <1>21. CASE StartShutdown
    BY <1>21 DEF StartShutdown, MainChainLinked, index, chain, disk, handler
  <1>22. CASE Shutdown
    BY <1>22, LostLinks DEF Shutdown, FlushAndExit
  <1>23. ASSUME NEW b \in Block, AcceptBlockError(b) PROVE MainChainLinked'
    BY <1>23 DEF AcceptBlockError, DiskSpaceLow, MainChainLinked, index,
       chain, disk, handler
  <1>24. ASSUME NEW b \in Block, TryOrphanError(b) PROVE MainChainLinked'
    BY <1>24 DEF TryOrphanError, DiskSpaceLow, MainChainLinked, index, chain,
       disk, handler
  <1>25. ASSUME NEW b \in Block, ConnectBlockError(b) PROVE MainChainLinked'
    BY <1>25 DEF ConnectBlockError, DiskSpaceLow, SetBestChainFails,
       MainChainLinked, index, chain, disk, handler
  <1>26. CASE SwitchTipError
    BY <1>26 DEF SwitchTipError, DiskSpaceLow, SetBestChainFails,
       MainChainLinked, index, chain, disk, handler
  <1>27. CASE Crash
    BY <1>27, LostLinks DEF Crash
  <1>28. ASSUME NEW b \in Block, CrashInMarking(b) PROVE MainChainLinked'
    BY <1>28, LostLinks DEF CrashInMarking
  <1>29. ASSUME NEW b \in Block, CrashInInvalidFound(b) PROVE MainChainLinked'
    BY <1>29, LostLinks DEF CrashInInvalidFound
  <1>30. CASE UNCHANGED vars
    BY <1>30 DEF MainChainLinked, index, chain, disk, handler, vars
  <1> QED
    BY <1>1, <1>2, <1>3, <1>4, <1>5, <1>6, <1>7, <1>8, <1>9, <1>10, <1>11,
       <1>12, <1>13, <1>14, <1>15, <1>16, <1>17, <1>18, <1>19, <1>20, <1>21,
       <1>22, <1>23, <1>24, <1>25, <1>26, <1>27, <1>28, <1>29, <1>30 DEF
       Next, HandlerStep, Fault

\* Between two calls of SetBestChain the tip, the coins and the links agree.
THEOREM MainChainCorrect == Spec => []MainChainLinked
  <1>1. Init => MainChainLinked
    BY SoundNull, BlockTreeAssumption DEF Init, MainChainLinked
  <1> QED
    BY <1>1, LinkStep, CoreCorrect, PTL DEF Spec

-----------------------------------------------------------------------------
(***************************************************************************)
(* The best chain only changes to one with more work.                      *)
(***************************************************************************)

\* The blocks to attach lie on one chain and have more work than the best
\* block; SetBestChain is called for the lowest.
AttachInv ==
    /\ pc = "down" => vAttach = {}
    /\ \A a \in vAttach : Work[a] > WorkOf(pindexBest)
    /\ \A a, c \in vAttach : a \in Anc[c] \/ c \in Anc[a]
    /\ pc = "switch" => pindexNew \in vAttach /\ \A a \in vAttach : Work[pindexNew] <= Work[a]

\* The blocks that wait still have more work after the lowest was attached.
LEMMA AttachStep == CoreInv /\ AttachInv /\ [Next]_vars => AttachInv'
  <1> SUFFICES ASSUME CoreInv, AttachInv, [Next]_vars PROVE AttachInv'
    OBVIOUS
  <1>1. ASSUME NEW b \in Block, HoldOrphan(b) PROVE AttachInv'
    BY <1>1 DEF HoldOrphan, AttachInv, index, chain, disk, handler
  <1>2. ASSUME NEW b \in Block, AcceptBlock(b) PROVE AttachInv'
    BY <1>2 DEF AcceptBlock, AddToBlockIndex, IsNew, AttachInv, index, chain,
       disk, handler
  <1>3. ASSUME NEW b \in Block, TryOrphan(b) PROVE AttachInv'
    BY <1>3 DEF TryOrphan, AddToBlockIndex, AttachInv, index, chain, disk,
       handler
  <1>4. CASE NextInWorkQueue
    BY <1>4 DEF NextInWorkQueue, AttachInv, index, chain, disk, handler
  <1>5. CASE ProcessBlockDone
    BY <1>5 DEF ProcessBlockDone, AttachInv, index, chain, disk, handler
  <1>6. CASE NoBetterCandidate
    BY <1>6 DEF NoBetterCandidate, AttachInv, index, chain, disk, handler
  <1>7. ASSUME NEW b \in Block, MarkFailedDescendants(b) PROVE AttachInv'
    <2>1. CASE pindexBest = NULL /\ LoseMemory
      BY <2>1, LostRef DEF AttachInv
    <2>2. CASE pindexBest # NULL
      BY <1>7, <2>2 DEF MarkFailedDescendants, AttachInv, handler
    <2> QED
      BY <1>7, <2>1, <2>2 DEF MarkFailedDescendants
  <1>8. ASSUME NEW b \in Block, StartAttach(b) PROVE AttachInv'
    BY <1>8, AncTotal DEF StartAttach, AttachInv, index, chain, disk,
       handler, ToAttach, Walk
  <1>9. CASE AttachDone
    BY <1>9 DEF AttachDone, AttachInv, index, chain, disk, handler
  <1>10. ASSUME NEW b \in Block, SetBestChain(b) PROVE AttachInv'
    BY <1>10 DEF SetBestChain, AttachInv, index, chain, disk, handler
  <1>11. CASE DisconnectBlock
    BY <1>11 DEF DisconnectBlock, AttachInv, index, chain, disk, handler
  <1>12. ASSUME NEW b \in Block, ConnectBlock(b) PROVE AttachInv'
    BY <1>12 DEF ConnectBlock, UndoWritten, AttachInv, index, chain, disk,
       handler
  <1>13. ASSUME NEW b \in Block, ConnectBlockInvalid(b) PROVE AttachInv'
    BY <1>13 DEF ConnectBlockInvalid, InvalidBlockFound, SetBestChainFails,
       AttachInv, index, chain, disk, handler
  <1>14. CASE SwitchTip
    <2>1. pindexNew \in vAttach /\ vAttach \subseteq Block /\ pindexNew # NULL
      BY <1>14, BlockTreeAssumption
         DEF SwitchTip, AttachInv, CoreInv, TypeOK, HandlerTypeOK
    <2>2. ASSUME NEW a \in vAttach', a \in Block
          PROVE  Work[a] > Work[pindexNew]
      <3>1. a \in vAttach /\ a # pindexNew /\ Work[pindexNew] <= Work[a]
        BY <1>14, <2>2 DEF SwitchTip, AttachInv
      <3>2. CASE a \in Anc[pindexNew]
        BY <2>1, <2>2, <3>1, <3>2, AncWork, BlockTreeAssumption
      <3>3. CASE pindexNew \in Anc[a]
        BY <2>1, <2>2, <3>1, <3>3, AncWork, BlockTreeAssumption
      <3> QED
        BY <2>1, <3>1, <3>2, <3>3 DEF AttachInv
    <2>3. WorkOf(pindexBest') = Work[pindexNew] /\ vAttach' \subseteq vAttach
      BY <1>14, <2>1 DEF SwitchTip, WorkOf
    <2> QED
      BY <1>14, <2>1, <2>2, <2>3 DEF SwitchTip, AttachInv
  <1>15. CASE AcceptBlockReturns
    BY <1>15 DEF AcceptBlockReturns, AttachInv, index, chain, disk, handler
  <1>16. CASE GenesisAdded
    BY <1>16 DEF GenesisAdded, AttachInv, index, chain, disk, handler
  <1>17. CASE InitDone
    BY <1>17 DEF InitDone, AttachInv, index, chain, disk, handler
  <1>18. CASE InitError
    BY <1>18, LostRef DEF InitError, FlushAndExit, AttachInv
  <1>19. CASE Interrupted
    BY <1>19 DEF Interrupted, AttachInv, index, chain, disk, handler
  <1>20. CASE Start
    BY <1>20 DEF Start, LoadBlockIndexDB, AttachInv, index, chain, disk,
       handler
  <1>21. CASE StartShutdown
    BY <1>21 DEF StartShutdown, AttachInv, index, chain, disk, handler
  <1>22. CASE Shutdown
    BY <1>22, LostRef DEF Shutdown, FlushAndExit, AttachInv
  <1>23. ASSUME NEW b \in Block, AcceptBlockError(b) PROVE AttachInv'
    BY <1>23 DEF AcceptBlockError, DiskSpaceLow, AttachInv, index, chain,
       disk, handler
  <1>24. ASSUME NEW b \in Block, TryOrphanError(b) PROVE AttachInv'
    BY <1>24 DEF TryOrphanError, DiskSpaceLow, AttachInv, index, chain, disk,
       handler
  <1>25. ASSUME NEW b \in Block, ConnectBlockError(b) PROVE AttachInv'
    BY <1>25 DEF ConnectBlockError, DiskSpaceLow, SetBestChainFails,
       AttachInv, index, chain, disk, handler
  <1>26. CASE SwitchTipError
    BY <1>26 DEF SwitchTipError, DiskSpaceLow, SetBestChainFails, AttachInv,
       index, chain, disk, handler
  <1>27. CASE Crash
    BY <1>27, LostRef DEF Crash, AttachInv
  <1>28. ASSUME NEW b \in Block, CrashInMarking(b) PROVE AttachInv'
    BY <1>28, LostRef DEF CrashInMarking, AttachInv
  <1>29. ASSUME NEW b \in Block, CrashInInvalidFound(b) PROVE AttachInv'
    BY <1>29, LostRef DEF CrashInInvalidFound, AttachInv
  <1>30. CASE UNCHANGED vars
    BY <1>30 DEF AttachInv, index, chain, disk, handler, vars
  <1> QED
    BY <1>1, <1>2, <1>3, <1>4, <1>5, <1>6, <1>7, <1>8, <1>9, <1>10, <1>11,
       <1>12, <1>13, <1>14, <1>15, <1>16, <1>17, <1>18, <1>19, <1>20, <1>21,
       <1>22, <1>23, <1>24, <1>25, <1>26, <1>27, <1>28, <1>29, <1>30 DEF
       Next, HandlerStep, Fault

\* While the node runs, a step that changes the best block adds work.
LEMMA WorkStep ==
    CoreInv /\ AttachInv /\ Next =>
        (pc # "down" /\ pc' # "down" /\ pindexBest' # pindexBest
            => WorkOf(pindexBest') > WorkOf(pindexBest))
  <1> SUFFICES ASSUME CoreInv, AttachInv, Next, pc # "down", pc' # "down",
                      pindexBest' # pindexBest
               PROVE  WorkOf(pindexBest') > WorkOf(pindexBest)
    OBVIOUS
  <1>1. SwitchTip
    BY LostRef DEF Next, HandlerStep, Fault, HoldOrphan, AcceptBlock,
       AddToBlockIndex, TryOrphan, NextInWorkQueue, ProcessBlockDone,
       NoBetterCandidate, MarkFailedDescendants, StartAttach, AttachDone,
       SetBestChain, DisconnectBlock, ConnectBlock, ConnectBlockInvalid,
       SetBestChainFails, AcceptBlockReturns, GenesisAdded, InitDone, InitError,
       FlushAndExit, Interrupted, Start, StartShutdown, Shutdown,
       AcceptBlockError, TryOrphanError, ConnectBlockError, SwitchTipError,
       Crash, CrashInMarking, CrashInInvalidFound, chain
  <1>2. pindexBest' = pindexNew /\ pindexNew \in vAttach /\ pindexNew # NULL
    BY <1>1, BlockTreeAssumption
       DEF SwitchTip, AttachInv, CoreInv, TypeOK, HandlerTypeOK
  <1> QED
    BY <1>2 DEF AttachInv, WorkOf

\* The best chain of a running node only changes to one with more work.
THEOREM WorkCorrect == Spec => BestWorkGrows
  <1>1. Init => AttachInv
    BY DEF Init, AttachInv
  <1>2. CoreInv /\ AttachInv /\ [Next]_vars =>
          [pc # "down" /\ pc' # "down" /\ pindexBest' # pindexBest
             => WorkOf(pindexBest') > WorkOf(pindexBest)]_vars
    BY WorkStep
  <1> QED
    BY <1>1, <1>2, AttachStep, CoreCorrect, PTL DEF Spec, BestWorkGrows

-----------------------------------------------------------------------------
(***************************************************************************)
(* The warning about invalid work.                                         *)
(***************************************************************************)

\* A block above a failed one is not the first offender of its branch.
LEMMA DescendantsLater ==
    ASSUME CoreInv, NEW b \in Block, IsTop(b), NEW a \in FailedDescendants(b)
    PROVE  a \in Block /\ Anc[a] \cap Invalid # {a}
  <1>1. a \in Block /\ pc # "down"
    BY DescendantsKnown DEF CoreInv, TypeOK, MemoryTypeOK, IsTop, IndexInv, CandidatesRight
  <1>2. PICK f \in failed : f \in Anc[a] /\ a \notin Anc[f]
    BY DEF FailedDescendants
  <1>3. Anc[f] \cap Invalid # {} /\ Anc[f] \subseteq Anc[a]
    BY <1>1, <1>2, AncTransitive DEF CoreInv, RuleInv, IndexInv
  <1> QED
    BY <1>1, <1>2, <1>3

\* The work of the warning is not forgotten, and written before a block that
\* fails to connect is marked.
LEMMA CoversStep == CoreInv /\ InvalidWorkCovers /\ [Next]_vars => InvalidWorkCovers'
  <1> SUFFICES ASSUME CoreInv, InvalidWorkCovers, [Next]_vars PROVE InvalidWorkCovers'
    OBVIOUS
  <1>1. \A b \in Block : Work[b] \in Nat
    BY BlockTreeAssumption
  <1>2. nBestInvalidWork \in Nat /\ dbFailed \subseteq Block
    BY DEF CoreInv, TypeOK, DiskTypeOK
  <1>3. \A b \in Block : BestInvalid(b) >= nBestInvalidWork /\ BestInvalid(b) >= Work[b]
                         /\ BestInvalid(b) \in Nat
    BY <1>1, <1>2 DEF BestInvalid
  <1>4. ASSUME nBestInvalidWork' \in Nat, nBestInvalidWork' >= nBestInvalidWork,
               \A b \in dbFailed' \ dbFailed :
                  b \in Block /\ (Anc[b] \cap Invalid = {b} => Work[b] <= nBestInvalidWork')
        PROVE  InvalidWorkCovers'
    <2>1. ASSUME NEW b \in dbFailed', Anc[b] \cap Invalid = {b}
          PROVE  Work[b] <= nBestInvalidWork'
      <3>1. CASE b \in dbFailed
        <4>1. Work[b] <= nBestInvalidWork /\ Work[b] \in Nat
          BY <1>1, <1>2, <2>1, <3>1 DEF InvalidWorkCovers
        <4> QED
          BY <1>2, <1>4, <4>1
      <3>2. CASE b \notin dbFailed
        BY <1>4, <2>1, <3>2
      <3> QED
        BY <3>1, <3>2
    <2> QED
      BY <2>1 DEF InvalidWorkCovers
  <1>5. ASSUME NEW b \in Block, MarkFailedDescendants(b) PROVE InvalidWorkCovers'
    <2>1. /\ nBestInvalidWork' = BestInvalid(b) /\ IsTop(b)
          /\ dbFailed' \ dbFailed \subseteq FailedDescendants(b)
      BY <1>5 DEF MarkFailedDescendants
    <2> QED
      BY <1>3, <1>4, <2>1, DescendantsLater
  <1>6. ASSUME NEW b \in Block, CrashInMarking(b) PROVE InvalidWorkCovers'
    <2>1. /\ nBestInvalidWork' = nBestInvalidWork /\ IsTop(b)
          /\ dbFailed' \ dbFailed \subseteq FailedDescendants(b)
      BY <1>6 DEF CrashInMarking
    <2> QED
      BY <1>2, <1>4, <2>1, DescendantsLater
  <1>7. ASSUME NEW b \in Block, Connects(b), nBestInvalidWork' = BestInvalid(pindexNew),
               dbFailed' \ dbFailed \subseteq {b}
        PROVE  InvalidWorkCovers'
    <2>1. pindexNew \in Block /\ b \in Anc[pindexNew]
      BY <1>7 DEF Connects, vConnect, Chain, CoreInv, TypeOK, HandlerTypeOK, MaybeBlock
    <2>2. /\ Work[b] <= Work[pindexNew] /\ Work[b] \in Nat /\ Work[pindexNew] \in Nat
          /\ BestInvalid(pindexNew) >= Work[pindexNew] /\ BestInvalid(pindexNew) \in Nat
      BY <1>1, <1>3, <2>1, AncWork
    <2>3. Work[b] <= nBestInvalidWork'
      BY <1>7, <2>2
    <2> QED
      BY <1>3, <1>4, <1>7, <2>1, <2>3
  <1>8. ASSUME NEW b \in Block, ConnectBlockInvalid(b) \/ CrashInInvalidFound(b)
        PROVE  InvalidWorkCovers'
    BY <1>7, <1>8 DEF ConnectBlockInvalid, CrashInInvalidFound, InvalidBlockFound
  <1>9. CASE dbFailed' = dbFailed /\ nBestInvalidWork' = nBestInvalidWork
    BY <1>2, <1>4, <1>9
  <1> QED
    BY <1>5, <1>6, <1>8, <1>9 DEF Next, HandlerStep, Fault, HoldOrphan, AcceptBlock,
       AddToBlockIndex, TryOrphan, NextInWorkQueue, ProcessBlockDone,
       NoBetterCandidate, StartAttach, AttachDone, SetBestChain, DisconnectBlock,
       ConnectBlock, SetBestChainFails, SwitchTip, AcceptBlockReturns,
       GenesisAdded, InitDone, InitError, FlushAndExit, Interrupted, Start,
       LoadBlockIndexDB, StartShutdown, Shutdown, AcceptBlockError,
       TryOrphanError, ConnectBlockError, SwitchTipError, Crash, UndoWritten, disk, vars

\* Whenever the process dies, the work the user is warned about covers the first
\* offender of every branch that is marked on disk.
THEOREM CoversCorrect == Spec => []InvalidWorkCovers
  <1>1. Init => InvalidWorkCovers
    BY DEF Init, InvalidWorkCovers
  <1> QED
    BY <1>1, CoversStep, CoreCorrect, PTL DEF Spec

-----------------------------------------------------------------------------
(***************************************************************************)
(* The best chain has the most work, and no orphan is forgotten.           *)
(***************************************************************************)

\* The candidates with more work than the best chain that no failed ancestor
\* rules out.
Open == {b \in setBlockIndexValid :
           Work[b] > WorkOf(pindexBest) /\ Anc[b] \cap failed = {}}

\* The handler is ProcessBlock with a block, not AppInit2.
Serving == cur \notin {NULL, Genesis}

\* When ProcessBlock begins no candidate is open, so its own block is the only
\* one that can be: either ConnectBestBlock makes it best, or it fails and the
\* block that failed is one of its ancestors.  AppInit2 may have many open
\* candidates, but goes on only if it could make the top one best.
MostWork ==
    /\ pc \in {"idle", "orphans", "done"} => Open = {}
    /\ pc = "fail" /\ Serving => Open = {} /\ Anc[cur] \cap failed # {}
    /\ pc = "best" /\ Serving => Open \subseteq {cur}
    /\ pc \in {"attach", "switch"} =>
         \E t \in Block :
           /\ vAttach \subseteq Anc[t]
           /\ t \in vAttach \/ Work[t] <= WorkOf(pindexBest)
           /\ \A b \in Open : Work[b] <= Work[t]
           /\ Serving => t = cur /\ Open \subseteq {cur}
MostWorkInv == ~fRequestShutdown => MostWork

\* Where an orphan waits whose parent is indexed: for a parent with a failed
\* chain, for the block that is being added, or in vWorkQueue.
OrphanInv ==
    /\ ~Serving /\ pc \notin {"idle", "orphans"} => mapOrphanBlocks = {}
    /\ ~fRequestShutdown =>
         \A b \in mapOrphanBlocks : Prev[b] \in mapBlockIndex =>
           \/ Anc[Prev[b]] \cap failed # {}
           \/ pc \notin {"idle", "orphans"} /\ Prev[b] = cur
           \/ pc # "idle" /\ \E i \in 1 .. Len(vWorkQueue) : vWorkQueue[i] = Prev[b]

\* The best chain has a work, and a block more than none.
LEMMA WorkBasic ==
    ASSUME CoreInv
    PROVE  /\ WorkOf(pindexBest) \in Nat
           /\ \A b \in Block : Work[b] \in Nat /\ Work[b] > 0
           /\ setBlockIndexValid \subseteq Block /\ failed \subseteq Block
  BY BlockTreeAssumption DEF CoreInv, TypeOK, MemoryTypeOK, MaybeBlock, WorkOf

\* The ancestry check leaves out only blocks of the best chain.
LEMMA WalkCovers ==
    ASSUME CoreInv, MainChainLinked, ~fRequestShutdown, NEW top \in Block,
           NEW a \in Anc[top], a \notin Walk(top)
    PROVE  a \in Chain(pindexBest)
  <1>1. PICK c \in Anc[top] : a \in Anc[c] /\ pnext[c] # NULL
    BY DEF Walk
  <1>2. c \in Block /\ pnext[c] \in Block /\ pindexBest \in MaybeBlock
    BY <1>1, AncTransitive DEF CoreInv, TypeOK, MemoryTypeOK, MaybeBlock
  <1>3. pnext[c] \in Chain(pindexBest) /\ Prev[pnext[c]] = c
    BY <1>2 DEF MainChainLinked
  <1>4. Chain(pnext[c]) \subseteq Chain(pindexBest) /\ pnext[c] # NULL
    BY <1>2, <1>3, ChainBasic
  <1>5. Chain(c) \subseteq Anc[pnext[c]]
    BY <1>2, <1>3, AncStep
  <1> QED
    BY <1>1, <1>2, <1>4, <1>5, BlockTreeAssumption DEF Chain

\* A top candidate that passes the ancestry check is open, and attached last.
LEMMA TopOpen ==
    ASSUME CoreInv, MainChainLinked, ~fRequestShutdown, NEW top \in Block,
           ~NothingToDo, IsTop(top), Walk(top) \cap failed = {}
    PROVE  /\ top \in Open /\ top \in ToAttach(top)
           /\ \A b \in setBlockIndexValid : Work[b] <= Work[top]
  <1>1. top \in setBlockIndexValid /\ top # pindexBest /\ WorkOf(top) # WorkOf(pindexBest)
    BY DEF NothingToDo, IsTop
  <1>2. \A b \in setBlockIndexValid : Work[b] <= Work[top]
    BY <1>1, WorkBasic DEF IsTop, Better
  <1>3. Work[top] > WorkOf(pindexBest)
    <2>1. WorkOf(top) = Work[top] /\ Work[top] \in Nat /\ Work[top] > 0
      BY WorkBasic, BlockTreeAssumption DEF WorkOf
    <2>2. CASE pindexBest = NULL
      BY <2>1, <2>2 DEF WorkOf
    <2>3. CASE pindexBest # NULL
      <3>1. pindexBest \in mapBlockIndex /\ pindexBest \in MaybeBlock
        BY <2>3 DEF CoreInv, RefInv, Known, TypeOK, MemoryTypeOK
      <3>2. pindexBest \notin failed
        BY <2>3, <3>1, CoreBestChain, ChainBasic DEF BestChainValid
      <3>3. pindexBest \in setBlockIndexValid
        BY <3>1, <3>2 DEF CoreInv, IndexInv, CandidatesRight
      <3>4. Work[pindexBest] <= Work[top] /\ Work[pindexBest] \in Nat
        BY <1>2, <3>3, WorkBasic
      <3> QED
        BY <1>1, <2>1, <2>3, <3>4 DEF WorkOf
    <2> QED
      BY <2>2, <2>3
  <1>4. Anc[top] \cap failed = {}
    BY WalkCovers, CoreBestChain DEF BestChainValid
  <1>5. top \in Walk(top)
    <2>1. ASSUME NEW c \in Anc[top], top \in Anc[c] PROVE c = top
      <3>1. c \in Block /\ Work[c] \in Nat /\ Work[top] \in Nat
        BY <2>1, AncTransitive, WorkBasic
      <3>2. Work[top] <= Work[c] /\ (c # top => Work[c] < Work[top])
        BY <2>1, <3>1, AncWork
      <3> QED
        BY <3>1, <3>2
    <2> QED
      BY <2>1, AncBasic DEF Walk
  <1> QED
    BY <1>1, <1>2, <1>3, <1>4, <1>5 DEF Open, ToAttach

\* No candidate becomes open while failed blocks and the best chain only grow.
LEMMA OpenShrinks ==
    ASSUME CoreInv, setBlockIndexValid' \subseteq setBlockIndexValid, failed \subseteq failed',
           \/ pindexBest' = pindexBest
           \/ WorkOf(pindexBest') \in Nat /\ WorkOf(pindexBest') >= WorkOf(pindexBest)
    PROVE  Open' \subseteq Open
  <1>1. /\ WorkOf(pindexBest) \in Nat /\ WorkOf(pindexBest') \in Nat
        /\ WorkOf(pindexBest') >= WorkOf(pindexBest)
    BY WorkBasic
  <1>2. ASSUME NEW b \in Open' PROVE b \in Open
    <2>1. b \in setBlockIndexValid /\ Work[b] > WorkOf(pindexBest') /\ Anc[b] \cap failed' = {}
      BY <1>2 DEF Open
    <2>2. Work[b] \in Nat
      BY <2>1, WorkBasic
    <2>3. Work[b] > WorkOf(pindexBest)
      BY <1>1, <2>1, <2>2
    <2> QED
      BY <2>1, <2>3 DEF Open
  <1> QED
    BY <1>2

\* The open candidates stay those MostWorkInv allows.
LEMMA MostWorkStep ==
    CoreInv /\ AttachInv /\ MainChainLinked /\ MostWorkInv /\ [Next]_vars => MostWorkInv'
  <1> SUFFICES ASSUME CoreInv, AttachInv, MainChainLinked, MostWorkInv, [Next]_vars,
                      ~fRequestShutdown'
               PROVE  MostWork'
    BY DEF MostWorkInv
  <1>1. CASE LoseMemory
    BY <1>1 DEF LoseMemory, MostWork
  <1>2. CASE Start
    BY <1>2 DEF Start, MostWork, Serving
  <1>3. ASSUME NEW b \in Block, ~fRequestShutdown, pc \in {"idle", "orphans"},
               AddToBlockIndex(b)
        PROVE  MostWork'
    <2>1. Open = {}
      BY <1>3 DEF MostWorkInv, MostWork
    <2>2. /\ setBlockIndexValid' = setBlockIndexValid \cup {b} /\ cur' = b /\ pc' = "best"
          /\ failed' = failed /\ pindexBest' = pindexBest
      BY <1>3 DEF AddToBlockIndex
    <2>3. Open' \subseteq {b}
      BY <2>1, <2>2 DEF Open
    <2> QED
      BY <2>2, <2>3 DEF MostWork
  <1>4. ASSUME NEW b \in Block, AcceptBlock(b) PROVE MostWork'
    BY <1>3, <1>4 DEF AcceptBlock
  <1>5. ASSUME ~fRequestShutdown, UNCHANGED <<setBlockIndexValid, failed, pindexBest>>
        PROVE  Open' = Open /\ MostWork
    BY <1>5 DEF Open, MostWorkInv
  <1>6. ASSUME ~fRequestShutdown, UNCHANGED <<setBlockIndexValid, failed, pindexBest>>,
               UNCHANGED <<pc, cur, vAttach>>
        PROVE  MostWork'
    BY <1>5, <1>6 DEF MostWork, Serving
  <1>7. ASSUME NEW b \in Block, TryOrphan(b) PROVE MostWork'
    BY <1>3, <1>6, <1>7 DEF TryOrphan, index, chain
  <1>8. CASE ProcessBlockDone \/ InitDone
    BY <1>5, <1>8 DEF ProcessBlockDone, InitDone, MostWork, index, chain
  <1>9. CASE GenesisAdded
    BY <1>5, <1>9 DEF GenesisAdded, MostWork, Serving, index, chain
  <1>10. CASE AcceptBlockReturns
    BY <1>5, <1>10 DEF AcceptBlockReturns, MostWork, Serving, index, chain
  <1>11. CASE NoBetterCandidate
    <2>1. Open' = Open /\ pc' = "done"
      BY <1>5, <1>11 DEF NoBetterCandidate, index, chain
    <2>2. ASSUME NEW b \in Open PROVE FALSE
      <3>1. b \in setBlockIndexValid /\ Work[b] > WorkOf(pindexBest)
        BY <2>2 DEF Open
      <3>2. PICK top \in setBlockIndexValid : IsTop(top) /\ WorkOf(top) = WorkOf(pindexBest)
        BY <1>11, <3>1 DEF NoBetterCandidate, NothingToDo
      <3>3. /\ Work[b] \in Nat /\ Work[top] \in Nat /\ WorkOf(pindexBest) \in Nat
            /\ WorkOf(top) = Work[top]
        BY <3>1, <3>2, WorkBasic, BlockTreeAssumption DEF WorkOf
      <3>4. Work[b] <= Work[top]
        BY <3>1, <3>2, <3>3 DEF IsTop, Better
      <3> QED
        BY <3>1, <3>2, <3>3, <3>4
    <2> QED
      BY <2>1, <2>2 DEF MostWork
  <1>12. ASSUME NEW b \in Block, MarkFailedDescendants(b), ~LoseMemory PROVE MostWork'
    <2>1. /\ pindexBest' = pindexBest /\ setBlockIndexValid' \subseteq setBlockIndexValid
          /\ failed \subseteq failed' /\ UNCHANGED <<pc, cur, vAttach, fRequestShutdown>>
          /\ pc = "best"
      BY <1>12 DEF MarkFailedDescendants, MarkFailed, handler
    <2>2. Open' \subseteq Open
      BY <2>1, OpenShrinks
    <2> QED
      BY <2>1, <2>2 DEF MostWork, MostWorkInv, Serving
  <1>13. ASSUME NEW top \in Block, StartAttach(top) PROVE MostWork'
    <2>1. /\ ~fRequestShutdown /\ pc = "best" /\ ~NothingToDo /\ IsTop(top)
          /\ Walk(top) \cap failed = {} /\ vAttach' = ToAttach(top) /\ pc' = "attach"
          /\ UNCHANGED <<setBlockIndexValid, failed, pindexBest>> /\ cur' = cur
      BY <1>13 DEF StartAttach, index, chain
    <2>2. /\ top \in Open /\ top \in ToAttach(top)
          /\ \A b \in setBlockIndexValid : Work[b] <= Work[top]
      BY <2>1, TopOpen
    <2>3. Open' = Open /\ MostWork
      BY <1>5, <2>1
    <2>4. vAttach' \subseteq Anc[top] /\ top \in vAttach'
      BY <2>1, <2>2 DEF ToAttach, Walk
    <2>5. \A b \in Open' : Work[b] <= Work[top]
      BY <2>2, <2>3 DEF Open
    <2>6. Serving' => top = cur' /\ Open' \subseteq {cur'}
      BY <2>1, <2>2, <2>3 DEF MostWork, Serving
    <2> QED
      BY <2>1, <2>4, <2>5, <2>6 DEF MostWork
  <1>14. CASE AttachDone
    <2>1. /\ Open' = Open /\ MostWork /\ pc = "attach" /\ vAttach = {} /\ pc' = "done"
      BY <1>5, <1>14 DEF AttachDone, index, chain
    <2>2. PICK t \in Block : Work[t] <= WorkOf(pindexBest) /\ \A b \in Open : Work[b] <= Work[t]
      BY <2>1 DEF MostWork
    <2>3. ASSUME NEW b \in Open PROVE FALSE
      <3>1. /\ Work[b] > WorkOf(pindexBest) /\ Work[b] <= Work[t]
            /\ Work[b] \in Nat /\ Work[t] \in Nat /\ WorkOf(pindexBest) \in Nat
        BY <2>2, WorkBasic DEF Open
      <3> QED
        BY <2>2, <3>1
    <2> QED
      BY <2>1, <2>3 DEF MostWork
  <1>15. ASSUME NEW b \in Block, SetBestChain(b) PROVE MostWork'
    BY <1>5, <1>15 DEF SetBestChain, MostWork, Serving, index, chain
  <1>16. ASSUME NEW b \in Block, ConnectBlockInvalid(b) PROVE MostWork'
    <2>1. /\ ~fRequestShutdown /\ pc = "switch" /\ pc' = "fail" /\ cur' = cur
          /\ pindexBest' = pindexBest /\ setBlockIndexValid' = setBlockIndexValid \ {b}
          /\ failed' = failed \cup {b} /\ b \in Chain(pindexNew)
      BY <1>16 DEF ConnectBlockInvalid, Connects, vConnect, InvalidBlockFound, SetBestChainFails
    <2>2. Open' \subseteq Open
      BY <2>1, OpenShrinks
    <2>3. CASE Serving
      <3>1. vAttach \subseteq Anc[cur] /\ Open \subseteq {cur} /\ cur \in Block
        BY <2>1, <2>3 DEF MostWorkInv, MostWork, CoreInv, TypeOK, HandlerTypeOK, MaybeBlock, Serving
      <3>2. pindexNew \in Anc[cur] /\ pindexNew # NULL
        BY <2>1, <3>1 DEF AttachInv, CoreInv, RefInv
      <3>3. b \in Anc[cur]
        BY <2>1, <3>1, <3>2, AncTransitive DEF Chain
      <3>4. cur \notin Open'
        BY <2>1, <3>3 DEF Open
      <3> QED
        BY <2>1, <2>2, <3>1, <3>3, <3>4 DEF MostWork
    <2>4. CASE ~Serving
      BY <2>1, <2>4 DEF MostWork, Serving
    <2> QED
      BY <2>3, <2>4
  <1>17. CASE SwitchTip
    <2>1. /\ ~fRequestShutdown /\ pc = "switch" /\ pc' = "attach" /\ cur' = cur
          /\ pindexBest' = pindexNew /\ vAttach' = vAttach \ {pindexNew}
          /\ UNCHANGED <<setBlockIndexValid, failed>>
      BY <1>17 DEF SwitchTip, index
    <2>2. pindexNew \in vAttach /\ pindexNew \in Block /\ pindexNew # NULL
      BY <2>1, BlockTreeAssumption DEF AttachInv, CoreInv, TypeOK, HandlerTypeOK
    <2>3. /\ WorkOf(pindexBest') = Work[pindexNew] /\ Work[pindexNew] \in Nat
          /\ Work[pindexNew] > WorkOf(pindexBest) /\ WorkOf(pindexBest) \in Nat
      BY <2>1, <2>2, WorkBasic DEF AttachInv, WorkOf
    <2>4. Open' \subseteq Open
      BY <2>1, <2>3, OpenShrinks
    <2>5. PICK t \in Block :
            /\ vAttach \subseteq Anc[t] /\ (t \in vAttach \/ Work[t] <= WorkOf(pindexBest))
            /\ \A b \in Open : Work[b] <= Work[t]
            /\ Serving => t = cur /\ Open \subseteq {cur}
      BY <2>1 DEF MostWorkInv, MostWork
    <2>6. t \in vAttach' \/ Work[t] <= WorkOf(pindexBest')
      <3>1. Work[t] \in Nat
        BY WorkBasic
      <3> QED
        BY <2>1, <2>3, <2>5, <3>1
    <2> QED
      BY <2>1, <2>4, <2>5, <2>6 DEF MostWork, Serving
  <1>18. CASE NextInWorkQueue \/ DisconnectBlock \/ UNCHANGED vars
    BY <1>6, <1>18 DEF NextInWorkQueue, DisconnectBlock, vars, index, chain, handler
  <1>19. ASSUME NEW b \in Block, HoldOrphan(b) \/ ConnectBlock(b) PROVE MostWork'
    BY <1>6, <1>19 DEF HoldOrphan, ConnectBlock, index, chain, handler
  <1> QED
    BY <1>1, <1>2, <1>4, <1>7, <1>8, <1>9, <1>10, <1>11, <1>12, <1>13, <1>14, <1>15,
       <1>16, <1>17, <1>18, <1>19
       DEF Next, HandlerStep, Fault, Interrupted, InitError, FlushAndExit, StartShutdown,
       Shutdown, AcceptBlockError, TryOrphanError, ConnectBlockError, SwitchTipError,
       DiskSpaceLow, Crash, CrashInMarking, CrashInInvalidFound

\* Between two messages no indexed block that is valid with all its ancestors
\* has more work than the best chain.
THEOREM MostWorkCorrect == Spec => []BestHasMostWork
  <1>1. Init => AttachInv /\ MostWorkInv /\ MainChainLinked
    BY SoundNull, BlockTreeAssumption
       DEF Init, AttachInv, MostWorkInv, MostWork, MainChainLinked
  <1>2. CoreInv /\ MostWorkInv => BestHasMostWork
    <2> SUFFICES ASSUME CoreInv, MostWorkInv, pc = "idle", ~fRequestShutdown,
                        NEW b \in mapBlockIndex, Anc[b] \cap Invalid = {}
                 PROVE  Work[b] <= WorkOf(pindexBest)
      BY DEF BestHasMostWork
    <2>1. b \in Block /\ Work[b] \in Nat /\ WorkOf(pindexBest) \in Nat
      BY WorkBasic DEF CoreInv, TypeOK, MemoryTypeOK
    <2>2. Anc[b] \cap failed = {}
      <3> SUFFICES ASSUME NEW f \in Anc[b], f \in failed PROVE FALSE
        OBVIOUS
      <3>1. Anc[f] \cap Invalid # {} /\ Anc[f] \subseteq Anc[b]
        BY <2>1, AncTransitive DEF CoreInv, RuleInv, IndexInv
      <3> QED
        BY <3>1
    <2>3. b \in setBlockIndexValid
      BY <2>1, <2>2, AncBasic DEF CoreInv, IndexInv, CandidatesRight
    <2>4. b \notin Open
      BY DEF MostWorkInv, MostWork
    <2> QED
      BY <2>1, <2>2, <2>3, <2>4 DEF Open
  <1> QED
    BY <1>1, <1>2, MostWorkStep, AttachStep, LinkStep, CoreCorrect, PTL DEF Spec

\* An orphan whose parent comes into the index stays where OrphanInv says.
LEMMA OrphanStep ==
    CoreInv /\ MostWorkInv /\ OrphanInv /\ [Next]_vars => OrphanInv'
  <1> SUFFICES ASSUME CoreInv, MostWorkInv, OrphanInv, [Next]_vars PROVE OrphanInv'
    OBVIOUS
  <1> DEFINE Waits(b) ==
        \/ Anc[Prev[b]] \cap failed # {}
        \/ pc \notin {"idle", "orphans"} /\ Prev[b] = cur
        \/ pc # "idle" /\ \E i \in 1 .. Len(vWorkQueue) : vWorkQueue[i] = Prev[b]
  <1>1. CASE LoseMemory
    BY <1>1 DEF LoseMemory, OrphanInv
  <1>2. vWorkQueue \in Seq(Block) /\ mapBlockIndex \subseteq Block /\ mapOrphanBlocks \subseteq Block
    BY DEF CoreInv, TypeOK, MemoryTypeOK
  <1>3. ASSUME mapOrphanBlocks' \subseteq mapOrphanBlocks, mapBlockIndex' = mapBlockIndex,
               failed \subseteq failed', fRequestShutdown => fRequestShutdown',
               ~Serving' /\ pc' \notin {"idle", "orphans"} =>
                 ~Serving /\ pc \notin {"idle", "orphans"},
               \A b \in mapOrphanBlocks' : ~fRequestShutdown' /\ Waits(b) => Waits(b)'
        PROVE  OrphanInv'
    BY <1>3 DEF OrphanInv
  <1>4. ASSUME NEW b \in Block, AddToBlockIndex(b), pc \in {"idle", "orphans"},
               b # Genesis, UNCHANGED <<mapOrphanBlocks, fRequestShutdown, vWorkQueue>>
        PROVE  OrphanInv'
    <2>1. /\ mapBlockIndex' = mapBlockIndex \cup {b} /\ cur' = b /\ pc' = "best"
          /\ failed' = failed
      BY <1>4 DEF AddToBlockIndex
    <2>2. Serving'
      BY <1>4, <2>1, BlockTreeAssumption DEF Serving
    <2>3. ASSUME ~fRequestShutdown, NEW o \in mapOrphanBlocks, Prev[o] \in mapBlockIndex'
          PROVE  Waits(o)'
      <3>1. CASE Prev[o] = b
        BY <2>1, <3>1
      <3>2. CASE Prev[o] # b
        <4>1. Waits(o)
          BY <2>1, <2>3, <3>2 DEF OrphanInv
        <4> QED
          BY <1>4, <2>1, <4>1
      <3> QED
        BY <3>1, <3>2
    <2> QED
      BY <1>4, <2>1, <2>2, <2>3 DEF OrphanInv
  <1>5. ASSUME NEW b \in Block, HoldOrphan(b) PROVE OrphanInv'
    BY <1>5 DEF HoldOrphan, OrphanInv, Serving, index, handler
  <1>6. ASSUME NEW b \in Block, AcceptBlock(b) PROVE OrphanInv'
    <2>1. b # Genesis
      BY <1>2, <1>6, BlockTreeAssumption DEF AcceptBlock
    <2> QED
      BY <1>4, <1>6, <2>1 DEF AcceptBlock
  <1>7. ASSUME UNCHANGED <<pc, cur, vWorkQueue, mapBlockIndex>>, failed \subseteq failed',
               mapOrphanBlocks' \subseteq mapOrphanBlocks, fRequestShutdown => fRequestShutdown'
        PROVE  OrphanInv'
    <2>1. \A b \in mapOrphanBlocks' : Waits(b) => Waits(b)'
      BY <1>7
    <2> QED
      BY <1>3, <1>7, <2>1 DEF Serving
  <1>8. ASSUME NEW b \in Block, TryOrphan(b) PROVE OrphanInv'
    <2>1. b # Genesis
      BY <1>2, <1>8, BlockTreeAssumption DEF TryOrphan
    <2>2. CASE AddToBlockIndex(b) /\ UNCHANGED mapOrphanBlocks
      BY <1>4, <1>8, <2>1, <2>2 DEF TryOrphan
    <2>3. CASE mapOrphanBlocks' = mapOrphanBlocks \ {b} /\ UNCHANGED <<index, pc, cur>>
      BY <1>7, <1>8, <2>3 DEF TryOrphan, index
    <2> QED
      BY <1>8, <2>2, <2>3 DEF TryOrphan
  <1>9. CASE NextInWorkQueue
    <2>1. /\ pc = "orphans" /\ vWorkQueue # <<>> /\ vWorkQueue' = Tail(vWorkQueue)
          /\ \A b \in mapOrphanBlocks : Prev[b] # Head(vWorkQueue)
          /\ UNCHANGED <<mapOrphanBlocks, mapBlockIndex, failed, fRequestShutdown, pc, cur>>
      BY <1>9 DEF NextInWorkQueue, index
    <2>2. ASSUME NEW b \in mapOrphanBlocks, NEW i \in 1 .. Len(vWorkQueue),
                 vWorkQueue[i] = Prev[b]
          PROVE  \E j \in 1 .. Len(vWorkQueue') : vWorkQueue'[j] = Prev[b]
      <3>1. i # 1
        BY <1>2, <2>1, <2>2
      <3>2. i - 1 \in 1 .. Len(vWorkQueue') /\ vWorkQueue'[i - 1] = vWorkQueue[i]
        BY <1>2, <2>1, <2>2, <3>1
      <3> QED
        BY <2>2, <3>2
    <2>3. \A b \in mapOrphanBlocks' : Waits(b) => Waits(b)'
      BY <2>1, <2>2
    <2> QED
      BY <1>3, <2>1, <2>3 DEF Serving
  <1>10. CASE ProcessBlockDone
    <2>1. /\ pc = "orphans" /\ vWorkQueue = <<>> /\ pc' = "idle"
          /\ UNCHANGED <<mapOrphanBlocks, mapBlockIndex, failed, fRequestShutdown>>
      BY <1>10 DEF ProcessBlockDone, index
    <2>2. \A b \in mapOrphanBlocks' : Waits(b) => Waits(b)'
      BY <2>1
    <2> QED
      BY <1>3, <2>1, <2>2
  <1>11. ASSUME UNCHANGED <<cur, vWorkQueue, mapBlockIndex, mapOrphanBlocks>>, failed \subseteq failed',
                fRequestShutdown => fRequestShutdown', pc \notin {"idle", "orphans"},
                pc' \notin {"idle", "orphans"}
         PROVE  OrphanInv'
    <2>1. \A b \in mapOrphanBlocks' : Waits(b) => Waits(b)'
      BY <1>11
    <2> QED
      BY <1>3, <1>11, <2>1 DEF Serving
  <1>12. CASE NoBetterCandidate \/ AttachDone \/ SwitchTip \/ SwitchTipError
    BY <1>11, <1>12 DEF NoBetterCandidate, AttachDone, SwitchTip, SwitchTipError,
       DiskSpaceLow, SetBestChainFails, index
  <1>13. ASSUME NEW b \in Block, \/ MarkFailedDescendants(b) /\ ~LoseMemory
                                 \/ ConnectBlock(b) \/ AcceptBlockError(b) \/ TryOrphanError(b)
         PROVE  OrphanInv'
    BY <1>7, <1>13 DEF MarkFailedDescendants, MarkFailed, ConnectBlock, UndoWritten,
       AcceptBlockError, TryOrphanError, DiskSpaceLow, index, handler
  <1>14. ASSUME NEW b \in Block, \/ StartAttach(b) \/ SetBestChain(b) \/ ConnectBlockInvalid(b)
                                 \/ ConnectBlockError(b)
         PROVE  OrphanInv'
    BY <1>11, <1>14 DEF StartAttach, SetBestChain, ConnectBlockInvalid, ConnectBlockError,
       Connects, InvalidBlockFound, SetBestChainFails, DiskSpaceLow, index
  <1>15. CASE DisconnectBlock \/ StartShutdown \/ UNCHANGED vars
    BY <1>7, <1>15 DEF DisconnectBlock, StartShutdown, vars, index, handler
  <1>16. CASE AcceptBlockReturns
    <2>1. /\ pc \in {"done", "fail"} /\ Serving /\ vWorkQueue' = NewWorkQueue
          /\ pc' = IF pc = "fail" /\ vWorkQueue = <<>> THEN "idle" ELSE "orphans"
          /\ mapOrphanBlocks' \subseteq mapOrphanBlocks
          /\ UNCHANGED <<mapBlockIndex, failed, fRequestShutdown>>
      BY <1>16 DEF AcceptBlockReturns, Serving, index
    <2>2. ASSUME NEW b \in mapOrphanBlocks', ~fRequestShutdown, Waits(b) PROVE Waits(b)'
      <3>1. CASE Anc[Prev[b]] \cap failed # {}
        BY <2>1, <3>1
      <3>2. CASE Prev[b] = cur /\ pc = "fail"
        BY <2>1, <2>2, <3>2 DEF MostWorkInv, MostWork
      <3>3. CASE Prev[b] = cur /\ pc = "done"
        <4>1. vWorkQueue' = Append(vWorkQueue, cur) /\ pc' = "orphans"
          BY <2>1, <3>3 DEF NewWorkQueue
        <4>2. /\ Len(vWorkQueue) + 1 \in 1 .. Len(vWorkQueue')
              /\ vWorkQueue'[Len(vWorkQueue) + 1] = Prev[b]
          BY <1>2, <3>3, <4>1
        <4> QED
          BY <4>1, <4>2
      <3>4. ASSUME NEW i \in 1 .. Len(vWorkQueue), vWorkQueue[i] = Prev[b] PROVE Waits(b)'
        <4>1. pc' = "orphans"
          BY <2>1, <3>4
        <4>2. i \in 1 .. Len(vWorkQueue') /\ vWorkQueue'[i] = vWorkQueue[i]
          BY <1>2, <2>1, <3>4 DEF NewWorkQueue
        <4> QED
          BY <3>4, <4>1, <4>2
      <3> QED
        BY <2>1, <2>2, <3>1, <3>2, <3>3, <3>4
    <2> QED
      BY <1>3, <2>1, <2>2
  <1>17. CASE GenesisAdded \/ InitDone
    <2>1. ~Serving /\ pc = "done" /\ mapOrphanBlocks' = mapOrphanBlocks
      BY <1>17 DEF GenesisAdded, InitDone, Serving
    <2>2. mapOrphanBlocks' = {}
      BY <2>1 DEF OrphanInv
    <2> QED
      BY <2>2 DEF OrphanInv
  <1>18. CASE Start
    <2>1. mapOrphanBlocks' = mapOrphanBlocks /\ pc = "down"
      BY <1>18 DEF Start, LoadBlockIndexDB
    <2>2. cur = NULL
      BY <2>1 DEF CoreInv, RefInv, IndexInv, Known
    <2>3. mapOrphanBlocks' = {}
      BY <2>1, <2>2 DEF OrphanInv, Serving
    <2> QED
      BY <2>3 DEF OrphanInv
  <1>19. CASE Interrupted
    BY <1>19 DEF Interrupted, OrphanInv
  <1> QED
    BY <1>1, <1>5, <1>6, <1>8, <1>9, <1>10, <1>12, <1>13, <1>14, <1>15, <1>16, <1>17,
       <1>18, <1>19
       DEF Next, HandlerStep, Fault, InitError, FlushAndExit, Shutdown, Crash, CrashInMarking,
       CrashInInvalidFound

\* Between two messages no orphan is left whose parent is in the index, unless
\* the parent's chain has failed.
THEOREM OrphansCorrect == Spec => []OrphansResolved
  <1>1. Init => AttachInv /\ MostWorkInv /\ MainChainLinked /\ OrphanInv
    BY SoundNull, BlockTreeAssumption
       DEF Init, AttachInv, MostWorkInv, MostWork, MainChainLinked, OrphanInv
  <1>2. OrphanInv => OrphansResolved
    BY DEF OrphanInv, OrphansResolved
  <1> QED
    BY <1>1, <1>2, OrphanStep, MostWorkStep, AttachStep, LinkStep, CoreCorrect, PTL DEF Spec

=============================================================================
