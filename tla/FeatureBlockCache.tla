------------------------- MODULE FeatureBlockCache -------------------------
(***************************************************************************)
(* One shard of featureBlockCache (feature_block_cache.go) and its user,   *)
(* featureBlockRuntimeFromState (features.go): features place blocks by a  *)
(* name and a map of properties, and the translation is cached under the   *)
(* name and the ADDRESS of the map (mapIdentity).                          *)
(*                                                                         *)
(* Maps are of two sorts. Those of the feature registry live for ever at   *)
(* their address. Others are made for one placement (the age of a vine,    *)
(* the sides of a giant mushroom), and once the placement is over Go's     *)
(* allocator may give their address to another map. The allocator is not   *)
(* part of the repository: it returns any address no live map has.         *)
(***************************************************************************)
EXTENDS Naturals, Sequences, SequencesExt

CONSTANTS
  Decorators,   \* goroutines that decorate chunks
  Names,        \* block names
  Contents,     \* what a map of properties says
  Addresses,    \* where maps can be
  Registry,     \* contents of the maps of the registry, by address
  NoBlock,      \* no entry
  BlockCap      \* featureBlockCacheShard.cap

ASSUME BlockCapAssumption == BlockCap \in Nat \ {0}
ASSUME RegistryAssumption ==
  /\ DOMAIN Registry \subseteq Addresses
  /\ \A at \in DOMAIN Registry : Registry[at] \in Contents

StateKeys == Names \X Addresses
States == [name : Names, at : Addresses, says : Contents]

\* featureBlockFromStateUncached.
Block(s) == <<s.name, s.says>>
Blocks == Names \X Contents

ASSUME NoBlockAssumption == NoBlock \notin Blocks

VARIABLES
  blocks,       \* featureBlockCacheShard.values, None where there is no key
  blockOrder,   \* featureBlockCacheShard.order
  placing,      \* where each goroutine is in featureBlockRuntimeFromState
  wanted,       \* the block state it places
  got           \* the block it has got for it

blockVars == <<blocks, blockOrder, placing, wanted, got>>

\* The type invariant; a shard has no more than cap entries after a Store.
BlockTypeOK ==
  /\ blocks \in [StateKeys -> Blocks \cup {NoBlock}]
  /\ blockOrder \in Seq(StateKeys)
  /\ Len(blockOrder) <= BlockCap
  /\ placing \in [Decorators -> {"idle", "load", "store", "placed"}]
  /\ wanted \in [Decorators -> States \cup {NoBlock}]
  /\ got \in [Decorators -> Blocks \cup {NoBlock}]

BlockInit ==
  /\ blocks = [key \in StateKeys |-> NoBlock]
  /\ blockOrder = <<>>
  /\ placing = [w \in Decorators |-> "idle"]
  /\ wanted = [w \in Decorators |-> NoBlock]
  /\ got = [w \in Decorators |-> NoBlock]

\* makeFeatureStateKey; without the map, blocks of a name share a key.
NameAlone(s) == <<s.name, CHOOSE at \in Addresses : TRUE>>
Key(s) == <<s.name, s.at>>

LiveMaps == DOMAIN Registry \cup {wanted[w].at : w \in {v \in Decorators : placing[v] # "idle"}}

Place(w, s) ==
  /\ placing[w] = "idle"
  /\ wanted' = [wanted EXCEPT ![w] = s]
  /\ placing' = [placing EXCEPT ![w] = "load"]
  /\ UNCHANGED <<blocks, blockOrder, got>>

\* A feature places a state of its configuration, or one made on the spot.
PlaceConfigured(w, name, at) == Place(w, [name |-> name, at |-> at, says |-> Registry[at]])

PlaceMade(w, name, at, says) ==
  /\ at \notin LiveMaps
  /\ Place(w, [name |-> name, at |-> at, says |-> says])

\* Load, under the read lock. Without an entry the block is computed.
LoadBlock(w) ==
  /\ placing[w] = "load"
  /\ LET found == blocks[Key(wanted[w])] IN
       /\ got' = [got EXCEPT ![w] = IF found # NoBlock THEN found ELSE Block(wanted[w])]
       /\ placing' = [placing EXCEPT ![w] = IF found # NoBlock THEN "placed" ELSE "store"]
  /\ UNCHANGED <<blocks, blockOrder, wanted>>

\* Store, under the lock: another goroutine may have stored the key since.
MayStore(key) == blocks[key] = NoBlock

BlockOverflow(s) == IF Len(s) > BlockCap THEN Len(s) - BlockCap ELSE 0

StoreBlock(w) ==
  /\ placing[w] = "store"
  /\ placing' = [placing EXCEPT ![w] = "placed"]
  /\ LET key == Key(wanted[w])
         queue == IF MayStore(key) THEN Append(blockOrder, key) ELSE blockOrder
         gone == ToSet(SubSeq(queue, 1, BlockOverflow(queue)))
     IN /\ blockOrder' = SubSeq(queue, BlockOverflow(queue) + 1, Len(queue))
        /\ blocks' = [k \in StateKeys |-> IF k \in gone THEN NoBlock
                                     ELSE IF k = key /\ MayStore(key) THEN got[w]
                                     ELSE blocks[k]]
  /\ UNCHANGED <<wanted, got>>

\* The placement is over, and a map that was made for it is garbage.
Done(w) ==
  /\ placing[w] = "placed"
  /\ placing' = [placing EXCEPT ![w] = "idle"]
  /\ wanted' = [wanted EXCEPT ![w] = NoBlock]
  /\ got' = [got EXCEPT ![w] = NoBlock]
  /\ UNCHANGED <<blocks, blockOrder>>

BlockNext ==
  \E w \in Decorators :
    \/ \E name \in Names, at \in DOMAIN Registry : PlaceConfigured(w, name, at)
    \/ \E name \in Names, at \in Addresses, says \in Contents : PlaceMade(w, name, at, says)
    \/ LoadBlock(w)
    \/ StoreBlock(w)
    \/ Done(w)

BlockSpec == BlockInit /\ [][BlockNext]_blockVars

-----------------------------------------------------------------------------
\* The queue has the keys of the map, each of them once, though two goroutines
\* compute the same key at the same time: a key queued twice would be evicted
\* while it is still queued, and then evict a later entry of its own.
BlockQueueMatchesMap ==
  /\ ToSet(blockOrder) = {key \in StateKeys : blocks[key] # NoBlock}
  /\ \A i, j \in DOMAIN blockOrder : blockOrder[i] = blockOrder[j] => i = j

\* A configured state is placed as what the registry says, whichever goroutine
\* computed the entry, whatever was evicted in between, and whatever was made
\* on the spot: no other map ever has the address of a map of the registry.
ConfiguredStatesPlaced ==
  \A w \in Decorators :
    placing[w] = "placed" /\ wanted[w].at \in DOMAIN Registry => got[w] = Block(wanted[w])

\* TestOpenCLConcurrentGenerationParity (acceleration_test.go:54-79) has
\* generators produce equal chunks whatever they generated before. A block made
\* for one placement must not be an earlier one whose map was at the same
\* address. This fails: the entry outlives the map its key is the address of.
MadeStatesPlaced ==
  \A w \in Decorators :
    placing[w] = "placed" /\ wanted[w].at \notin DOMAIN Registry => got[w] = Block(wanted[w])
=============================================================================
