----------------------------- MODULE ColdStorage -----------------------------
(***************************************************************************)
(* The cold store of an archival node with split storage                   *)
(* (framework/src/cold_storage.rs, core/store/src/cold_storage.rs): a      *)
(* thread of its own copies one final block after the other from the hot   *)
(* store, of which GarbageCollection removes what is old, and writes how   *)
(* far it came to both stores.                                             *)
(*                                                                         *)
(* The cold store keeps no reference counts, so that to copy a block again *)
(* changes nothing.  DBCol::BlockHeight follows the chain of the head.     *)
(***************************************************************************)
EXTENDS StateSync

VARIABLES
    cold,      \* the cold store: its HEAD, blocks, trie nodes and chunks
    copying    \* the block cold_store_copy works on, and how far it is

coldVars == <<cold, copying>>
vars == <<gcVars, syncVars, coldVars>>

NotCopying == [pc |-> "loop", block |-> None]

Init ==
    /\ GCInit /\ SyncInit
    /\ cold = [head |-> genesis, blocks |-> {genesis}, nodes |-> StateOf[genesis],
               chunks |-> ChunksOf(genesis)]
    /\ copying = NotCopying

\* Mutant: does not wait for the block to be final.
ToCopyUpToHead == {b \in Chain[head] : Height[cold.head] < Height[b]}

\* The blocks of the chain from the cold head up to the final head.
ToCopy ==
    {b \in Chain[head] : Height[cold.head] < Height[b] /\ Height[b] <= Height[final_head]}

\* Mutant: does not skip heights.
NextHeightToCopy == {b \in ToCopy : Height[b] = Height[cold.head] + 1}

\* The block of the next height that has one.
NextToCopy ==
    LET candidates == ToCopy
    IN  {b \in candidates : \A c \in candidates : Height[b] <= Height[c]}

\* cold_store_copy, which tries again after a pause when the cold head is behind the
\* tail or something is missing: update_cold_db needs Block and Chunks, and takes the
\* nodes the block inserted from its TrieChanges if they are there.
CopyBlock ==
    /\ kind = "Hot" /\ copying.pc = "loop"
    /\ Height[cold.head] >= tail
    /\ \E b \in NextToCopy :
         /\ b \in blocks /\ ChunksOf(b) \subseteq chunks
         /\ cold' = [cold EXCEPT
                       !.blocks = @ \cup {b},
                       !.chunks = @ \cup ChunksOf(b),
                       !.nodes = IF b \in trie_changes THEN @ \cup Insertions(b) ELSE @]
         /\ copying' = [pc |-> "copied", block |-> b]
    /\ UNCHANGED <<gcVars, syncVars>>

\* update_cold_head: HEAD of the cold store first.
WriteColdHead ==
    /\ copying.pc = "copied"
    /\ cold' = [cold EXCEPT !.head = copying.block]
    /\ copying' = [copying EXCEPT !.pc = "head"]
    /\ UNCHANGED <<gcVars, syncVars>>

\* Then COLD_HEAD of the hot store.
WriteHotColdHead ==
    /\ copying.pc = "head"
    /\ cold_head' = copying.block
    /\ copying' = NotCopying
    /\ UNCHANGED <<kind, head, final_head, stored, tails, gc, failed, crashes, syncVars, cold>>

Copy == CopyBlock \/ WriteColdHead \/ WriteHotColdHead

Crash == CrashSync /\ copying' = NotCopying /\ UNCHANGED cold

Accept == (\E b \in Blocks \ {genesis} : AcceptNext(b)) /\ UNCHANGED coldVars

Clear == ClearData /\ UNCHANGED <<syncVars, coldVars>>

Sync == SyncStep /\ UNCHANGED coldVars

Next == Accept \/ Clear \/ Sync \/ Copy \/ Crash

\* The client finishes clear_data before it takes another message, it runs a step of state
\* sync again and again and repeats what peers did not answer, and the thread of the cold
\* store loops for ever.
Fairness == WF_vars(Clear) /\ WF_vars(Sync) /\ WF_vars(Copy)

Spec == Init /\ [][Next]_vars /\ Fairness

-----------------------------------------------------------------------------
(* Properties                                                              *)

TypeOK ==
    /\ kind \in {"RPC", "Hot"}
    /\ {head, final_head, header_head, cold_head, cold.head} \subseteq Blocks
    /\ blocks \cup trie_changes \subseteq Blocks
    /\ refcount \in [Blocks -> Nat] /\ state \in [Nodes -> Nat]
    /\ chunks \subseteq Blocks \X Shards /\ cold.chunks \subseteq Blocks \X Shards
    /\ {tail, fork_tail, chunk_tail} \subseteq Nat
    /\ gc.pc \in {"idle", "start", "forks", "canonical"}
    /\ copying.pc \in {"loop", "copied", "head"} /\ copying.block \in Blocks \cup {None}
    /\ sync.pc \in {"no", "blocks", "chunks", "shards"} /\ sync.done \subseteq sync.applied
    /\ sync.applied \subseteq Shards
    /\ failed \in BOOLEAN /\ crashes \in 0 .. MaxCrashes

\* The types, and what GarbageCollection keeps true of the hot store beside the copying,
\* and what is true again after a state sync, wherever crashes made it begin anew.
HotStoreInvariant == TypeOK /\ (~InStateSync => StoreInvariant)

\* Whatever forks were cleared, wherever a crash stopped the clearing and whatever was left
\* of a state sync that did not come to its end: the states in the store are complete and
\* there is no node that no state needs.
StatesAreExact == ~InStateSync => StoredStates

\* A block of the canonical chain is readable with its chunks and its state, from the
\* hot store or from the cold one, whatever was collected and wherever a crash fell.
NothingIsLost ==
    kind = "Hot" =>
        \A b \in Chain[head] :
            b \in blocks \/ (/\ b \in cold.blocks
                             /\ ChunksOf(b) \subseteq cold.chunks
                             /\ StateOf[b] \subseteq cold.nodes)

\* The cold store holds final blocks only, all of them up to its head, each with its
\* chunks and its whole state: none was skipped or copied without its trie changes.
ColdStoreIsComplete ==
    /\ cold.head \in Chain[final_head]
    /\ \A b \in Chain[cold.head] :
         b \in cold.blocks /\ ChunksOf(b) \subseteq cold.chunks /\ StateOf[b] \subseteq cold.nodes

\* clear_data and a state sync come to their end, and the cold store catches up with the
\* final head.
ColdStoreCatchesUp ==
    []<>(gc.pc = "idle" /\ ~InStateSync /\ (kind = "Hot" => cold.head = final_head))
=============================================================================
