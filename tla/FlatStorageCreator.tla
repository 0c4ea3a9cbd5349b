-------------------------- MODULE FlatStorageCreator --------------------------
(***************************************************************************)
(* The creation of a flat storage in parallel to the chain                 *)
(* (chain/chain/src/flat_storage_creator.rs), for shards that have none    *)
(* when the node starts.  update_status runs on the client thread and      *)
(* goes through the statuses of the shard; the parts of the state are      *)
(* fetched by other threads.  Part p of a state is its key p.              *)
(***************************************************************************)
EXTENDS FlatStorage

CONSTANTS num_parts_in_step, CATCH_UP_BLOCKS

ASSUME CreatorAssumption ==
    /\ Keys = 0 .. Cardinality(Keys) - 1 /\ Keys # {}
    /\ {num_parts_in_step, CATCH_UP_BLOCKS} \subseteq Nat \ {0}

VARIABLES
    start_height,    \* of the creators
    fetching         \* remaining_state_parts: None, or the parts the threads still fetch

creatorVars == <<start_height, fetching>>

Empty             == [kind |-> "Empty"]
SavingDeltas      == [kind |-> "SavingDeltas"]
FetchingState(b, p) == [kind |-> "FetchingState", block |-> b, part_id |-> p]
CatchingUp(b)     == [kind |-> "CatchingUp", block |-> b]

SetStatus(s, st) == status' = [status EXCEPT ![s] = st]

\* update_status on an empty flat storage.
StartSavingDeltas(s) ==
    /\ client.pc = "idle"
    /\ status[s] = Empty
    /\ SetStatus(s, SavingDeltas)
    /\ UNCHANGED <<chainVars, flat, deltas, storages, processing, client, failed, creatorVars>>

\* Mutant: does not wait until the final head passes the height of the start.
PastStartAtOnce == TRUE

PastStart == Height[final_head] > start_height

\* All blocks above the final head have deltas, or an assertion fails.
StartFetchingState(s) ==
    /\ client.pc = "idle"
    /\ status[s] = SavingDeltas
    /\ PastStart
    /\ IF {b \in blocks : Height[b] > Height[final_head]} \subseteq DOMAIN deltas[s]
       THEN SetStatus(s, FetchingState(final_head, 0)) /\ UNCHANGED failed
       ELSE failed' = TRUE /\ UNCHANGED status
    /\ UNCHANGED <<chainVars, flat, deltas, storages, processing, client, creatorVars>>

Parts(s) ==
    {p \in Keys : status[s].part_id <= p /\ p < status[s].part_id + num_parts_in_step}

SpawnFetch(s) ==
    /\ client.pc = "idle"
    /\ status[s].kind = "FetchingState" /\ fetching[s] = None
    /\ fetching' = [fetching EXCEPT ![s] = Parts(s)]
    /\ UNCHANGED <<chainVars, diskVars, storages, processing, client, failed, start_height>>

\* fetch_state_part, on a thread of its own.
FetchStatePart(s, p) ==
    /\ fetching[s] # None /\ p \in fetching[s]
    /\ flat' = [flat EXCEPT ![s] = [@ EXCEPT ![p] = Written[status[s].block][s][p]]]
    /\ fetching' = [fetching EXCEPT ![s] = @ \ {p}]
    /\ UNCHANGED <<chainVars, status, deltas, storages, processing, client, failed,
                   start_height>>

NextPart(s) == status[s].part_id + num_parts_in_step

\* The parts of the step are there: the next step, or the way to the final head.
FinishStep(s) ==
    /\ client.pc = "idle"
    /\ fetching[s] = {}
    /\ fetching' = [fetching EXCEPT ![s] = None]
    /\ IF NextPart(s) \in Keys
       THEN SetStatus(s, FetchingState(status[s].block, NextPart(s))) /\ UNCHANGED deltas
       ELSE /\ SetStatus(s, CatchingUp(status[s].block))
            /\ deltas' = [deltas EXCEPT ![s] = Without(@, {status[s].block})]
    /\ UNCHANGED <<chainVars, flat, storages, processing, client, failed, start_height>>

\* The blocks CatchUp merges: the next ones on the way to the final head.
NextBlocks(s) ==
    LET above == {b \in Chain[final_head] : Height[b] > Height[status[s].block]}
    IN  {b \in above : Cardinality({c \in above : Height[c] <= Height[b]}) <= CATCH_UP_BLOCKS}

\* Mutant: only a move can reach the final head.
ReachedByMoving(s, flat_head) == flat_head = final_head /\ flat_head # status[s].block

Reached(s, flat_head) == flat_head = final_head

\* update_status while catching up.  At the final head it goes on with a second commit.
CatchUp(s) ==
    /\ client.pc = "idle"
    /\ status[s].kind = "CatchingUp"
    /\ LET next == NextBlocks(s)
           flat_head == Highest(next \cup {status[s].block})
       IN  IF Height[status[s].block] > Height[final_head] \/ ~(next \subseteq DOMAIN deltas[s])
           THEN failed' = TRUE /\ UNCHANGED <<diskVars, client>>
           ELSE /\ SetStatus(s, CatchingUp(flat_head))
                /\ flat' = [flat EXCEPT ![s] = ApplyChanges(@, next, s)]
                /\ deltas' = [deltas EXCEPT ![s] = Without(@, next)]
                /\ client' = IF Reached(s, flat_head)
                             THEN [NoUpdate EXCEPT !.pc = "create", !.shards = {s}] ELSE client
                /\ UNCHANGED failed
    /\ UNCHANGED <<chainVars, storages, processing, creatorVars>>

ForkDeltas(s) == {b \in DOMAIN deltas[s] : Height[b] <= Height[final_head]}

CreateFlatStorage(s) ==
    /\ client.pc = "create" /\ s \in client.shards
    /\ SetStatus(s, Ready(final_head))
    /\ deltas' = [deltas EXCEPT ![s] = Without(@, ForkDeltas(s))]
    /\ storages' = [storages EXCEPT ![s] = LoadStorage(final_head, deltas'[s])]
    /\ client' = NoUpdate
    /\ UNCHANGED <<chainVars, flat, processing, failed, creatorVars>>

UpdateStatus(s) ==
    \/ StartSavingDeltas(s)
    \/ StartFetchingState(s)
    \/ SpawnFetch(s)
    \/ FinishStep(s)
    \/ CatchUp(s)
    \/ CreateFlatStorage(s)

-----------------------------------------------------------------------------
(* Properties                                                              *)

\* Once it has the deltas it needs, the creation comes to its end, also when crashes
\* interrupt it at any of its commits.
CreationFinishes ==
    \A s \in Shards : status[s].kind = "FetchingState" ~> status[s].kind = "Ready"
=============================================================================
