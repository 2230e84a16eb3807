--------------------------- MODULE CircuitBreaker ---------------------------
(***************************************************************************)
(* Pausing.  Minting, burning and the reserve tracker pause independently; *)
(* minting and burning also ask the peers they were linked to, and treat a *)
(* peer that does not answer is_paused() with FALSE as paused.             *)
(***************************************************************************)
EXTENDS Naturals, FiniteSets

CONSTANTS
    PeerLists,       \* the peer lists an admin may store
    MaxPeers         \* MAX_CIRCUIT_PEERS

Breakers == {"minting", "burning", "reserve"}

\* Contracts that keep a peer list and guard value movement with it.
Linked == {"minting", "burning"}

\* A linked address that exposes no is_paused() (the oracle, a token, ...).
Unreachable == "unreachable"

Peers == Breakers \cup {Unreachable}

ASSUME BreakerAssumption ==
    /\ PeerLists \subseteq SUBSET Peers
    /\ MaxPeers \in Nat

VARIABLES
    paused,    \* paused[k]: phase Paused (minting, burning), paused flag (tracker)
    peers      \* peers[k]: the circuit peers of minting and of burning

breakerVars == <<paused, peers>>

BreakerTypeOK ==
    /\ paused \in [Breakers -> BOOLEAN]
    /\ peers \in [Linked -> SUBSET Peers]

BreakerInit ==
    /\ paused = [k \in Breakers |-> FALSE]
    /\ peers = [k \in Linked |-> {}]

-----------------------------------------------------------------------------
\* is_paused(): local state only.
IsPaused(k) == paused[k]

\* any_circuit_peer_paused: fails closed on a peer that cannot be queried.
AnyCircuitPeerPaused(k) ==
    \E p \in peers[k] : p = Unreachable \/ (p \in Breakers /\ IsPaused(p))

\* is_halted(); check_circuit lets a call through exactly when it is FALSE.
IsHalted(k) == IsPaused(k) \/ AnyCircuitPeerPaused(k)

\* Mutant: the peers are not asked.
CheckOwnPause(k) == ~IsPaused(k)

CheckCircuit(k) == ~IsHalted(k)

-----------------------------------------------------------------------------
Pause(k) ==
    /\ paused' = [paused EXCEPT ![k] = TRUE]
    /\ UNCHANGED peers

Unpause(k) ==
    /\ paused' = [paused EXCEPT ![k] = FALSE]
    /\ UNCHANGED peers

\* set_circuit_peers: at most MaxPeers, never the contract itself.  A list
\* is a set: validate_circuit_peers rejects duplicates.
SetCircuitPeers(k, list) ==
    /\ Cardinality(list) <= MaxPeers
    /\ k \notin list
    /\ peers' = [peers EXCEPT ![k] = list]
    /\ UNCHANGED paused
=============================================================================
