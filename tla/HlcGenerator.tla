---------------------------- MODULE HlcGenerator ----------------------------
(***************************************************************************)
(* What an HlcGenerator (core/src/sync/hlc.rs) promises its callers: each  *)
(* `tick` and each `merge` is one step that moves the state to the stamp   *)
(* it returns.  HlcAtomics, the loads and stores of the code, implements   *)
(* this until two calls overlap.                                           *)
(***************************************************************************)
EXTENDS Hlc

CONSTANTS Dev, Incoming, MaxWall

VARIABLES wall, lamport, last
gvars == <<wall, lamport, last>>

GInit ==
    /\ wall = 0
    /\ lamport = 0
    /\ last = Stamp(0, 0, Dev)

Return(w, l) ==
    /\ wall' = w
    /\ lamport' = l
    /\ last' = Stamp(w, l, Dev)

GTick(now) == Return(TickWall(now, wall), TickLamport(now, wall, lamport))

GMerge(now, e) ==
    Return(MergeWall(now, wall, e), MergeLamport(now, wall, lamport, e))

GNext ==
    \E now \in 0 .. MaxWall :
        \/ GTick(now)
        \/ \E e \in Incoming : GMerge(now, e)

GSpec == GInit /\ [][GNext]_gvars


=============================================================================
