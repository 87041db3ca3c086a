-------------------------------- MODULE Hlc --------------------------------
(***************************************************************************)
(* The hybrid logical clock of core/src/sync/hlc.rs as pure operators: the *)
(* timestamp, its order, and the values `tick` and `merge` compute from    *)
(* what they read.  Wall times are non-negative because `SystemClock`      *)
(* clamps a pre-epoch clock to 0 and a generator starts at 0.              *)
(***************************************************************************)
EXTENDS Naturals

(* uuid::Uuid is compared byte by byte, that is as a big-endian number. *)
Timestamp(Device) == [wall : Nat, lamport : Nat, dev : Device]

Stamp(w, l, d) == [wall |-> w, lamport |-> l, dev |-> d]

(* `Ord for Hlc`: wall_ms, then lamport, then device_id. *)
Before(a, b) ==
    \/ a.wall < b.wall
    \/ a.wall = b.wall /\ a.lamport < b.lamport
    \/ a.wall = b.wall /\ a.lamport = b.lamport /\ a.dev < b.dev

AtOrBefore(a, b) == a = b \/ Before(a, b)

Larger(m, n) == IF m >= n THEN m ELSE n

(* Mutated forms here and in the other modules are slips the code could    *)
(* well contain: each breaks a property, no specification uses one.        *)
TickWallFollowsClock(now, w) == now

(* The (wall, lamport) state `tick` leaves behind when nothing else runs.  *)
TickWall(now, w) == Larger(now, w)

(* mutated: fetch_add's old value, so the counter stands still *)
TickLamportStuck(now, w, l) == IF TickWall(now, w) > w THEN 0 ELSE l

TickLamport(now, w, l) == IF TickWall(now, w) > w THEN 0 ELSE l + 1

(* mutated: the incoming wall time is left out of the maximum *)
MergeWallIgnoringEvent(now, w, e) == Larger(w, now)

(* The (wall, lamport) state `merge` leaves behind for the incoming e.     *)
MergeWall(now, w, e) == Larger(Larger(w, e.wall), now)

(* mutated: the maximum of the counters, without the + 1 *)
MergeLamportNoBump(now, w, l, e) ==
    LET new == MergeWall(now, w, e)
    IN  IF new = w /\ new = e.wall THEN Larger(l, e.lamport)
        ELSE IF new = e.wall THEN e.lamport
        ELSE IF new = w THEN l
        ELSE 0

MergeLamport(now, w, l, e) ==
    LET new == MergeWall(now, w, e)
    IN  IF new = w /\ new = e.wall THEN Larger(l, e.lamport) + 1
        ELSE IF new = e.wall THEN e.lamport + 1
        ELSE IF new = w THEN l + 1
        ELSE 0

=============================================================================
