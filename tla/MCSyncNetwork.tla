---------------------------- MODULE MCSyncNetwork ----------------------------
(***************************************************************************)
(* SyncNetwork on a small instance: two calls, each of which may be a push *)
(* that retries, a push that does not, a retrying ack or a pull.  Two      *)
(* pushes may share an event, as when the caller pushes again what an      *)
(* earlier call failed to deliver, and one carries an event the server     *)
(* rejects.  A retrying snapshot is a retrying ack whose answer has a body.*)
(***************************************************************************)
EXTENDS SyncNetwork

CONSTANTS e1, e2

Make(kind, retries, batch) == [kind |-> kind, retries |-> retries, batch |-> batch]

MCRequest ==
    {Make("push", TRUE, {e1, e2}), Make("push", FALSE, {e1}),
     Make("ack", TRUE, {e1}), Make("pull", FALSE, {})}

=============================================================================
