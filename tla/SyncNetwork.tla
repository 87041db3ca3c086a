----------------------------- MODULE SyncNetwork -----------------------------
(***************************************************************************)
(* core/src/sync/network.rs and retry.rs: calls of SyncNetwork over HTTP,  *)
(* each a loop of attempts against the sync server.  A request may be      *)
(* lost, or be handled after the client has given the attempt up; a reply  *)
(* may be lost or cut short; the client process may be killed.             *)
(*                                                                         *)
(* The server is external.  It is modelled from what network.rs relies on: *)
(* dedup by event_id, one result per event, and error statuses, of which   *)
(* the 5xx may come after part of the batch was stored.                    *)
(***************************************************************************)
EXTENDS Naturals, FiniteSets

CONSTANTS
    Call,         \* calls made by the application
    Request,      \* what a call may be: its operation, whether it is one of
                  \* the _with_retry variants, and the events it carries
    Event,
    Invalid,      \* events the server rejects whenever they are pushed: a bad
                  \* signature, say (any other event it may reject once, for
                  \* a "store error", and store when it is pushed again)
    Status,       \* HTTP statuses the server may answer with
    MaxAttempts   \* RetryPolicy.max_attempts

Kinds == {"push", "pull", "ack", "snapshot"}

ASSUME SyncNetworkAssumption ==
    /\ Request \subseteq [kind : Kinds, retries : BOOLEAN, batch : SUBSET Event]
    /\ \A r \in Request : r.kind = "pull" => ~r.retries
    /\ Invalid \subseteq Event
    /\ Status \subseteq 200 .. 599
    /\ MaxAttempts \in Nat

VARIABLES
    request,   \* what each call is, NoRequest until it is made
    pc,        \* "ready", "sending", "backoff" (asleep) or "done"
    attempt,   \* attempt, 0-indexed
    result,    \* how the call returned
    report,    \* PushResponse.results of a push that returned Ok
    wire,      \* requests on their way: <<call, attempt>>
    replies,   \* replies on their way to an attempt still waiting
    stored,    \* server: the event log, by event_id
    acked      \* server: events confirmed by an ack

vars == <<request, pc, attempt, result, report, wire, replies, stored, acked>>
server == <<stored, acked>>

PerEvent == {"accepted", "duplicate", "rejected"}
NoRequest == [kind |-> "none", retries |-> FALSE, batch |-> {}]
Kind(c) == request[c].kind
Retries(c) == request[c].retries
Batch(c) == request[c].batch
NoReport == <<>>

(* Mutated forms here and below are slips this code could well contain:    *)
(* each breaks a property, and the specification uses none of them.        *)
IsSuccessIfNotServerError(code) == code \in 200 .. 499

IsSuccess(code) == code \in 200 .. 299

(* is_retryable_status                                                     *)
IsRetryable(code) == code \in {408, 429} \cup 500 .. 599

(* RetryPolicy::should_retry, for a call that retries at all.              *)
ShouldRetry(c) == Retries(c) /\ attempt[c] + 1 < MaxAttempts

(* map_push_status; the other operations report every status as Network.   *)
MapStatus(kind, code) ==
    IF kind # "push" THEN "network"
    ELSE IF code \in {400, 401, 413} THEN "protocol"
    ELSE IF code = 403 THEN "forbidden"
    ELSE "network"

Init ==
    /\ request = [c \in Call |-> NoRequest]
    /\ pc = [c \in Call |-> "ready"]
    /\ attempt = [c \in Call |-> 0]
    /\ result = [c \in Call |-> "none"]
    /\ report = [c \in Call |-> NoReport]
    /\ wire = {}
    /\ replies = {}
    /\ stored = {}
    /\ acked = {}

-----------------------------------------------------------------------------
(* The client.                                                             *)

Start(c) ==
    /\ pc[c] = "ready"
    /\ \E r \in Request : request' = [request EXCEPT ![c] = r]
    /\ pc' = [pc EXCEPT ![c] = "sending"]
    /\ wire' = wire \cup {<<c, 0>>}
    /\ UNCHANGED <<attempt, result, report, replies, server>>

Return(c, r) ==
    /\ pc' = [pc EXCEPT ![c] = "done"]
    /\ result' = [result EXCEPT ![c] = r]

Sleep(c) ==
    /\ pc' = [pc EXCEPT ![c] = "backoff"]
    /\ UNCHANGED result

(* .send().await fails: refused, reset, timed out.  The request may still  *)
(* be on its way.                                                          *)
SendError(c) ==
    /\ pc[c] = "sending"
    /\ \/ ShouldRetry(c) /\ Sleep(c)
       \/ ~ShouldRetry(c) /\ Return(c, IF Retries(c) THEN "exhausted" ELSE "network")
    /\ replies' = {m \in replies : m.call # c}
    /\ UNCHANGED <<request, attempt, report, wire, server>>

(* 2xx: the call is over, with Err when the body cannot be decoded.        *)
ReceiveSuccess(c, m) ==
    /\ IsSuccess(m.code)
    /\ \/ /\ Return(c, "ok")
          /\ report' = [report EXCEPT ![c] = m.report]
       \/ /\ Kind(c) # "ack"
          /\ Return(c, "network")
          /\ UNCHANGED report

ReceiveFailure(c, m) ==
    /\ ~IsSuccess(m.code)
    /\ \/ IsRetryable(m.code) /\ ShouldRetry(c) /\ Sleep(c)
       \/ /\ IsRetryable(m.code) /\ ~ShouldRetry(c)
          /\ Return(c, IF Retries(c) THEN "exhausted"
                       ELSE MapStatus(Kind(c), m.code))
       \/ ~IsRetryable(m.code) /\ Return(c, MapStatus(Kind(c), m.code))
    /\ UNCHANGED report

Receive(c) ==
    /\ pc[c] = "sending"
    /\ \E m \in replies :
        /\ m.call = c
        /\ ReceiveSuccess(c, m) \/ ReceiveFailure(c, m)
        /\ replies' = replies \ {m}
    /\ UNCHANGED <<request, attempt, wire, server>>

(* mutated: `continue` without `attempt += 1` *)
WakeUncounted(c) ==
    /\ pc[c] = "backoff"
    /\ pc' = [pc EXCEPT ![c] = "sending"]
    /\ wire' = wire \cup {<<c, attempt[c]>>}
    /\ UNCHANGED <<request, attempt, result, report, replies, server>>

(* sleep_jittered is over: attempt += 1; continue.                         *)
Wake(c) ==
    /\ pc[c] = "backoff"
    /\ pc' = [pc EXCEPT ![c] = "sending"]
    /\ attempt' = [attempt EXCEPT ![c] = @ + 1]
    /\ wire' = wire \cup {<<c, attempt[c] + 1>>}
    /\ UNCHANGED <<request, result, report, replies, server>>

(* The process dies and with it every call under way.                      *)
Kill ==
    /\ \E c \in Call : pc[c] \in {"sending", "backoff"}
    /\ LET dead == {c \in Call : pc[c] \in {"sending", "backoff"}}
       IN  /\ pc' = [c \in Call |-> IF c \in dead THEN "done" ELSE pc[c]]
           /\ result' = [c \in Call |-> IF c \in dead THEN "killed" ELSE result[c]]
           /\ replies' = {m \in replies : m.call \notin dead}
    /\ UNCHANGED <<request, attempt, report, wire, server>>

-----------------------------------------------------------------------------
(* The server and the network between.                                     *)

(* A 2xx answer means the request took effect.                             *)
Took(code) == code \in 200 .. 299

(* One result per event, whatever becomes of the others: of the valid      *)
(* events too, some may meet a "store error" this time.                    *)
ReportOn(c, failed) ==
    [e \in Batch(c) |-> IF e \in Invalid \cup failed THEN "rejected"
                        ELSE IF e \in stored THEN "duplicate" ELSE "accepted"]

HandleSuccess(c, code, failed) ==
    /\ Took(code)
    /\ stored' = IF Kind(c) = "push"
                 THEN stored \cup (Batch(c) \ (Invalid \cup failed))
                 ELSE stored
    /\ acked' = IF Kind(c) = "ack" THEN acked \cup Batch(c) ELSE acked

HandleFailure(c, code) ==
    /\ ~Took(code)
    /\ IF Kind(c) = "push" /\ code \in 500 .. 599
       THEN \E S \in SUBSET (Batch(c) \ Invalid) : stored' = stored \cup S
       ELSE UNCHANGED stored
    /\ UNCHANGED acked

(* Nobody reads the reply to an attempt the client has given up.           *)
Handle(c, k) ==
    /\ <<c, k>> \in wire
    /\ wire' = wire \ {<<c, k>>}
    /\ \E code \in Status, failed \in SUBSET Batch(c) :
        /\ HandleSuccess(c, code, failed) \/ HandleFailure(c, code)
        /\ replies' =
            IF pc[c] # "sending" \/ attempt[c] # k THEN replies
            ELSE replies \cup
                 {[call |-> c, try |-> k, code |-> code,
                   report |-> IF Kind(c) = "push" /\ Took(code)
                              THEN ReportOn(c, failed) ELSE NoReport]}
    /\ UNCHANGED <<request, pc, attempt, result, report>>

LoseRequest(c, k) ==
    /\ <<c, k>> \in wire
    /\ wire' = wire \ {<<c, k>>}
    /\ UNCHANGED <<request, pc, attempt, result, report, replies, server>>

LoseReply(m) ==
    /\ replies' = replies \ {m}
    /\ UNCHANGED <<request, pc, attempt, result, report, wire, server>>

Next ==
    \/ \E c \in Call : Start(c) \/ SendError(c) \/ Receive(c) \/ Wake(c)
    \/ \E r \in wire : Handle(r[1], r[2]) \/ LoseRequest(r[1], r[2])
    \/ \E m \in replies : LoseReply(m)
    \/ Kill

Spec == Init /\ [][Next]_vars

(* The runtime wakes a sleeping call.  Of a request nothing is assumed:    *)
(* the client is built without a timeout, and a server that never answers  *)
(* holds the call for ever.                                                *)
Fairness == \A c \in Call : WF_vars(Wake(c))

FairSpec == Spec /\ Fairness

-----------------------------------------------------------------------------
(* An Ok is true: a push reports on each of its events, what it reports    *)
(* accepted or duplicate is in the log, what can never be stored is        *)
(* reported rejected, and an ack that returned Ok took.  (An event         *)
(* reported rejected may be in the log all the same: another push stored   *)
(* it before or will after.)                                               *)
OkIsTruthful ==
    \A c \in Call : result[c] = "ok" =>
        /\ Kind(c) = "push" =>
            \A e \in Batch(c) :
                /\ e \in DOMAIN report[c]
                /\ report[c][e] # "rejected" => e \in stored
                /\ e \in Invalid => report[c][e] = "rejected"
        /\ Kind(c) = "ack" => Batch(c) \subseteq acked

(* No call goes on for ever: each that is made returns in the end, or one  *)
(* of its requests is never answered and never fails.                      *)
CallsReturnOrHang ==
    \A c \in Call :
        \/ <>[](pc[c] \in {"ready", "done"})
        \/ <>[](pc[c] = "sending")

-----------------------------------------------------------------------------
(* The calls, statuses and attempts together keep the contract.            *)
Pushes == {c \in Call : Kind(c) = "push"}

Contract ==
    INSTANCE PushContract WITH
        made <- {<<c, Batch(c)>> : c \in Pushes},
        reported <- {<<c, report[c]>> : c \in {d \in Pushes : result[d] = "ok"}}

KeepsContract == Contract!CSpec

=============================================================================
