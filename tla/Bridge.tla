------------------------------- MODULE Bridge -------------------------------
(***************************************************************************)
(* One prompt through the bridge orchestrator                              *)
(* (core/src/bridge/orchestrator.rs): route it, run it on the transport    *)
(* of the route, fall back to the local model when a cloud route fails.    *)
(* What a transport answers is external: it succeeds or it fails.          *)
(***************************************************************************)
EXTENDS Router, Sequences

CONSTANTS
    Requests,  \* the prompt requests that may come
    Contexts   \* the bridge contexts they may come in

ASSUME BridgeAssumption ==
    Requests \subseteq Request(Nat) /\ Contexts \subseteq Context(Nat)

VARIABLES
    request, context,  \* the arguments of Orchestrator::run
    transports,        \* the optional transports that are configured
    decision,          \* what Router::route decided
    pc,                \* route, dispatch, fallback or done
    ran,               \* the transports that were given the prompt, in order
    result             \* Ok, Err, or Pending while it runs

vars == <<request, context, transports, decision, pc, ran, result>>

Init ==
    /\ request \in Requests /\ context \in Contexts
    /\ transports \in SUBSET {"ServerMux", "DirectFrontier"}
    /\ decision = "Queue" /\ pc = "route" /\ ran = <<>> /\ result = "Pending"

RoutePrompt ==
    /\ pc = "route"
    /\ decision' = Route(request, context)
    /\ pc' = "dispatch"
    /\ UNCHANGED <<request, context, transports, ran, result>>

(* mutated (a slip the code could well contain; not used): Local falls     *)
(* back to itself                                                          *)
AfterFailureLocalToo ==
    IF decision = "Queue"
    THEN pc' = "done" /\ result' = "Err"
    ELSE pc' = "fallback" /\ UNCHANGED result

(* What becomes of a failure of the decided route. *)
AfterFailure ==
    IF decision \in {"Queue", "Local"}
    THEN pc' = "done" /\ result' = "Err"
    ELSE pc' = "fallback" /\ UNCHANGED result

(* dispatch: queued, or the transport is not configured. *)
DispatchNowhere ==
    /\ pc = "dispatch"
    /\ decision \notin transports \cup {"Local"}
    /\ AfterFailure
    /\ UNCHANGED <<request, context, transports, decision, ran>>

(* dispatch: the transport has the prompt, and answers or fails. *)
Dispatch ==
    /\ pc = "dispatch"
    /\ decision \in transports \cup {"Local"}
    /\ ran' = Append(ran, decision)
    /\ \/ pc' = "done" /\ result' = "Ok"
       \/ AfterFailure
    /\ UNCHANGED <<request, context, transports, decision>>

(* The failover to the local model. *)
Fallback ==
    /\ pc = "fallback"
    /\ ran' = Append(ran, "Local")
    /\ pc' = "done" /\ result' \in {"Ok", "Err"}
    /\ UNCHANGED <<request, context, transports, decision>>

Next == RoutePrompt \/ DispatchNowhere \/ Dispatch \/ Fallback

Spec == Init /\ [][Next]_vars

-----------------------------------------------------------------------------
Cloud == {ran[k] : k \in 1 .. Len(ran)} \ {"Local"}

(* Without an override, a prompt leaves the device only as its privacy and *)
(* the connection allow, and goes to a frontier provider only within the   *)
(* cost cap - the failover included.                                       *)
CloudOnlyIfAllowed ==
    context.override = "None" /\ Cloud # {} =>
        /\ request.privacy # "LocalOnly" /\ context.connection # "Offline"
        /\ "DirectFrontier" \in Cloud =>
              /\ context.connection = "Online" /\ context.providers
              /\ 15 * request.tokens <= context.maxCost

(* A prompt fails only when the local model was tried and failed last, or  *)
(* nothing was tried at all; no transport gets the prompt twice.           *)
LocalIsLastResort ==
    /\ \A j, k \in 1 .. Len(ran) : ran[j] = ran[k] => j = k
    /\ result = "Err" /\ decision # "Queue" =>
          ran # <<>> /\ ran[Len(ran)] = "Local"

=============================================================================
