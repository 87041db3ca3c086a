--------------------------- MODULE OfflineMutation ---------------------------
(***************************************************************************)
(* The hook that feeds and drains the offline queue                        *)
(* (mobile/hooks/useOfflineMutation.ts) on top of the network status it    *)
(* reads (mobile/hooks/useNetworkStatus.ts).  There are three ideas of     *)
(* being online: what the device is (online), what the module last heard   *)
(* (lastKnown, its _isOnline) and what the newest hook last rendered       *)
(* (rendered, its isOnline); enqueueMutation uses the third, as it was     *)
(* when the call was made.  A hook reads the second when it is rendered,   *)
(* and listens to changes of it from its effect on, a little later.        *)
(***************************************************************************)
EXTENDS OfflineQueue

CONSTANTS
    MaxChanges   \* bound: how often the device goes offline or online, with
                 \* the NetInfo module (at TRUE) and without it (at FALSE)

ASSUME OfflineMutationAssumption ==
    \E modes \in SUBSET BOOLEAN : MaxChanges \in [modes -> Nat]

VARIABLES
    netInfo,    \* the NetInfo module is installed; if not, the fallback polls
    online,     \* the device has connectivity
    changes,    \* how often that changed
    lastKnown,  \* _isOnline
    rendered,   \* the newest hook's isOnline
    mounting,   \* that hook is rendered and its effects have not run
    missed,     \* history: the module heard that the device is back between
                \* the render and the effect of a hook that still says it is not
    polling,    \* results of reachability checks not yet handled, alike ones as one
    sawOnline,  \* items whose enqueueMutation captured isOnline = true
    toDrain,    \* of those, the ones written and about to call drainNow
    spoilt      \* history: two calls overlapped, or an enqueue read nothing
                \* where there was something

netVars == <<netInfo, online, changes, lastKnown, polling>>
hookVars == <<rendered, mounting>>
callVars == <<sawOnline, toDrain>>
vars == <<qvars, netVars, hookVars, missed, callVars, spoilt>>

Init ==
    /\ QInit
    /\ netInfo \in DOMAIN MaxChanges
    /\ online = TRUE /\ changes = 0
    /\ lastKnown = TRUE /\ rendered = TRUE
    /\ mounting = TRUE /\ missed = FALSE
    /\ polling = {}
    /\ sawOnline = {} /\ toDrain = {}
    /\ spoilt = FALSE

-----------------------------------------------------------------------------
(* The network, and what the app hears of it. *)
ListenersDrain == DrainRead \/ DrainSkip

(* handleNetworkChange: a transition to online re-renders the hook and     *)
(* calls drainNow in the same step, if some mounted hook listens.          *)
HandleNetworkChange(isUp) ==
    /\ lastKnown' = isUp
    /\ \/ ~lastKnown /\ isUp /\ ListenersDrain
       \/ (lastKnown \/ ~isUp \/ mounting) /\ UNCHANGED qvars

(* The device gains or loses connectivity; NetInfo tells at once and also  *)
(* re-renders the hook that listens, the fallback tells nobody.            *)
ChangeNetwork ==
    /\ changes < MaxChanges[netInfo]
    /\ changes' = changes + 1
    /\ online' = ~online
    /\ IF netInfo
       THEN /\ HandleNetworkChange(~online)
            /\ rendered' = IF mounting THEN rendered ELSE ~online
       ELSE UNCHANGED <<qvars, lastKnown, rendered>>
    /\ UNCHANGED <<netInfo, polling, mounting, callVars>>

(* The app comes to the foreground: checkReachability is under way ... *)
Poll ==
    /\ ~netInfo
    /\ polling' = polling \cup {online}
    /\ UNCHANGED <<qvars, netInfo, online, changes, lastKnown, hookVars, callVars>>

(* mutated (a slip the code could well contain; not used): onChange is    *)
(* not among connectedListeners                                            *)
PollAnswerNotRendered ==
    \E answer \in polling :
        /\ polling' = polling \ {answer}
        /\ HandleNetworkChange(answer)
        /\ UNCHANGED <<netInfo, online, changes, hookVars, callVars>>

(* ... and its answer, perhaps out of date by now, is handled. *)
PollAnswer ==
    \E answer \in polling :
        /\ polling' = polling \ {answer}
        /\ HandleNetworkChange(answer)
        /\ rendered' = (rendered \/ (~lastKnown /\ answer /\ ~mounting))
        /\ UNCHANGED <<netInfo, online, changes, mounting, callVars>>

(* Another screen renders the hook: it starts from the module's flag ...   *)
Mount ==
    /\ ~mounting
    /\ mounting' = TRUE
    /\ rendered' = lastKnown
    /\ UNCHANGED <<qvars, netVars, callVars>>

(* ... and its effects run: NetInfo tells a new listener, the module's (if *)
(* this is the first hook) and the hook's, how things are; the fallback    *)
(* makes a check if this is the first hook.                                *)
Listen ==
    /\ mounting
    /\ mounting' = FALSE
    /\ \/ /\ netInfo
          /\ HandleNetworkChange(online)
          /\ rendered' = online
          /\ UNCHANGED polling
       \/ /\ ~netInfo
          /\ polling' = polling \/ polling' = polling \cup {online}
          /\ UNCHANGED <<qvars, lastKnown, rendered>>
    /\ UNCHANGED <<netInfo, online, changes, callVars>>

-----------------------------------------------------------------------------
(* enqueueMutation: enqueue, then drainNow if the captured isOnline says so. *)
CallEnqueue ==
    /\ EnqueueRead
    /\ sawOnline' = IF rendered THEN sawOnline \cup {nItems'} ELSE sawOnline
    /\ UNCHANGED <<netVars, hookVars, toDrain>>

FinishEnqueue(i) ==
    /\ EnqueueWrite(i)
    /\ sawOnline' = sawOnline \ {i}
    /\ toDrain' = toDrain \cup (sawOnline \cap {i})
    /\ UNCHANGED <<netVars, hookVars>>

DrainAfterEnqueue(i) ==
    /\ i \in toDrain
    /\ toDrain' = toDrain \ {i}
    /\ DrainRead \/ DrainSkip
    /\ UNCHANGED <<netVars, hookVars, sawOnline>>

(* A running drain goes on; while the device is offline the executor can   *)
(* only reject.                                                            *)
DrainStep(d) ==
    /\ \/ online /\ ExecuteResolves(d)
       \/ ExecuteRejects(d)
       \/ DrainWrite(d)
       \/ DrainUnlock(d)
    /\ UNCHANGED <<netVars, hookVars, callVars>>

(* The process is killed: the module's flag starts again as true, and a    *)
(* hook is rendered.                                                       *)
Restart ==
    /\ Crash
    /\ lastKnown' = TRUE /\ rendered' = TRUE /\ mounting' = TRUE
    /\ polling' = {} /\ sawOnline' = {} /\ toDrain' = {}
    /\ UNCHANGED <<netInfo, online, changes>>

(* A sign-out or a settings screen empties the queue. *)
ClearQueue == Clear /\ UNCHANGED <<netVars, hookVars, callVars>>

Step ==
    \/ ChangeNetwork \/ Poll \/ PollAnswer \/ Mount \/ Listen
    \/ CallEnqueue
    \/ \E i \in Items : FinishEnqueue(i) \/ DrainAfterEnqueue(i)
    \/ \E d \in Calls : DrainStep(d)
    \/ Restart \/ ClearQueue

Overlapping == Cardinality(enqueuing) + Cardinality(Active) > 1
Misread == \E i \in enqueuing : seen[i] = <<>> /\ store # <<>>

Next ==
    /\ Step
    /\ spoilt' = (spoilt \/ Overlapping' \/ Misread')
    /\ missed' = (~rendered' /\ (missed \/ (mounting /\ ~lastKnown /\ lastKnown')))

(* What is under way settles, and React runs the effects of what it has    *)
(* rendered; that the user enqueues, goes offline or brings the app to the *)
(* foreground is not assumed.                                              *)
Fairness ==
    /\ WF_vars(PollAnswer /\ Next) /\ WF_vars(Listen /\ Next)
    /\ \A i \in Items : /\ WF_vars(FinishEnqueue(i) /\ Next)
                        /\ WF_vars(DrainAfterEnqueue(i) /\ Next)
    /\ \A d \in Calls : WF_vars(DrainStep(d) /\ Next)

Spec == Init /\ [][Next]_vars

FairSpec == Spec /\ Fairness

-----------------------------------------------------------------------------
(* A mounted hook never stays offline after the module has heard that the  *)
(* device is back: a false isOnline means _isOnline is false too, unless   *)
(* the hook's effects are still to run, or the module heard it just before *)
(* they did, which the hook of the fallback is never told.                 *)
HookNotStuckOffline == rendered \/ ~lastKnown \/ mounting \/ (missed /\ ~netInfo)

(* A queued mutation is not lost: once a write has stored it, it stays     *)
(* stored until it has been executed, unless the size limit evicted it,    *)
(* clearQueue discarded it, or the calls were not awaited one by one.      *)
Durable ==
    spoilt \/ \A i \in admitted : i \in IdsOf(store) \/ succeeded[i] > 0 \/ i \in gone

(* An item that has succeeded is executed with success again only if the   *)
(* process was killed or a write failed since, and once for each time that *)
(* happened, under the same condition.                                     *)
SucceedsOncePerLapse == spoilt \/ \A i \in Items : succeeded[i] <= 1 + lapses

(* Once the device is back online for good, every mutation that was queued *)
(* while the hook was offline is tried (useOfflineMutation.ts: mutations   *)
(* queued offline are automatically drained when the device reconnects),   *)
(* here with a mounted hook that listens whenever the device is offline.   *)
Tried == {i \in Items : succeeded[i] + rejected[i] > 0}

DrainedAfterReconnect ==
    [](sawOnline = {} /\ (online \/ ~mounting)) /\ <>[]online => <>[](IdsOf(store) \subseteq Tried)
=============================================================================
