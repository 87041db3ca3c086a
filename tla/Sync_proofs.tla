----------------------------- MODULE Sync_proofs -----------------------------
(***************************************************************************)
(* Proofs about the sync layer: SyncNetwork, for any calls, events,        *)
(* statuses and number of attempts, and any loss, delay or reordering of   *)
(* requests and replies; and Replicas with the resolution of Lww, for any  *)
(* devices, readings of their clocks, cache sizes and deliveries.          *)
(***************************************************************************)
EXTENDS SyncNetwork, Replicas, FiniteSetTheorems, WellFoundedInduction, TLAPS

-----------------------------------------------------------------------------
(* SyncNetwork.                                                            *)


(* The report is one result per event of the call's batch, and true.       *)
TruthfulReport(c, r) ==
    /\ r \in [Batch(c) -> PerEvent]
    /\ \A e \in Batch(c) : r[e] = "rejected" \/ e \in stored \ Invalid

(* What an Ok with report r promises of call c.                            *)
Answered(c, r) ==
    /\ Kind(c) = "push" => TruthfulReport(c, r)
    /\ Kind(c) = "ack" => Batch(c) \subseteq acked

Results ==
    {"none", "ok", "network", "protocol", "forbidden", "exhausted", "killed"}

NetworkTypeOK ==
    /\ request \in [Call -> Request \cup {NoRequest}]
    /\ pc \in [Call -> {"ready", "sending", "backoff", "done"}]
    /\ attempt \in [Call -> Nat]
    /\ result \in [Call -> Results]
    /\ report = [c \in Call |-> report[c]]
    /\ wire \subseteq Call \X Nat
    /\ \A m \in replies : m.call \in Call /\ m.code \in Status
    /\ stored \subseteq Event \ Invalid

(* A call is a request from its start on, and only then do requests and    *)
(* replies of it travel; a reply that is a success is true when it is sent *)
(* and remains so, also once the call has returned it.                     *)
CallsInv ==
    /\ \A c \in Call : pc[c] = "ready" <=> request[c] = NoRequest
    /\ \A c \in Call : pc[c] = "backoff" => attempt[c] + 1 < MaxAttempts /\ Retries(c)
    /\ \A r \in wire : pc[r[1]] # "ready"

RepliesInv ==
    \A m \in replies :
        pc[m.call] # "ready" /\ (IsSuccess(m.code) => Answered(m.call, m.report))

ResultsInv ==
    \A c \in Call :
        result[c] = "ok" => pc[c] = "done" /\ Answered(c, report[c])

NetworkInv == NetworkTypeOK /\ CallsInv /\ RepliesInv /\ ResultsInv

(* Of a call there are at most MaxAttempts attempts - one, of a call that  *)
(* does not retry, or when max_attempts is 0.                              *)
AttemptsBounded ==
    \A c \in Call : attempt[c] = 0 \/ (attempt[c] < MaxAttempts /\ Retries(c))

-----------------------------------------------------------------------------
(* What every step leaves alone: the server's log and acks only grow, and  *)
(* a call, once made, stays the request it is.                             *)
StepKeeps ==
    /\ stored \subseteq stored' /\ acked \subseteq acked'
    /\ \A c \in Call : pc[c] # "ready" =>
          request'[c] = request[c] /\ pc'[c] # "ready"

LEMMA EveryStepKeeps ==
    ASSUME NetworkTypeOK, CallsInv, [Next]_vars
    PROVE  StepKeeps
<1> USE DEF NetworkTypeOK, StepKeeps
<1>1. ASSUME NEW c \in Call, Start(c) PROVE StepKeeps
  BY <1>1 DEF Start, server
<1>2. ASSUME NEW c \in Call, SendError(c) PROVE StepKeeps
  BY <1>2 DEF SendError, Sleep, Return, server
<1>3. ASSUME NEW c \in Call, Receive(c) PROVE StepKeeps
  BY <1>3 DEF Receive, ReceiveSuccess, ReceiveFailure, Sleep, Return, server
<1>4. ASSUME NEW c \in Call, Wake(c) PROVE StepKeeps
  BY <1>4 DEF Wake, server
<1>5. CASE Kill
  BY <1>5 DEF Kill, server
<1>6. ASSUME NEW r \in wire, Handle(r[1], r[2]) PROVE StepKeeps
  BY <1>6 DEF Handle, HandleSuccess, HandleFailure
<1>7. ASSUME NEW r \in wire, LoseRequest(r[1], r[2]) PROVE StepKeeps
  BY <1>7 DEF LoseRequest, server
<1>8. ASSUME NEW m \in replies, LoseReply(m) PROVE StepKeeps
  BY <1>8 DEF LoseReply, server
<1>9. CASE UNCHANGED vars
  BY <1>9 DEF vars
<1> QED
  BY <1>1, <1>2, <1>3, <1>4, <1>5, <1>6, <1>7, <1>8, <1>9 DEF Next

(* So a true answer stays true.                                            *)
LEMMA AnsweredStays ==
    ASSUME StepKeeps, NEW c \in Call, pc[c] # "ready", NEW r, Answered(c, r)
    PROVE  Answered(c, r)'
BY DEF StepKeeps, Answered, TruthfulReport, Kind, Batch

(* The requests of the calls have their types.                             *)
LEMMA RequestTypes ==
    ASSUME NetworkTypeOK, NEW c \in Call
    PROVE  /\ request[c] = NoRequest => Kind(c) = "none" /\ ~Retries(c) /\ Batch(c) = {}
           /\ request[c] # NoRequest => request[c] \in Request /\ Kind(c) \in Kinds
           /\ Batch(c) \subseteq Event
BY SyncNetworkAssumption
   DEF NetworkTypeOK, NoRequest, Kind, Retries, Batch, Kinds

(* No request of an application is the absent one.                         *)
LEMMA RequestIsMade == NoRequest \notin Request
BY SyncNetworkAssumption DEF NoRequest, Kinds

-----------------------------------------------------------------------------
(* Types are preserved.                                                    *)
LEMMA TypeStep ==
    ASSUME NetworkTypeOK, CallsInv, [Next]_vars
    PROVE  NetworkTypeOK'
<1> USE DEF NetworkTypeOK
<1>1. ASSUME NEW c \in Call, Start(c) PROVE NetworkTypeOK'
  BY <1>1 DEF Start, server
<1>2. ASSUME NEW c \in Call, SendError(c) PROVE NetworkTypeOK'
  BY <1>2 DEF SendError, Sleep, Return, server, Results
<1>3. ASSUME NEW c \in Call, Receive(c) PROVE NetworkTypeOK'
  <2>1. /\ pc' \in [Call -> {"ready", "sending", "backoff", "done"}]
        /\ result' \in [Call -> Results]
    BY <1>3 DEF Receive, ReceiveSuccess, ReceiveFailure, Sleep, Return,
                Results, MapStatus
  <2>2. report' = [d \in Call |-> report'[d]]
    BY <1>3 DEF Receive, ReceiveSuccess, ReceiveFailure
  <2>3. replies' \subseteq replies
    BY <1>3 DEF Receive
  <2> QED
    BY <1>3, <2>1, <2>2, <2>3 DEF Receive, server
<1>4. ASSUME NEW c \in Call, Wake(c) PROVE NetworkTypeOK'
  BY <1>4 DEF Wake, server
<1>5. CASE Kill
  BY <1>5 DEF Kill, server, Results
<1>6. ASSUME NEW r \in wire, Handle(r[1], r[2]) PROVE NetworkTypeOK'
  <2>0. r[1] \in Call
    OBVIOUS
  <2>1. stored' \subseteq Event \ Invalid
    BY <1>6, <2>0, RequestTypes DEF Handle, HandleSuccess, HandleFailure
  <2>2. \A m \in replies' : m.call \in Call /\ m.code \in Status
    BY <1>6, <2>0 DEF Handle
  <2> QED
    BY <1>6, <2>1, <2>2 DEF Handle
<1>7. ASSUME NEW r \in wire, LoseRequest(r[1], r[2]) PROVE NetworkTypeOK'
  BY <1>7 DEF LoseRequest, server
<1>8. ASSUME NEW m \in replies, LoseReply(m) PROVE NetworkTypeOK'
  BY <1>8 DEF LoseReply, server
<1>9. CASE UNCHANGED vars
  BY <1>9 DEF vars
<1> QED
  BY <1>1, <1>2, <1>3, <1>4, <1>5, <1>6, <1>7, <1>8, <1>9 DEF Next

(* Where a call is, its request and what is under way of it fit.           *)
LEMMA CallsStep ==
    ASSUME NetworkTypeOK, CallsInv, [Next]_vars
    PROVE  CallsInv'
<1> USE DEF NetworkTypeOK, CallsInv
<1>1. ASSUME NEW c \in Call, Start(c) PROVE CallsInv'
  BY <1>1, RequestIsMade DEF Start, Retries
<1>2. ASSUME NEW c \in Call, SendError(c) PROVE CallsInv'
  BY <1>2 DEF SendError, Sleep, Return, ShouldRetry, Retries
<1>3. ASSUME NEW c \in Call, Receive(c) PROVE CallsInv'
  BY <1>3 DEF Receive, ReceiveSuccess, ReceiveFailure, Sleep, Return,
              ShouldRetry, Retries
<1>4. ASSUME NEW c \in Call, Wake(c) PROVE CallsInv'
  BY <1>4 DEF Wake, Retries
<1>5. CASE Kill
  BY <1>5 DEF Kill, Retries
<1>6. ASSUME NEW r \in wire, Handle(r[1], r[2]) PROVE CallsInv'
  BY <1>6 DEF Handle, Retries
<1>7. ASSUME NEW r \in wire, LoseRequest(r[1], r[2]) PROVE CallsInv'
  BY <1>7 DEF LoseRequest, Retries
<1>8. ASSUME NEW m \in replies, LoseReply(m) PROVE CallsInv'
  BY <1>8 DEF LoseReply, Retries
<1>9. CASE UNCHANGED vars
  BY <1>9 DEF vars, Retries
<1> QED
  BY <1>1, <1>2, <1>3, <1>4, <1>5, <1>6, <1>7, <1>8, <1>9 DEF Next

-----------------------------------------------------------------------------
(* What the server answers with a 2xx is true: it reports on the batch as  *)
(* it stores it.                                                           *)
LEMMA ReportIsTrue ==
    ASSUME NetworkTypeOK, NEW c \in Call, NEW code \in Status,
           NEW failed, HandleSuccess(c, code, failed), UNCHANGED request,
           NEW r, Kind(c) = "push" => r = ReportOn(c, failed)
    PROVE  Answered(c, r)'
<1>1. CASE Kind(c) = "push"
  <2>1. /\ Batch(c)' = Batch(c) /\ Kind(c)' = Kind(c)
        /\ stored' = stored \cup (Batch(c) \ (Invalid \cup failed))
    BY <1>1 DEF HandleSuccess, Batch, Kind
  <2>2. r = [e \in Batch(c) |-> IF e \in Invalid \cup failed THEN "rejected"
                                 ELSE IF e \in stored THEN "duplicate" ELSE "accepted"]
    BY <1>1 DEF ReportOn
  <2>3. TruthfulReport(c, r)'
    BY <2>1, <2>2 DEF TruthfulReport, PerEvent
  <2> QED
    BY <1>1, <2>1, <2>3 DEF Answered
<1>2. CASE Kind(c) # "push"
  BY <1>2 DEF Answered, HandleSuccess, Kind, Batch
<1> QED
  BY <1>1, <1>2

(* A success on its way back is true.                                      *)
LEMMA RepliesStep ==
    ASSUME NetworkInv, StepKeeps, CallsInv', [Next]_vars
    PROVE  RepliesInv'
<1> DEFINE Good(m) == pc[m.call] # "ready" /\ (IsSuccess(m.code) => Answered(m.call, m.report))
<1>1. \A m \in replies : m.call \in Call /\ Good(m)
  BY DEF NetworkInv, NetworkTypeOK, RepliesInv
<1>2. \A m \in replies : Good(m)'
  <2> SUFFICES ASSUME NEW m \in replies PROVE Good(m)'
    OBVIOUS
  <2>1. m.call \in Call /\ pc[m.call] # "ready" /\ pc'[m.call] # "ready"
    BY <1>1 DEF StepKeeps
  <2>2. IsSuccess(m.code) => Answered(m.call, m.report)'
    BY <1>1, <2>1, AnsweredStays
  <2> QED
    BY <2>1, <2>2
<1>3. ASSUME replies' \subseteq replies PROVE RepliesInv'
  BY <1>2, <1>3 DEF RepliesInv
<1>4. ASSUME NEW r \in wire, Handle(r[1], r[2]) PROVE RepliesInv'
  <2> DEFINE c == r[1]
  <2>1. c \in Call /\ pc[c] # "ready"
    BY DEF NetworkInv, NetworkTypeOK, CallsInv
  <2>2. PICK code \in Status, failed \in SUBSET Batch(c) :
          /\ HandleSuccess(c, code, failed) \/ HandleFailure(c, code)
          /\ replies' =
              IF pc[c] # "sending" \/ attempt[c] # r[2] THEN replies
              ELSE replies \cup
                   {[call |-> c, try |-> r[2], code |-> code,
                     report |-> IF Kind(c) = "push" /\ Took(code)
                                THEN ReportOn(c, failed) ELSE NoReport]}
    BY <1>4 DEF Handle
  <2>3. UNCHANGED <<request, pc>>
    BY <1>4 DEF Handle
  <2>4. ASSUME NEW m \in replies', m \notin replies PROVE Good(m)'
    <3>1. /\ m.call = c /\ m.code = code
          /\ Kind(c) = "push" /\ Took(code) => m.report = ReportOn(c, failed)
      BY <2>2, <2>4
    <3>2. IsSuccess(code) => HandleSuccess(c, code, failed) /\ Took(code)
      BY <2>2 DEF HandleFailure, Took, IsSuccess
    <3>3. IsSuccess(code) => Answered(c, m.report)'
      BY <2>1, <2>3, <3>1, <3>2, ReportIsTrue DEF NetworkInv
    <3> QED
      BY <2>1, <2>3, <3>1, <3>3
  <2>5. \A m \in replies' : Good(m)'
    BY <1>2, <2>4
  <2> QED
    BY <2>5 DEF RepliesInv
<1> QED
  BY <1>3, <1>4 DEF Next, vars, Start, SendError, Receive, Wake, Kill,
                    LoseRequest, LoseReply

(* A call that returned Ok was told the truth, and it still holds.         *)
LEMMA ResultsStep ==
    ASSUME NetworkInv, StepKeeps, [Next]_vars
    PROVE  ResultsInv'
<1> USE DEF NetworkTypeOK, NetworkInv
<1>1. ASSUME NEW c \in Call, result[c] = "ok"
      PROVE  pc[c] = "done" /\ \A r : r = report[c] => Answered(c, r)'
  <2>1. pc[c] = "done" /\ \A r : r = report[c] => Answered(c, r)
    BY <1>1 DEF ResultsInv
  <2> QED
    BY <2>1, AnsweredStays
<1>2. ASSUME \A d \in Call : result'[d] = "ok" =>
               /\ result[d] = "ok" /\ pc'[d] = pc[d] /\ report'[d] = report[d]
      PROVE  ResultsInv'
  <2> SUFFICES ASSUME NEW d \in Call, result'[d] = "ok"
               PROVE  pc'[d] = "done" /\ Answered(d, report[d])'
    BY DEF ResultsInv
  <2>1. PICK r : r = report[d]
    OBVIOUS
  <2>2. pc'[d] = "done" /\ r = report'[d] /\ Answered(d, r)'
    BY <1>1, <1>2, <2>1
  <2> QED
    BY <2>2 DEF Answered, TruthfulReport
<1>3. ASSUME NEW c \in Call, Receive(c) PROVE ResultsInv'
  <2>1. PICK m \in replies : m.call = c /\ (ReceiveSuccess(c, m) \/ ReceiveFailure(c, m))
    BY <1>3 DEF Receive
  <2>2. \A d \in Call \ {c} : result'[d] = result[d] /\ pc'[d] = pc[d] /\ report'[d] = report[d]
    BY <2>1 DEF ReceiveSuccess, ReceiveFailure, Return, Sleep
  <2>3. pc[c] = "sending" /\ result[c] # "ok"
    BY <1>3 DEF Receive, ResultsInv
  <2>4. CASE result'[c] = "ok"
    <3>1. IsSuccess(m.code) /\ report'[c] = m.report /\ pc'[c] = "done"
      BY <2>1, <2>3, <2>4 DEF ReceiveSuccess, ReceiveFailure, Return, Sleep, MapStatus
    <3>2. Answered(c, m.report)'
      BY <2>1, <2>3, <3>1, AnsweredStays DEF RepliesInv
    <3>3. Answered(c, report[c])'
      BY <3>1, <3>2 DEF Answered, TruthfulReport
    <3>4. ASSUME NEW d \in Call \ {c}, result'[d] = "ok"
          PROVE  pc'[d] = "done" /\ Answered(d, report[d])'
      <4>1. PICK r : r = report[d]
        OBVIOUS
      <4>2. pc'[d] = "done" /\ r = report'[d] /\ Answered(d, r)'
        BY <1>1, <2>2, <3>4, <4>1
      <4> QED
        BY <4>2 DEF Answered, TruthfulReport
    <3> QED
      BY <3>1, <3>3, <3>4 DEF ResultsInv
  <2>5. CASE result'[c] # "ok"
    BY <1>2, <2>2, <2>5
  <2> QED
    BY <2>4, <2>5
<1>4. ASSUME NEW c \in Call, Start(c) PROVE ResultsInv'
  <2>1. result[c] # "ok"
    BY <1>4 DEF Start, ResultsInv
  <2> QED
    BY <1>2, <1>4, <2>1 DEF Start
<1>5. ASSUME NEW c \in Call, SendError(c) PROVE ResultsInv'
  <2>1. result[c] # "ok"
    BY <1>5 DEF SendError, ResultsInv
  <2> QED
    BY <1>2, <1>5, <2>1 DEF SendError, Sleep, Return
<1>6. ASSUME NEW c \in Call, Wake(c) PROVE ResultsInv'
  <2>1. result[c] # "ok"
    BY <1>6 DEF Wake, ResultsInv
  <2> QED
    BY <1>2, <1>6, <2>1 DEF Wake
<1>7. CASE Kill
  BY <1>2, <1>7 DEF Kill
<1>8. CASE UNCHANGED <<pc, result, report>>
  BY <1>2, <1>8
<1> QED
  BY <1>3, <1>4, <1>5, <1>6, <1>7, <1>8
     DEF Next, vars, Handle, LoseRequest, LoseReply

LEMMA NetworkInvariant == Spec => []NetworkInv
<1>1. Init => NetworkInv
  <2> SUFFICES ASSUME Init PROVE NetworkInv
    OBVIOUS
  <2>1. NetworkTypeOK
    BY DEF Init, NetworkTypeOK, Results
  <2> QED
    BY <2>1, RequestIsMade DEF Init, NetworkInv, CallsInv, RepliesInv, ResultsInv
<1>2. NetworkInv /\ [Next]_vars => NetworkInv'
  BY EveryStepKeeps, TypeStep, CallsStep, RepliesStep, ResultsStep DEF NetworkInv
<1> QED
  BY <1>1, <1>2, PTL DEF Spec

-----------------------------------------------------------------------------
(* Whatever is lost, delayed, answered late or stored in part: a push that *)
(* returned Ok reports as accepted or duplicate only what the log holds,   *)
(* and as nothing but rejected what the server never stores; and an ack    *)
(* that returned Ok took.                                                  *)
THEOREM OkIsAlwaysTruthful == Spec => []OkIsTruthful
<1>1. NetworkInv => OkIsTruthful
  BY DEF NetworkInv, NetworkTypeOK, ResultsInv, Answered, TruthfulReport, OkIsTruthful
<1> QED
  BY <1>1, NetworkInvariant, PTL

(* No call is attempted more often than its policy allows, and one that    *)
(* does not retry is attempted once.                                       *)
THEOREM AttemptsAreBounded == Spec => []AttemptsBounded
<1>1. Init => AttemptsBounded
  BY DEF Init, AttemptsBounded
<1>2. NetworkInv /\ AttemptsBounded /\ [Next]_vars => AttemptsBounded'
  <2> SUFFICES ASSUME NetworkInv, AttemptsBounded, [Next]_vars,
                      NEW c \in Call
               PROVE  attempt'[c] = 0 \/ (attempt'[c] < MaxAttempts /\ Retries(c)')
    BY DEF AttemptsBounded
  <2> USE DEF NetworkInv, NetworkTypeOK, CallsInv, AttemptsBounded, Retries
  <2>1. attempt[c] = 0 \/ pc[c] # "ready"
    BY DEF NoRequest
  <2>2. pc[c] # "ready" => request'[c] = request[c]
    BY EveryStepKeeps DEF StepKeeps
  <2>3. ASSUME NEW d \in Call, Wake(d)
        PROVE  attempt'[c] = 0 \/ (attempt'[c] < MaxAttempts /\ Retries(c)')
    BY <2>3 DEF Wake
  <2>4. CASE UNCHANGED attempt
    BY <2>1, <2>2, <2>4
  <2> QED
    BY <2>3, <2>4 DEF Next, vars, Start, SendError, Receive, Kill, Handle,
                      LoseRequest, LoseReply
<1> QED
  BY <1>1, <1>2, NetworkInvariant, PTL DEF Spec

-----------------------------------------------------------------------------
(* SyncNetwork implements PushContract: in the abstract state, made and    *)
(* reported are what the calls' requests and results say.                  *)
Made == {<<c, Batch(c)>> : c \in Pushes}
OkPushes == {c \in Pushes : result[c] = "ok"}
Reported == {<<c, report[c]>> : c \in OkPushes}

(* A step that changes no request, no returned push and not the log is no  *)
(* step of the contract.                                                   *)
LEMMA StutterMaps ==
    ASSUME UNCHANGED stored, Made' = Made, Reported' = Reported
    PROVE  UNCHANGED Contract!cvars
BY DEF Contract!cvars, Made, Reported, OkPushes

(* The pushes and their batches depend on the requests only, ...           *)
LEMMA SameRequests ==
    ASSUME UNCHANGED request
    PROVE  Pushes' = Pushes /\ Made' = Made /\ \A c \in Call : Batch(c)' = Batch(c)
BY DEF Pushes, Made, Kind, Batch

(* ... and what is reported on the results and reports of the pushes.      *)
LEMMA SameResults ==
    ASSUME UNCHANGED request,
           \A c \in Call : /\ result'[c] = "ok" <=> result[c] = "ok"
                           /\ result[c] = "ok" => report'[c] = report[c]
    PROVE  Reported' = Reported
<1>1. OkPushes' = OkPushes
  BY DEF OkPushes, Pushes, Kind
<1>2. \A c \in OkPushes : report'[c] = report[c]
  BY DEF OkPushes, Pushes
<1> QED
  BY <1>1, <1>2 DEF Reported

(* The start of a push makes it; that of another call is no step.          *)
LEMMA StartMaps ==
    ASSUME NetworkInv, NEW c \in Call, Start(c)
    PROVE  Contract!Make(c) \/ UNCHANGED Contract!cvars
<1> USE DEF NetworkInv, NetworkTypeOK
<1>1. PICK r \in Request : request' = [request EXCEPT ![c] = r]
  BY DEF Start
<1>2. /\ request[c] = NoRequest /\ result[c] # "ok"
      /\ UNCHANGED <<stored, result, report>>
  BY DEF Start, CallsInv, ResultsInv, server
<1>3. /\ c \notin Pushes
      /\ \A d \in Call \ {c} : Kind(d)' = Kind(d) /\ Batch(d)' = Batch(d)
  BY <1>1, <1>2 DEF Pushes, Kind, Batch, NoRequest
<1>4. Reported' = Reported
  <2>1. OkPushes' = OkPushes
    BY <1>2, <1>3 DEF OkPushes, Pushes
  <2> QED
    BY <1>2, <2>1 DEF Reported
<1>5. CASE r.kind = "push"
  <2>1. /\ Pushes' = Pushes \cup {c} /\ Batch(c)' = r.batch
        /\ r.batch \in SUBSET Event
    BY <1>1, <1>3, <1>5, SyncNetworkAssumption DEF Pushes, Kind, Batch
  <2>2. Made' = Made \cup {<<c, r.batch>>}
    BY <1>3, <2>1 DEF Made, Pushes
  <2>3. \A m \in Made : m[1] # c
    BY <1>3 DEF Made
  <2> QED
    BY <1>2, <1>4, <2>1, <2>2, <2>3 DEF Contract!Make, Made, Reported, OkPushes
<1>6. CASE r.kind # "push"
  <2>1. Pushes' = Pushes
    BY <1>1, <1>3, <1>6 DEF Pushes, Kind
  <2>2. Made' = Made
    BY <1>3, <2>1 DEF Made, Pushes
  <2> QED
    BY <1>2, <1>4, <2>2, StutterMaps
<1> QED
  BY <1>5, <1>6

(* A request that is handled commits some of a push's batch, or nothing.   *)
LEMMA HandleMaps ==
    ASSUME NetworkInv, NEW r \in wire, Handle(r[1], r[2])
    PROVE  (\E m \in Made : Contract!Commit(m[2])) \/ UNCHANGED Contract!cvars
<1> DEFINE c == r[1]
<1>1. c \in Call
  BY DEF NetworkInv, NetworkTypeOK
<1>2. UNCHANGED <<request, result, report>>
  BY DEF Handle
<1>3. Made' = Made /\ Reported' = Reported
  BY <1>2, SameRequests, SameResults
<1>4. CASE Kind(c) = "push"
  <2>1. \E S \in SUBSET (Batch(c) \ Invalid) : stored' = stored \cup S
    <3>1. PICK code, failed : HandleSuccess(c, code, failed) \/ HandleFailure(c, code)
      BY DEF Handle
    <3>2. stored' = stored \cup (Batch(c) \ (Invalid \cup failed)) \/ stored' = stored \cup {}
            \/ \E S \in SUBSET (Batch(c) \ Invalid) : stored' = stored \cup S
      BY <1>4, <3>1 DEF HandleSuccess, HandleFailure
    <3> QED
      BY <3>2
  <2>2. <<c, Batch(c)>> \in Made
    BY <1>1, <1>4 DEF Made, Pushes
  <2>3. Contract!Commit(Batch(c))
    BY <1>3, <2>1 DEF Contract!Commit, Made, Reported, OkPushes
  <2> QED
    BY <2>2, <2>3
<1>5. CASE Kind(c) # "push"
  BY <1>3, <1>5, StutterMaps DEF Handle, HandleSuccess, HandleFailure
<1> QED
  BY <1>4, <1>5

(* A reply that ends a push with Ok answers it; any other is no step.      *)
LEMMA ReceiveMaps ==
    ASSUME NetworkInv, NEW c \in Call, Receive(c)
    PROVE  \/ \E m \in Made : Contract!AnswerOk(m[1], m[2])
           \/ UNCHANGED Contract!cvars
<1> USE DEF NetworkInv, NetworkTypeOK
<1>1. PICK m \in replies : m.call = c /\ (ReceiveSuccess(c, m) \/ ReceiveFailure(c, m))
  BY DEF Receive
<1>2. UNCHANGED <<request, stored>> /\ pc[c] = "sending" /\ result[c] # "ok"
  BY DEF Receive, server, ResultsInv
<1>3. \A d \in Call \ {c} : result'[d] = result[d] /\ report'[d] = report[d]
  BY <1>1 DEF ReceiveSuccess, ReceiveFailure, Return, Sleep
<1>4. Made' = Made /\ Pushes' = Pushes
  BY <1>2, SameRequests
<1>5. CASE result'[c] = "ok" /\ c \in Pushes
  <2>1. IsSuccess(m.code) /\ report'[c] = m.report
    BY <1>1, <1>2, <1>5 DEF ReceiveSuccess, ReceiveFailure, Return, Sleep, MapStatus
  <2>2. TruthfulReport(c, m.report)
    BY <1>1, <1>5, <2>1 DEF RepliesInv, Answered, Pushes
  <2>3. OkPushes' = OkPushes \cup {c} /\ c \notin OkPushes
    BY <1>2, <1>3, <1>4, <1>5 DEF OkPushes, Pushes
  <2>4. \A d \in OkPushes : report'[d] = report[d]
    BY <1>3, <2>3 DEF OkPushes, Pushes
  <2>5. Reported' = Reported \cup {<<c, m.report>>}
    <3>1. /\ \A x : x \in Reported' <=> \E d \in OkPushes' : x = <<d, report'[d]>>
          /\ \A x : x \in Reported <=> \E d \in OkPushes : x = <<d, report[d]>>
      BY DEF Reported
    <3> QED
      BY <2>1, <2>3, <2>4, <3>1
  <2>6. \A x \in Reported : x[1] # c
    BY <2>3 DEF Reported
  <2>7. PICK p \in Made : p[1] = c /\ p[2] = Batch(c)
    <3> DEFINE pair == <<c, Batch(c)>>
    <3>1. pair \in Made
      BY <1>5 DEF Made
    <3>2. pair[1] = c /\ pair[2] = Batch(c)
      OBVIOUS
    <3> HIDE DEF pair
    <3> QED
      BY <3>1, <3>2
  <2>8. Contract!AnswerOk(p[1], p[2])
    <3>1. m.report \in [Batch(c) -> {"accepted", "duplicate", "rejected"}]
      BY <2>2 DEF TruthfulReport, PerEvent
    <3>2. \A e \in Batch(c) : m.report[e] = "rejected" \/ e \in stored \ Invalid
      BY <2>2 DEF TruthfulReport
    <3>3. /\ \A x \in Reported : x[1] # c
          /\ \E rep \in [Batch(c) -> {"accepted", "duplicate", "rejected"}] :
                /\ \A e \in Batch(c) : rep[e] = "rejected" \/ e \in stored \ Invalid
                /\ Reported' = Reported \cup {<<c, rep>>}
          /\ UNCHANGED <<Made, stored>>
      BY <1>2, <1>4, <2>5, <2>6, <3>1, <3>2
    <3>4. /\ \A x \in Reported : x[1] # p[1]
          /\ \E rep \in [p[2] -> {"accepted", "duplicate", "rejected"}] :
                /\ \A e \in p[2] : rep[e] = "rejected" \/ e \in stored \ Invalid
                /\ Reported' = Reported \cup {<<p[1], rep>>}
          /\ UNCHANGED <<Made, stored>>
      BY <2>7, <3>3
    <3> QED
      BY <3>4 DEF Contract!AnswerOk, Made, Reported, OkPushes
  <2> QED
    BY <2>7, <2>8
<1>6. CASE c \notin Pushes \/ result'[c] # "ok"
  <2>1. OkPushes' = OkPushes
    BY <1>2, <1>3, <1>4, <1>6 DEF OkPushes, Pushes
  <2>2. c \notin OkPushes
    BY <1>2 DEF OkPushes
  <2>3. Reported' = Reported
    BY <1>3, <2>1, <2>2 DEF Reported, OkPushes, Pushes
  <2> QED
    BY <1>2, <1>4, <2>3, StutterMaps
<1> QED
  BY <1>5, <1>6

(* SyncNetwork implements PushContract: attempts, statuses, losses and     *)
(* retries are invisible to who only sees pushes made, the log, and what   *)
(* returned Ok.                                                            *)
THEOREM ImplementsPushContract == Spec => KeepsContract
<1>1. Init => Contract!CInit
  <2> SUFFICES ASSUME Init PROVE Contract!CInit
    OBVIOUS
  <2>1. Pushes = {}
    BY DEF Init, Pushes, Kind, NoRequest
  <2> QED
    BY <2>1 DEF Init, Contract!CInit
<1>2. NetworkInv /\ [Next]_vars => [Contract!CNext]_(Contract!cvars)
  <2> SUFFICES ASSUME NetworkInv, [Next]_vars
               PROVE  Contract!CNext \/ UNCHANGED Contract!cvars
    OBVIOUS
  <2> USE DEF NetworkInv, NetworkTypeOK
  <2>1. ASSUME NEW c \in Call, Start(c)
        PROVE  Contract!CNext \/ UNCHANGED Contract!cvars
    BY <2>1, StartMaps DEF Contract!CNext
  <2>2. ASSUME NEW r \in wire, Handle(r[1], r[2])
        PROVE  Contract!CNext \/ UNCHANGED Contract!cvars
    BY <2>2, HandleMaps DEF Contract!CNext, Made
  <2>3. ASSUME NEW c \in Call, Receive(c)
        PROVE  Contract!CNext \/ UNCHANGED Contract!cvars
    BY <2>3, ReceiveMaps DEF Contract!CNext, Made
  <2>4. ASSUME UNCHANGED <<request, stored>>,
               \A c \in Call : /\ result'[c] = "ok" <=> result[c] = "ok"
                               /\ result[c] = "ok" => report'[c] = report[c]
        PROVE  UNCHANGED Contract!cvars
    BY <2>4, SameRequests, SameResults, StutterMaps
  <2>5. ASSUME NEW c \in Call, SendError(c)
        PROVE  UNCHANGED Contract!cvars
    <3>1. result[c] # "ok"
      BY <2>5 DEF SendError, ResultsInv
    <3> QED
      BY <2>4, <2>5, <3>1 DEF SendError, Sleep, Return, server
  <2>6. ASSUME Kill PROVE UNCHANGED Contract!cvars
    <3>1. \A c \in Call : pc[c] \in {"sending", "backoff"} => result[c] # "ok"
      BY DEF ResultsInv
    <3> QED
      BY <2>4, <2>6, <3>1 DEF Kill, server
  <2>7. CASE UNCHANGED <<request, stored, result, report>>
    BY <2>4, <2>7
  <2> QED
    BY <2>1, <2>2, <2>3, <2>5, <2>6, <2>7
       DEF Next, vars, server, Wake, LoseRequest, LoseReply
<1> QED
  BY <1>1, <1>2, NetworkInvariant, PTL DEF Spec, KeepsContract, Contract!CSpec

-----------------------------------------------------------------------------
(* Lww.  Induction over the turns of the loop and over the places of a     *)
(* sorted log is by the least number for which a claim fails.              *)

Envelope == [id : Nat, op : Ops, stamp : Timestamp(Nat)]

(* `Ord for Hlc` is a strict total order. *)
LEMMA StampOrder ==
    ASSUME NEW a \in Timestamp(Nat), NEW b \in Timestamp(Nat), NEW c \in Timestamp(Nat)
    PROVE  /\ ~Before(a, a)
           /\ Before(a, b) /\ Before(b, c) => Before(a, c)
           /\ a = b \/ Before(a, b) \/ Before(b, a)
BY DEF Before, Timestamp

LEMMA EnvelopeType ==
    ASSUME NEW g \in Seq(Envelope)
    PROVE  /\ Len(g) \in Nat /\ DOMAIN g = 1 .. Len(g) /\ DOMAIN g \subseteq Nat
           /\ \A i \in DOMAIN g : g[i] \in Envelope /\ g[i].stamp \in Timestamp(Nat)
<1>1. \A e \in Envelope : e.stamp \in Timestamp(Nat)
  BY DEF Envelope
<1>2. Len(g) \in Nat /\ DOMAIN g = 1 .. Len(g) /\ \A i \in DOMAIN g : g[i] \in Envelope
  OBVIOUS
<1> QED
  BY <1>1, <1>2

(* A stable sort has one order for the events of a log.                    *)
LEMMA SoonerIsOrder ==
    ASSUME NEW g \in Seq(Envelope),
           NEW i \in DOMAIN g, NEW j \in DOMAIN g, NEW k \in DOMAIN g
    PROVE  /\ ~Sooner(g, i, i)
           /\ Sooner(g, i, j) /\ Sooner(g, j, k) => Sooner(g, i, k)
           /\ i # j => Sooner(g, i, j) \/ Sooner(g, j, i)
<1>1. /\ i \in Nat /\ j \in Nat /\ k \in Nat
      /\ g[i].stamp \in Timestamp(Nat) /\ g[j].stamp \in Timestamp(Nat)
      /\ g[k].stamp \in Timestamp(Nat)
  BY EnvelopeType
<1> DEFINE a == g[i].stamp
           b == g[j].stamp
           c == g[k].stamp
<1>2. /\ ~Before(a, a)
      /\ Before(a, b) /\ Before(b, c) => Before(a, c)
      /\ a = b \/ Before(a, b) \/ Before(b, a)
  BY <1>1, StampOrder
<1>3. /\ Sooner(g, i, i) <=> Before(a, a)
      /\ Sooner(g, i, j) <=> Before(a, b) \/ (a = b /\ i < j)
      /\ Sooner(g, j, i) <=> Before(b, a) \/ (b = a /\ j < i)
      /\ Sooner(g, j, k) <=> Before(b, c) \/ (b = c /\ j < k)
      /\ Sooner(g, i, k) <=> Before(a, c) \/ (a = c /\ i < k)
  BY <1>1 DEF Sooner
<1> HIDE DEF a, b, c
<1> QED
  BY <1>1, <1>2, <1>3

(* The places of a sorted log are 1, 2, ... in its order.                  *)
LEMMA PlaceNumbers ==
    ASSUME NEW g \in Seq(Envelope)
    PROVE  /\ \A i \in DOMAIN g : Place(g, i) \in DOMAIN g
           /\ \A i, j \in DOMAIN g : Sooner(g, i, j) => Place(g, i) < Place(g, j)
           /\ \A k \in DOMAIN g : \E i \in DOMAIN g : Place(g, i) = k
<1> DEFINE D == DOMAIN g
           P(i) == {j \in D : Sooner(g, j, i)}
<1>1. D = 1 .. Len(g) /\ Len(g) \in Nat /\ IsFiniteSet(D) /\ Cardinality(D) = Len(g)
  <2>1. D = 1 .. Len(g) /\ Len(g) \in Nat
    BY EnvelopeType
  <2> HIDE DEF D
  <2> QED
    BY <2>1, FS_Interval
<1>2. ASSUME NEW i \in D
      PROVE  /\ IsFiniteSet(P(i)) /\ Cardinality(P(i)) \in Nat
             /\ Cardinality(P(i)) <= Len(g) - 1
             /\ Place(g, i) = Cardinality(P(i)) + 1
  <2>1. P(i) \in SUBSET (D \ {i})
    BY SoonerIsOrder
  <2>2. IsFiniteSet(D \ {i}) /\ Cardinality(D \ {i}) = Len(g) - 1
    BY <1>1, FS_RemoveElement
  <2>3. Place(g, i) = Cardinality(P(i)) + 1
    BY DEF Place
  <2> HIDE DEF P, D
  <2>4. IsFiniteSet(P(i)) /\ Cardinality(P(i)) <= Cardinality(D \ {i})
    BY <2>1, <2>2, FS_Subset
  <2> QED
    BY <2>2, <2>3, <2>4, FS_CardinalityType
<1>3. ASSUME NEW i \in D PROVE Place(g, i) \in D
  <2> HIDE DEF P, D
  <2> QED
    BY <1>1, <1>2
<1>4. ASSUME NEW i \in D, NEW j \in D, Sooner(g, i, j)
      PROVE  Place(g, i) < Place(g, j)
  <2>1. P(i) \in SUBSET (P(j) \ {i}) /\ i \in P(j)
    BY <1>4, SoonerIsOrder
  <2> HIDE DEF P, D
  <2>2. IsFiniteSet(P(j) \ {i}) /\ Cardinality(P(j) \ {i}) = Cardinality(P(j)) - 1
    BY <1>2, <2>1, FS_RemoveElement
  <2>3. Cardinality(P(i)) <= Cardinality(P(j) \ {i})
    BY <2>1, <2>2, FS_Subset
  <2> QED
    BY <1>2, <2>2, <2>3
<1>5. \A k \in D : \E i \in D : Place(g, i) = k
  <2> DEFINE f == [i \in D |-> Place(g, i)]
  <2>1. f \in [D -> D]
    BY <1>3
  <2>2. \A i, j \in D : i # j => Place(g, i) # Place(g, j)
    <3> SUFFICES ASSUME NEW i \in D, NEW j \in D, i # j
                 PROVE  Place(g, i) # Place(g, j)
      OBVIOUS
    <3>1. Sooner(g, i, j) \/ Sooner(g, j, i)
      BY SoonerIsOrder
    <3>2. Place(g, i) \in Nat /\ Place(g, j) \in Nat
      BY <1>3, EnvelopeType
    <3> QED
      BY <1>4, <3>1, <3>2
  <2>3. f \in Injection(D, D)
    BY <2>1, <2>2 DEF Injection, IsInjective
  <2> HIDE DEF f, D
  <2>4. f \in Surjection(D, D)
    BY <1>1, <2>3, FS_Injection
  <2> QED
    BY <2>4 DEF Surjection, f
<1> QED
  BY <1>3, <1>4, <1>5

(* What sort_by_key makes of a log: the same events, in their order.       *)
LEMMA SortedSorts ==
    ASSUME NEW g \in Seq(Envelope)
    PROVE  /\ Sorted(g) \in Seq(Envelope) /\ Len(Sorted(g)) = Len(g)
           /\ \A k \in DOMAIN g : \E i \in DOMAIN g : Sorted(g)[k] = g[i]
           /\ \A i \in DOMAIN g : \E k \in DOMAIN g : Sorted(g)[k] = g[i]
           /\ \A k, m \in DOMAIN g :
                 k < m => AtOrBefore(Sorted(g)[k].stamp, Sorted(g)[m].stamp)
<1> DEFINE D == DOMAIN g
           s == Sorted(g)
           placed == {<<Place(g, i), g[i]>> : i \in D}
<1>1. \A i, j \in D : Place(g, i) = Place(g, j) => i = j
  <2> SUFFICES ASSUME NEW i \in D, NEW j \in D, i # j, Place(g, i) = Place(g, j)
               PROVE  FALSE
    OBVIOUS
  <2>1. Sooner(g, i, j) \/ Sooner(g, j, i)
    BY SoonerIsOrder
  <2>2. Place(g, i) \in Nat /\ Place(g, j) \in Nat
    <3>1. Place(g, i) \in D /\ Place(g, j) \in D
      BY PlaceNumbers
    <3> QED
      BY <3>1, EnvelopeType
  <2>3. /\ Sooner(g, i, j) => Place(g, i) < Place(g, j)
        /\ Sooner(g, j, i) => Place(g, j) < Place(g, i)
    BY PlaceNumbers
  <2> HIDE DEF D
  <2> QED
    BY <2>1, <2>2, <2>3
<1>2. ASSUME NEW i \in D PROVE s[Place(g, i)] = g[i]
  <2>1. s = [k \in D |-> (CHOOSE p \in placed : p[1] = k)[2]]
    BY DEF Sorted
  <2>2. Place(g, i) \in D
    BY PlaceNumbers
  <2>3. <<Place(g, i), g[i]>> \in placed
    OBVIOUS
  <2>4. \A p \in placed : p[1] = Place(g, i) => p[2] = g[i]
    BY <1>1
  <2> HIDE DEF s, placed
  <2>5. PICK p \in placed : p = CHOOSE q \in placed : q[1] = Place(g, i)
    BY <2>3
  <2>6. p[1] = Place(g, i)
    BY <2>3, <2>5
  <2> QED
    BY <2>1, <2>2, <2>4, <2>5, <2>6
<1>3. ASSUME NEW k \in D PROVE \E i \in D : Place(g, i) = k /\ s[k] = g[i]
  <2>1. PICK i \in D : Place(g, i) = k
    BY PlaceNumbers
  <2> HIDE DEF s
  <2> QED
    BY <1>2, <2>1
<1>4. D = 1 .. Len(g) /\ Len(g) \in Nat /\ \A i \in D : g[i] \in Envelope
  BY EnvelopeType
<1>5. s \in Seq(Envelope) /\ Len(s) = Len(g)
  <2>1. DOMAIN s = D /\ s = [k \in D |-> s[k]]
    BY DEF Sorted
  <2>2. \A k \in D : s[k] \in Envelope
    BY <1>3, <1>4
  <2> HIDE DEF s, D
  <2>3. s \in [1 .. Len(g) -> Envelope]
    BY <1>4, <2>1, <2>2
  <2> QED
    BY <1>4, <2>3
<1>6. ASSUME NEW k \in D, NEW m \in D, k < m PROVE AtOrBefore(s[k].stamp, s[m].stamp)
  <2>1. PICK i \in D : Place(g, i) = k /\ s[k] = g[i]
    BY <1>3
  <2>2. PICK j \in D : Place(g, j) = m /\ s[m] = g[j]
    BY <1>3
  <2>3. Sooner(g, i, j)
    <3>1. i # j /\ ~(m < k)
      BY <1>4, <1>6, <2>1, <2>2
    <3>2. Sooner(g, j, i) => m < k
      BY <2>1, <2>2, PlaceNumbers
    <3> QED
      BY <3>1, <3>2, SoonerIsOrder
  <2> HIDE DEF s
  <2> QED
    BY <2>1, <2>2, <2>3 DEF Sooner, AtOrBefore
<1> QED
  BY <1>2, <1>3, <1>5, <1>6, PlaceNumbers

(* A set of numbers has a least one: induction, stated without an operator. *)
LEMMA LeastExists ==
    ASSUME NEW S, S \subseteq Nat, S # {}
    PROVE  \E n \in S : \A k \in S : n <= k
<1> DEFINE R == {ss \in Nat \X Nat : ss[1] < ss[2]}
<1>1. IsWellFoundedOn(R, Nat)
  BY NatLessThanWellFounded DEF OpToRel
<1>2. \E n \in S : \A k \in S : ~(<<k, n>> \in R)
  <2> HIDE DEF R
  <2> QED
    BY <1>1, WFMin
<1>3. \A k, n \in S : ~(<<k, n>> \in R) => n <= k
  OBVIOUS
<1> HIDE DEF R
<1> QED
  BY <1>2, <1>3

Unresolved == [current |-> {}, deleteAt |-> {}]

(* The first n turns of the loop over s. *)
AreTurns(t, s, n) ==
    t = [k \in 0 .. n |-> IF k = 0 THEN Unresolved ELSE ResolveStep(t[k - 1], s[k])]

LEMMA TurnsExist ==
    ASSUME NEW s, NEW n \in Nat
    PROVE  \E t : AreTurns(t, s, n)
<1> DEFINE B == {m \in Nat : ~\E t : AreTurns(t, s, m)}
<1> SUFFICES ASSUME B # {} PROVE FALSE
  OBVIOUS
<1>1. PICK m \in B : \A k \in B : m <= k
  <2>1. B \subseteq Nat
    OBVIOUS
  <2> HIDE DEF B
  <2> QED
    BY <2>1, LeastExists
<1>2. m \in Nat /\ ~\E t : AreTurns(t, s, m)
  BY <1>1
<1>3. CASE m = 0
  <2>1. AreTurns([k \in 0 .. 0 |-> Unresolved], s, 0)
    BY DEF AreTurns
  <2> QED
    BY <1>2, <1>3, <2>1
<1>4. CASE m > 0
  <2>1. m - 1 \in Nat /\ m - 1 \notin B
    BY <1>1, <1>2, <1>4
  <2>2. PICK t : AreTurns(t, s, m - 1)
    BY <2>1
  <2> DEFINE u == [k \in 0 .. m |-> IF k = m THEN ResolveStep(t[m - 1], s[m]) ELSE t[k]]
  <2>3. \A k \in 0 .. m - 1 : t[k] = IF k = 0 THEN Unresolved ELSE ResolveStep(t[k - 1], s[k])
    BY <1>2, <2>2 DEF AreTurns
  <2>4. ASSUME NEW k \in 0 .. m
        PROVE  u[k] = IF k = 0 THEN Unresolved ELSE ResolveStep(u[k - 1], s[k])
    <3>1. CASE k = m
      <4>1. u[k - 1] = t[m - 1]
        BY <1>2, <1>4, <3>1
      <4> QED
        BY <1>2, <1>4, <3>1, <4>1
    <3>2. CASE k # m
      <4>1. u[k] = t[k] /\ k \in 0 .. m - 1 /\ (k # 0 => u[k - 1] = t[k - 1])
        BY <1>2, <1>4, <3>2
      <4> HIDE DEF u
      <4> QED
        BY <2>3, <4>1
    <3> QED
      BY <3>1, <3>2
  <2>5. u = [k \in 0 .. m |-> IF k = 0 THEN Unresolved ELSE ResolveStep(u[k - 1], s[k])]
    BY <2>4
  <2> QED
    BY <1>2, <2>5 DEF AreTurns
<1> QED
  BY <1>2, <1>3, <1>4

(* The loop runs as it is written. *)
LEMMA TurnsRun ==
    ASSUME NEW s, Len(s) \in Nat
    PROVE  /\ Turns(s)[0] = Unresolved
           /\ \A k \in 1 .. Len(s) : Turns(s)[k] = ResolveStep(Turns(s)[k - 1], s[k])
<1>1. Turns(s) = CHOOSE t : AreTurns(t, s, Len(s))
  BY DEF Turns, AreTurns, Unresolved
<1>2. AreTurns(Turns(s), s, Len(s))
  BY <1>1, TurnsExist
<1> QED
  BY <1>2 DEF AreTurns

(* What the loop knows after k turns over s: the event it would return is  *)
(* among the latest it has seen, and a delete if one of these is; it       *)
(* remembers a delete no earlier than any it has seen.                     *)
TurnInv(s, t, k) ==
    /\ k # 0 => \E j \in 1 .. k :
          /\ t[k].current = {s[j]}
          /\ \A i \in 1 .. k : AtOrBefore(s[i].stamp, s[j].stamp)
          /\ \A i \in 1 .. k :
                s[i].op = "delete" /\ s[i].stamp = s[j].stamp => s[j].op = "delete"
    /\ \A i \in 1 .. k : s[i].op = "delete" =>
          \E d \in t[k].deleteAt : AtOrBefore(s[i].stamp, d)
    /\ \A d \in t[k].deleteAt : \E i \in 1 .. k : s[i].op = "delete" /\ s[i].stamp = d

LEMMA TurnKeeps ==
    ASSUME NEW s \in Seq(Envelope), NEW t, NEW k \in 1 .. Len(s),
           \A i, j \in DOMAIN s : i < j => AtOrBefore(s[i].stamp, s[j].stamp),
           t[k] = ResolveStep(t[k - 1], s[k]),
           TurnInv(s, t, k - 1)
    PROVE  TurnInv(s, t, k)
<1>1. /\ k \in Nat /\ k >= 1 /\ k \in DOMAIN s /\ 1 .. k \subseteq DOMAIN s
      /\ 1 .. k = (1 .. (k - 1)) \cup {k}
      /\ \A i \in DOMAIN s : s[i].stamp \in Timestamp(Nat)
  BY EnvelopeType
<1>2. \A i \in 1 .. k : AtOrBefore(s[i].stamp, s[k].stamp)
  BY <1>1 DEF AtOrBefore
<1> DEFINE Skip == \E d \in t[k - 1].deleteAt : AtOrBefore(s[k].stamp, d)
<1>3. CASE Skip
  <2>1. t[k] = t[k - 1]
    BY <1>3 DEF ResolveStep
  <2>2. PICK d \in t[k - 1].deleteAt : AtOrBefore(s[k].stamp, d)
    BY <1>3
  <2>3. PICK i \in 1 .. (k - 1) : s[i].op = "delete" /\ s[i].stamp = d
    BY <2>2 DEF TurnInv
  <2>4. k - 1 # 0
    BY <2>3
  <2>5. PICK j \in 1 .. (k - 1) :
          /\ t[k - 1].current = {s[j]}
          /\ \A h \in 1 .. (k - 1) : AtOrBefore(s[h].stamp, s[j].stamp)
          /\ \A h \in 1 .. (k - 1) :
                s[h].op = "delete" /\ s[h].stamp = s[j].stamp => s[j].op = "delete"
    BY <2>4 DEF TurnInv
  <2>6. s[k].stamp = d /\ s[j].stamp = d
    <3>1. AtOrBefore(s[j].stamp, s[k].stamp) /\ AtOrBefore(s[i].stamp, s[j].stamp)
      BY <1>1, <1>2, <2>3, <2>5
    <3>2. /\ s[i].stamp \in Timestamp(Nat) /\ s[j].stamp \in Timestamp(Nat)
          /\ s[k].stamp \in Timestamp(Nat)
      BY <1>1
    <3> QED
      BY <2>2, <2>3, <3>1, <3>2, StampOrder DEF AtOrBefore
  <2>7. s[j].op = "delete"
    BY <2>3, <2>5, <2>6
  <2>8. /\ \A h \in 1 .. k : AtOrBefore(s[h].stamp, s[j].stamp)
        /\ \A h \in 1 .. k : s[h].op = "delete" =>
              \E e \in t[k].deleteAt : AtOrBefore(s[h].stamp, e)
    BY <1>1, <1>2, <2>1, <2>2, <2>5, <2>6 DEF TurnInv
  <2>9. \A e \in t[k].deleteAt : \E h \in 1 .. k : s[h].op = "delete" /\ s[h].stamp = e
    BY <1>1, <2>1 DEF TurnInv
  <2> QED
    BY <1>1, <2>1, <2>5, <2>7, <2>8, <2>9 DEF TurnInv
<1>4. CASE ~Skip
  <2>1. t[k] = [current |-> {s[k]},
                deleteAt |-> IF s[k].op = "delete" THEN {s[k].stamp} ELSE t[k - 1].deleteAt]
    BY <1>4 DEF ResolveStep
  <2>2. /\ t[k].current = {s[k]}
        /\ t[k].deleteAt = IF s[k].op = "delete" THEN {s[k].stamp} ELSE t[k - 1].deleteAt
    BY <2>1
  <2>3. \A i \in 1 .. k : s[i].op = "delete" /\ s[i].stamp = s[k].stamp => s[k].op = "delete"
    BY <1>1, <1>4 DEF TurnInv
  <2>4. CASE s[k].op = "delete"
    <3>1. t[k].deleteAt = {s[k].stamp}
      BY <2>2, <2>4
    <3> QED
      BY <1>1, <1>2, <2>2, <2>3, <2>4, <3>1 DEF TurnInv
  <2>5. CASE s[k].op # "delete"
    <3>1. t[k].deleteAt = t[k - 1].deleteAt
      BY <2>2, <2>5
    <3>2. /\ \A i \in 1 .. k : s[i].op = "delete" =>
                \E d \in t[k].deleteAt : AtOrBefore(s[i].stamp, d)
          /\ \A d \in t[k].deleteAt : \E i \in 1 .. k : s[i].op = "delete" /\ s[i].stamp = d
      BY <1>1, <2>5, <3>1 DEF TurnInv
    <3> QED
      BY <1>1, <1>2, <2>2, <2>3, <3>2 DEF TurnInv
  <2> QED
    BY <2>4, <2>5
<1> QED
  BY <1>3, <1>4

LEMMA TurnsInvariant ==
    ASSUME NEW s \in Seq(Envelope), NEW n \in 0 .. Len(s),
           \A i, j \in DOMAIN s : i < j => AtOrBefore(s[i].stamp, s[j].stamp)
    PROVE  TurnInv(s, Turns(s), n)
<1> DEFINE t == Turns(s)
           B == {m \in 0 .. Len(s) : ~TurnInv(s, t, m)}
<1>0. Len(s) \in Nat /\ B \subseteq Nat
  BY EnvelopeType
<1> SUFFICES ASSUME B # {} PROVE FALSE
  OBVIOUS
<1>1. PICK m \in B : \A k \in B : m <= k
  <2> HIDE DEF B
  <2> QED
    BY <1>0, LeastExists
<1>2. m \in 0 .. Len(s) /\ ~TurnInv(s, t, m)
  BY <1>1
<1> HIDE DEF t
<1>3. CASE m = 0
  <2>1. t[0] = Unresolved
    BY <1>0, TurnsRun DEF t
  <2>2. t[0].deleteAt = {}
    BY <2>1 DEF Unresolved
  <2>3. TurnInv(s, t, 0)
    BY <2>2 DEF TurnInv
  <2> QED
    BY <1>2, <1>3, <2>3
<1>4. CASE m # 0
  <2>1. m \in 1 .. Len(s) /\ m - 1 \in 0 .. Len(s) /\ m - 1 \notin B
    BY <1>0, <1>1, <1>2, <1>4
  <2>2. TurnInv(s, t, m - 1)
    BY <2>1
  <2>3. t[m] = ResolveStep(t[m - 1], s[m])
    BY <1>0, <2>1, TurnsRun DEF t
  <2> HIDE DEF B
  <2> QED
    BY <1>2, <2>1, <2>2, <2>3, TurnKeeps
<1> QED
  BY <1>3, <1>4

(* Of the events S, e is a latest one, and if several share its timestamp  *)
(* and one of these is a delete, it is a delete.                           *)
Wins(e, S) ==
    /\ e \in S
    /\ \A f \in S : AtOrBefore(f.stamp, e.stamp)
    /\ \A f \in S : f.op = "delete" /\ f.stamp = e.stamp => e.op = "delete"

HeldIn(g) == {g[k] : k \in 1 .. Len(g)}

(* Whatever events a log holds, in whatever order and however often,       *)
(* resolve returns nothing of an empty log and of another its winner.      *)
THEOREM ResolveReturnsWinner ==
    ASSUME NEW g \in Seq(Envelope)
    PROVE  /\ g = <<>> => Resolve(g) = {}
           /\ g # <<>> => \E e : Wins(e, HeldIn(g)) /\ Resolve(g) = {e}
<1> DEFINE s == Sorted(g)
           n == Len(s)
<1>1. /\ s \in Seq(Envelope) /\ n = Len(g) /\ n \in Nat
      /\ DOMAIN g = 1 .. n /\ DOMAIN s = 1 .. n
      /\ \A k \in 1 .. n : \E i \in 1 .. n : s[k] = g[i]
      /\ \A i \in 1 .. n : \E k \in 1 .. n : s[k] = g[i]
      /\ \A i, j \in DOMAIN s : i < j => AtOrBefore(s[i].stamp, s[j].stamp)
  <2>1. /\ s \in Seq(Envelope) /\ n = Len(g) /\ Len(g) \in Nat /\ DOMAIN g = 1 .. Len(g)
    BY SortedSorts, EnvelopeType
  <2>2. DOMAIN s = 1 .. n
    <3> HIDE DEF s
    <3> QED
      BY <2>1
  <2>3. /\ \A k \in DOMAIN g : \E i \in DOMAIN g : s[k] = g[i]
        /\ \A i \in DOMAIN g : \E k \in DOMAIN g : s[k] = g[i]
        /\ \A i, j \in DOMAIN g : i < j => AtOrBefore(s[i].stamp, s[j].stamp)
    BY SortedSorts
  <2> HIDE DEF s
  <2> QED
    BY <2>1, <2>2, <2>3
<1>2. Resolve(g) = Turns(s)[n].current
  BY DEF Resolve
<1> HIDE DEF s
<1>3. TurnInv(s, Turns(s), n)
  <2>1. n \in 0 .. Len(s)
    BY <1>1
  <2>2. \A m \in 0 .. Len(s) : TurnInv(s, Turns(s), m)
    BY <1>1, TurnsInvariant
  <2> QED
    BY <2>1, <2>2
<1>4. HeldIn(g) = {s[k] : k \in 1 .. n}
  <2>1. HeldIn(g) = {g[i] : i \in 1 .. n}
    BY <1>1 DEF HeldIn
  <2>2. /\ \A k \in 1 .. n : \E i \in 1 .. n : s[k] = g[i]
        /\ \A i \in 1 .. n : \E k \in 1 .. n : s[k] = g[i]
    BY <1>1
  <2> HIDE DEF n
  <2>3. ASSUME NEW i \in 1 .. n PROVE g[i] \in {s[k] : k \in 1 .. n}
    <3>1. PICK k \in 1 .. n : s[k] = g[i]
      BY <2>2
    <3> QED
      BY <3>1
  <2>4. ASSUME NEW k \in 1 .. n PROVE s[k] \in {g[i] : i \in 1 .. n}
    <3>1. PICK i \in 1 .. n : s[k] = g[i]
      BY <2>2
    <3> QED
      BY <3>1
  <2> QED
    BY <2>1, <2>3, <2>4
<1>5. CASE g = <<>>
  <2>1. n = 0
    BY <1>1, <1>5
  <2>2. Turns(s)[0] = Unresolved
    BY <1>1, TurnsRun
  <2> QED
    BY <1>2, <1>5, <2>1, <2>2 DEF Unresolved
<1>6. CASE g # <<>>
  <2>1. n # 0
    BY <1>1, <1>6
  <2>2. PICK j \in 1 .. n :
          /\ Turns(s)[n].current = {s[j]}
          /\ \A i \in 1 .. n : AtOrBefore(s[i].stamp, s[j].stamp)
          /\ \A i \in 1 .. n :
                s[i].op = "delete" /\ s[i].stamp = s[j].stamp => s[j].op = "delete"
    BY <1>3, <2>1 DEF TurnInv
  <2>3. Wins(s[j], HeldIn(g))
    BY <1>4, <2>2 DEF Wins
  <2> QED
    BY <1>2, <1>6, <2>2, <2>3
<1> QED
  BY <1>5, <1>6

-----------------------------------------------------------------------------
(* Replicas.                                                               *)

ReplicasTypeOK ==
    /\ gen \in [Device -> [wall : Nat, lamport : Nat]]
    /\ events \subseteq Envelope /\ IsFiniteSet(events) /\ pushed \subseteq events
    /\ log \in [Device -> Seq(Envelope)]
    /\ restarts \in Nat

(* Until a generator is rebuilt it is at or after every event it holds.    *)
GenInv ==
    restarts = 0 =>
        \A d \in Device : \A e \in Holds(d) :
            AtOrBefore(e.stamp, Stamp(gen[d].wall, gen[d].lamport, d))

ReplicasInv == ReplicasTypeOK /\ GenInv

LEMMA HeldInAppend ==
    ASSUME NEW g \in Seq(Envelope), NEW e \in Envelope
    PROVE  /\ Append(g, e) \in Seq(Envelope) /\ Append(g, e) # <<>>
           /\ HeldIn(Append(g, e)) = HeldIn(g) \cup {e}
           /\ Append(g, e)[Len(Append(g, e))] = e
<1> DEFINE h == Append(g, e)
<1>1. /\ h \in Seq(Envelope) /\ Len(h) = Len(g) + 1 /\ Len(g) \in Nat
      /\ h[Len(g) + 1] = e /\ \A k \in 1 .. Len(g) : h[k] = g[k]
  OBVIOUS
<1> HIDE DEF h
<1>2. 1 .. Len(h) = (1 .. Len(g)) \cup {Len(g) + 1}
  BY <1>1
<1>3. HeldIn(h) = HeldIn(g) \cup {e}
  BY <1>1, <1>2 DEF HeldIn
<1>4. h # <<>>
  BY <1>1
<1> QED
  BY <1>1, <1>3, <1>4 DEF h

(* What a write and a delivery do to the device they are of.               *)
LEMMA WriteStamps ==
    ASSUME ReplicasTypeOK, NEW d \in Device, NEW op \in Ops, NEW now \in 0 .. MaxWall,
           Write(d, op, now)
    PROVE  \E ev \in Envelope, g \in [wall : Nat, lamport : Nat] :
              /\ gen' = [gen EXCEPT ![d] = g] /\ log' = [log EXCEPT ![d] = Append(@, ev)]
              /\ events' = events \cup {ev} /\ UNCHANGED <<pushed, restarts>>
              /\ ev.stamp = Stamp(g.wall, g.lamport, d)
              /\ Before(Stamp(gen[d].wall, gen[d].lamport, d), ev.stamp)
<1> DEFINE w == TickWall(now, gen[d].wall)
           l == TickLamport(now, gen[d].wall, gen[d].lamport)
           g == [wall |-> w, lamport |-> l]
           ev == [id |-> Cardinality(events) + 1, op |-> op, stamp |-> Stamp(w, l, d)]
<1>1. /\ gen' = [gen EXCEPT ![d] = g] /\ log' = [log EXCEPT ![d] = Append(@, ev)]
      /\ events' = events \cup {ev} /\ UNCHANGED <<pushed, restarts>>
  BY DEF Write
<1>2. gen[d].wall \in Nat /\ gen[d].lamport \in Nat /\ now \in Nat /\ d \in Nat
  BY ReplicasAssumption DEF ReplicasTypeOK
<1>3. /\ w \in Nat /\ l \in Nat
      /\ Before(Stamp(gen[d].wall, gen[d].lamport, d), Stamp(w, l, d))
  BY <1>2 DEF TickWall, TickLamport, Larger, Before, Stamp
<1>4. Cardinality(events) + 1 \in Nat
  BY FS_CardinalityType DEF ReplicasTypeOK
<1> HIDE DEF w, l
<1>5. ev \in Envelope /\ g \in [wall : Nat, lamport : Nat]
  BY <1>2, <1>3, <1>4 DEF Envelope, Stamp, Timestamp
<1>6. ev.stamp = Stamp(g.wall, g.lamport, d) /\ ev.stamp = Stamp(w, l, d)
  OBVIOUS
<1> HIDE DEF g, ev
<1> QED
  BY <1>1, <1>3, <1>5, <1>6

LEMMA AbsorbAdvances ==
    ASSUME ReplicasTypeOK, NEW d \in Device, NEW ev \in events, NEW now \in 0 .. MaxWall,
           Absorb(d, ev, now)
    PROVE  \E g \in [wall : Nat, lamport : Nat] :
              /\ gen' = [gen EXCEPT ![d] = g] /\ log' = [log EXCEPT ![d] = Append(@, ev)]
              /\ ev \in Envelope
              /\ Before(Stamp(gen[d].wall, gen[d].lamport, d), Stamp(g.wall, g.lamport, d))
              /\ Before(ev.stamp, Stamp(g.wall, g.lamport, d))
<1> DEFINE w == MergeWall(now, gen[d].wall, ev.stamp)
           l == MergeLamport(now, gen[d].wall, gen[d].lamport, ev.stamp)
           g == [wall |-> w, lamport |-> l]
<1>1. /\ gen' = [gen EXCEPT ![d] = g] /\ log' = [log EXCEPT ![d] = Append(@, ev)]
  BY DEF Absorb
<1>2. gen[d].wall \in Nat /\ gen[d].lamport \in Nat /\ now \in Nat /\ d \in Nat
  BY ReplicasAssumption DEF ReplicasTypeOK
<1>3. ev \in Envelope /\ ev.stamp \in Timestamp(Nat)
  BY DEF ReplicasTypeOK, Envelope
<1>4. /\ w \in Nat /\ l \in Nat
      /\ Before(Stamp(gen[d].wall, gen[d].lamport, d), Stamp(w, l, d))
      /\ Before(ev.stamp, Stamp(w, l, d))
  BY <1>2, <1>3 DEF MergeWall, MergeLamport, Larger, Before, Stamp, Timestamp
<1> HIDE DEF w, l
<1>5. g \in [wall : Nat, lamport : Nat] /\ g.wall = w /\ g.lamport = l
  BY <1>4
<1> HIDE DEF g
<1> QED
  BY <1>1, <1>3, <1>4, <1>5

LEMMA GenStamp ==
    ASSUME ReplicasTypeOK, NEW d \in Device
    PROVE  Stamp(gen[d].wall, gen[d].lamport, d) \in Timestamp(Nat)
<1>1. gen[d].wall \in Nat /\ gen[d].lamport \in Nat /\ d \in Nat
  BY ReplicasAssumption DEF ReplicasTypeOK
<1> QED
  BY <1>1 DEF Stamp, Timestamp

(* A step after which d holds one event more and its generator is later,   *)
(* and at or after that event.                                             *)
LEMMA AdvanceKeepsGen ==
    ASSUME ReplicasInv, NEW d \in Device, NEW ev \in Envelope,
           NEW g \in [wall : Nat, lamport : Nat],
           gen' = [gen EXCEPT ![d] = g], log' = [log EXCEPT ![d] = Append(@, ev)],
           UNCHANGED restarts, events' \subseteq Envelope, IsFiniteSet(events'),
           pushed' \subseteq events',
           Before(Stamp(gen[d].wall, gen[d].lamport, d), Stamp(g.wall, g.lamport, d)),
           AtOrBefore(ev.stamp, Stamp(g.wall, g.lamport, d))
    PROVE  ReplicasInv'
<1> USE DEF ReplicasInv
<1>1. log[d] \in Seq(Envelope) /\ Append(log[d], ev) \in Seq(Envelope)
  BY HeldInAppend DEF ReplicasTypeOK
<1>2. ReplicasTypeOK'
  BY <1>1 DEF ReplicasTypeOK
<1>3. ASSUME restarts' = 0, NEW c \in Device, NEW e \in HeldIn(log'[c])
      PROVE  AtOrBefore(e.stamp, Stamp(gen'[c].wall, gen'[c].lamport, c))
  <2>1. \A f \in HeldIn(log[c]) : AtOrBefore(f.stamp, Stamp(gen[c].wall, gen[c].lamport, c))
    BY <1>3 DEF GenInv, Holds, HeldIn
  <2>2. CASE c # d
    <3>1. log'[c] = log[c] /\ gen'[c] = gen[c]
      BY <2>2 DEF ReplicasTypeOK
    <3> QED
      BY <1>3, <2>1, <3>1
  <2>3. CASE c = d
    <3>1. log'[c] = Append(log[d], ev) /\ gen'[c] = g
      BY <2>3 DEF ReplicasTypeOK
    <3>2. e \in HeldIn(log[d]) \cup {ev}
      BY <1>1, <1>3, <3>1, HeldInAppend
    <3>3. CASE e = ev
      BY <2>3, <3>1, <3>3
    <3>4. CASE e \in HeldIn(log[d])
      <4>1. e.stamp \in Timestamp(Nat)
        BY <1>1, <3>4, EnvelopeType DEF HeldIn
      <4>2. Stamp(gen[d].wall, gen[d].lamport, d) \in Timestamp(Nat)
        BY GenStamp
      <4>3. Stamp(g.wall, g.lamport, d) \in Timestamp(Nat)
        BY <1>2, <2>3, <3>1, ReplicasAssumption DEF Stamp, Timestamp
      <4>4. AtOrBefore(e.stamp, Stamp(gen[d].wall, gen[d].lamport, d))
        BY <2>1, <2>3, <3>4
      <4> QED
        BY <2>3, <3>1, <4>1, <4>2, <4>3, <4>4, StampOrder DEF AtOrBefore
    <3> QED
      BY <3>2, <3>3, <3>4
  <2> QED
    BY <2>2, <2>3
<1> QED
  BY <1>2, <1>3 DEF GenInv, Holds, HeldIn

LEMMA ReplicasInvariant == ReplicasSpec => []ReplicasInv
<1>1. ReplicasInit => ReplicasInv
  <2> SUFFICES ASSUME ReplicasInit PROVE ReplicasInv
    OBVIOUS
  <2>1. ReplicasTypeOK
    BY FS_EmptySet DEF ReplicasInit, ReplicasTypeOK
  <2>2. \A d \in Device : Holds(d) = {}
    BY DEF ReplicasInit, Holds
  <2> QED
    BY <2>1, <2>2 DEF ReplicasInv, GenInv
<1>2. ReplicasInv /\ [ReplicasNext]_replicasVars => ReplicasInv'
  <2> SUFFICES ASSUME ReplicasInv, [ReplicasNext]_replicasVars PROVE ReplicasInv'
    OBVIOUS
  <2>1. ASSUME NEW d \in Device, NEW now \in 0 .. MaxWall, NEW op \in Ops, Write(d, op, now)
        PROVE  ReplicasInv'
    <3>1. PICK ev \in Envelope, g \in [wall : Nat, lamport : Nat] :
              /\ gen' = [gen EXCEPT ![d] = g] /\ log' = [log EXCEPT ![d] = Append(@, ev)]
              /\ events' = events \cup {ev} /\ UNCHANGED <<pushed, restarts>>
              /\ ev.stamp = Stamp(g.wall, g.lamport, d)
              /\ Before(Stamp(gen[d].wall, gen[d].lamport, d), ev.stamp)
      BY <2>1, WriteStamps DEF ReplicasInv
    <3>2. events' \subseteq Envelope /\ IsFiniteSet(events') /\ pushed' \subseteq events'
      BY <3>1, FS_AddElement DEF ReplicasInv, ReplicasTypeOK
    <3> QED
      BY <3>1, <3>2, AdvanceKeepsGen DEF AtOrBefore
  <2>2. ASSUME NEW d \in Device, NEW now \in 0 .. MaxWall, NEW ev \in pushed,
               Absorb(d, ev, now), UNCHANGED <<events, pushed, restarts>>
        PROVE  ReplicasInv'
    <3>1. PICK g \in [wall : Nat, lamport : Nat] :
              /\ gen' = [gen EXCEPT ![d] = g] /\ log' = [log EXCEPT ![d] = Append(@, ev)]
              /\ ev \in Envelope
              /\ Before(Stamp(gen[d].wall, gen[d].lamport, d), Stamp(g.wall, g.lamport, d))
              /\ Before(ev.stamp, Stamp(g.wall, g.lamport, d))
      BY <2>2, AbsorbAdvances DEF ReplicasInv, ReplicasTypeOK
    <3>2. events' \subseteq Envelope /\ IsFiniteSet(events') /\ pushed' \subseteq events'
      BY <2>2 DEF ReplicasInv, ReplicasTypeOK
    <3> QED
      BY <2>2, <3>1, <3>2, AdvanceKeepsGen DEF AtOrBefore
  <2>3. ASSUME NEW d \in Device, Restart(d) PROVE ReplicasInv'
    <3>1. ReplicasTypeOK'
      BY <2>3 DEF Restart, ReplicasInv, ReplicasTypeOK
    <3>2. restarts' # 0
      BY <2>3 DEF Restart, ReplicasInv, ReplicasTypeOK
    <3> QED
      BY <3>1, <3>2 DEF ReplicasInv, GenInv
  <2>4. ASSUME UNCHANGED <<gen, events, log, restarts>>, pushed' \subseteq events
        PROVE  ReplicasInv'
    BY <2>4 DEF ReplicasInv, ReplicasTypeOK, GenInv, Holds
  <2>5. ASSUME NEW d \in Device, NEW now \in 0 .. MaxWall, NEW ev \in pushed,
               Process(d, ev, now)
        PROVE  ReplicasInv'
    BY <2>2, <2>4, <2>5 DEF Process, ReplicasInv, ReplicasTypeOK
  <2>6. ASSUME NEW ev \in events \ pushed, Push(ev) PROVE ReplicasInv'
    BY <2>4, <2>6 DEF Push, ReplicasInv, ReplicasTypeOK
  <2>7. CASE UNCHANGED replicasVars
    BY <2>4, <2>7 DEF replicasVars, ReplicasInv, ReplicasTypeOK
  <2> QED
    BY <2>1, <2>3, <2>5, <2>6, <2>7 DEF ReplicasNext, Pull, Deliver
<1> QED
  BY <1>1, <1>2, PTL DEF ReplicasSpec

(* Devices that hold the same events see the same entity, whatever order   *)
(* and how often they received them, unless two of them share a timestamp. *)
THEOREM ReplicasConverge == ReplicasSpec => []ConvergedUnlessTied
<1>1. ReplicasTypeOK => ConvergedUnlessTied
  <2> SUFFICES ASSUME ReplicasTypeOK, NEW c \in Device, NEW d \in Device,
                      Holds(c) = Holds(d), ~Tied(Holds(c))
               PROVE  Resolve(log[c]) = Resolve(log[d])
    BY DEF ConvergedUnlessTied
  <2>1. log[c] \in Seq(Envelope) /\ log[d] \in Seq(Envelope)
    BY DEF ReplicasTypeOK
  <2>2. Holds(c) = HeldIn(log[c]) /\ Holds(d) = HeldIn(log[d])
    BY DEF Holds, HeldIn
  <2>3. log[c] = <<>> <=> log[d] = <<>>
    <3>1. \A g \in Seq(Envelope) : g = <<>> <=> HeldIn(g) = {}
      BY DEF HeldIn
    <3> QED
      BY <2>1, <2>2, <3>1
  <2>4. CASE log[c] = <<>>
    BY <2>1, <2>3, <2>4, ResolveReturnsWinner
  <2>5. CASE log[c] # <<>>
    <3>1. PICK e : Wins(e, Holds(c)) /\ Resolve(log[c]) = {e}
      BY <2>1, <2>2, <2>5, ResolveReturnsWinner
    <3>2. PICK f : Wins(f, Holds(c)) /\ Resolve(log[d]) = {f}
      BY <2>1, <2>2, <2>3, <2>5, ResolveReturnsWinner
    <3>3. e \in Holds(c) /\ f \in Holds(c)
      BY <3>1, <3>2 DEF Wins
    <3>4. e.stamp \in Timestamp(Nat) /\ f.stamp \in Timestamp(Nat)
      BY <2>1, <2>2, <3>3, EnvelopeType DEF HeldIn
    <3>5. AtOrBefore(e.stamp, f.stamp) /\ AtOrBefore(f.stamp, e.stamp)
      BY <3>1, <3>2 DEF Wins
    <3>6. e.stamp = f.stamp
      BY <3>4, <3>5, StampOrder DEF AtOrBefore
    <3> QED
      BY <3>1, <3>2, <3>3, <3>6 DEF Tied
  <2> QED
    BY <2>4, <2>5
<1> QED
  BY <1>1, ReplicasInvariant, PTL DEF ReplicasInv

(* A delete a device holds is covered only by a strictly newer update.     *)
THEOREM TombstonesHold == ReplicasSpec => []TombstoneHolds
<1>1. ReplicasTypeOK => TombstoneHolds
  <2> SUFFICES ASSUME ReplicasTypeOK, NEW d \in Device, NEW e \in Resolve(log[d]),
                      NEW f \in Holds(d), e.op # "delete", f.op = "delete"
               PROVE  Before(f.stamp, e.stamp)
    BY DEF TombstoneHolds
  <2>1. log[d] \in Seq(Envelope) /\ Holds(d) = HeldIn(log[d])
    BY DEF ReplicasTypeOK, Holds, HeldIn
  <2>2. Wins(e, Holds(d))
    BY <2>1, ResolveReturnsWinner
  <2> QED
    BY <2>2 DEF Wins, AtOrBefore
<1> QED
  BY <1>1, ReplicasInvariant, PTL DEF ReplicasInv

(* Until a restart a device that edits the entity sees its edit.           *)
THEOREM OwnWritesSeen == ReplicasSpec => SeesOwnWrite
<1>1. ReplicasInv /\ [ReplicasNext]_replicasVars =>
        [\A d \in Device :
           (log'[d] # log[d] /\ log'[d][Len(log'[d])].stamp.dev = d)
              => restarts > 0 \/ Resolve(log'[d]) = {log'[d][Len(log'[d])]}]_replicasVars
  <2> SUFFICES ASSUME ReplicasInv, ReplicasNext, NEW d \in Device, log'[d] # log[d],
                      log'[d][Len(log'[d])].stamp.dev = d, ~(restarts > 0)
               PROVE  Resolve(log'[d]) = {log'[d][Len(log'[d])]}
    OBVIOUS
  <2> USE DEF ReplicasInv
  <2>1. restarts = 0 /\ log[d] \in Seq(Envelope)
    BY DEF ReplicasTypeOK
  <2>2. ASSUME NEW c \in Device, NEW now \in 0 .. MaxWall, NEW op \in Ops, Write(c, op, now)
        PROVE  Resolve(log'[d]) = {log'[d][Len(log'[d])]}
    <3>1. PICK ev \in Envelope, g \in [wall : Nat, lamport : Nat] :
              /\ gen' = [gen EXCEPT ![c] = g] /\ log' = [log EXCEPT ![c] = Append(@, ev)]
              /\ ev.stamp = Stamp(g.wall, g.lamport, c)
              /\ Before(Stamp(gen[c].wall, gen[c].lamport, c), ev.stamp)
      BY <2>2, WriteStamps
    <3>2. c = d
      BY <3>1 DEF ReplicasTypeOK
    <3>3. log'[d] = Append(log[d], ev)
      BY <3>1, <3>2 DEF ReplicasTypeOK
    <3>4. /\ log'[d] \in Seq(Envelope) /\ log'[d] # <<>>
          /\ HeldIn(log'[d]) = HeldIn(log[d]) \cup {ev} /\ log'[d][Len(log'[d])] = ev
      BY <2>1, <3>3, HeldInAppend
    <3>5. PICK e : Wins(e, HeldIn(log'[d])) /\ Resolve(log'[d]) = {e}
      BY <3>4, ResolveReturnsWinner
    <3>6. ASSUME e # ev PROVE FALSE
      <4>1. e \in HeldIn(log[d]) /\ AtOrBefore(ev.stamp, e.stamp)
        BY <3>4, <3>5, <3>6 DEF Wins
      <4>2. AtOrBefore(e.stamp, Stamp(gen[d].wall, gen[d].lamport, d))
        BY <2>1, <4>1 DEF GenInv, Holds, HeldIn
      <4>3. /\ e.stamp \in Timestamp(Nat) /\ ev.stamp \in Timestamp(Nat)
            /\ Stamp(gen[d].wall, gen[d].lamport, d) \in Timestamp(Nat)
        BY <2>1, <4>1, EnvelopeType, GenStamp DEF HeldIn, Envelope
      <4>4. Before(e.stamp, ev.stamp)
        BY <3>1, <3>2, <4>2, <4>3, StampOrder DEF AtOrBefore
      <4> QED
        BY <4>1, <4>3, <4>4, StampOrder DEF AtOrBefore
    <3> QED
      BY <3>4, <3>5, <3>6
  <2>3. ASSUME NEW c \in Device, NEW now \in 0 .. MaxWall, NEW ev \in pushed,
               ev.stamp.dev # c, Process(c, ev, now)
        PROVE  FALSE
    <3>1. /\ log' = [log EXCEPT ![c] = Append(@, ev)]
          /\ ev \in Envelope /\ ev.stamp.dev # c
      BY <2>3 DEF Process, Absorb, ReplicasTypeOK
    <3>2. c = d
      BY <3>1 DEF ReplicasTypeOK
    <3>3. log'[d] = Append(log[d], ev)
      BY <3>1, <3>2 DEF ReplicasTypeOK
    <3>4. log'[d][Len(log'[d])] = ev
      BY <2>1, <3>1, <3>3, HeldInAppend
    <3> QED
      BY <3>1, <3>2, <3>4
  <2>4. ASSUME NEW c \in Device, Restart(c) PROVE FALSE
    BY <2>4 DEF Restart
  <2>5. ASSUME NEW ev \in events, Push(ev) PROVE FALSE
    BY <2>5 DEF Push
  <2> QED
    BY <2>2, <2>3, <2>4, <2>5 DEF ReplicasNext, Pull, Deliver, Page
<1> QED
  BY <1>1, ReplicasInvariant, PTL DEF ReplicasSpec, SeesOwnWrite
=============================================================================
