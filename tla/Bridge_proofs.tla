---------------------------- MODULE Bridge_proofs ----------------------------
(***************************************************************************)
(* Proofs about the prompt bridge: the router's choice and the             *)
(* orchestrator's dispatch, for any prompts and contexts, and the budget   *)
(* enforcer, for any number of concurrent prompts, any budgets and any     *)
(* interleaving of records and resets.                                     *)
(***************************************************************************)
EXTENDS Bridge, Budget, SequenceTheorems, FiniteSetTheorems, TLAPS

-----------------------------------------------------------------------------
(* The router.                                                             *)

(* A score lies between 20 and 80: the code's s.max(0) never changes one.  *)
LEMMA ScoreIsPositive ==
    ASSUME NEW q \in Request(Nat), NEW c \in Context(Nat), NEW r \in Kinds
    PROVE  Score(r, q, c) \in 20 .. 80
<1>1. CASE r = "Local"
  BY <1>1 DEF Score, Points
<1>2. CASE r = "ServerMux"
  BY <1>2 DEF Score, Points
<1>3. CASE r = "DirectFrontier"
  BY <1>3 DEF Score, Points, Request
<1> QED
  BY <1>1, <1>2, <1>3 DEF Kinds

(* No two routes have the same latency, so no tie is left undecided. *)
LEMMA LatenciesDiffer ==
    ASSUME NEW a \in Kinds, NEW b \in Kinds
    PROVE  /\ EstimateLatency(a) \in Nat
           /\ EstimateLatency(a) = EstimateLatency(b) => a = b
BY DEF EstimateLatency, Kinds

(* Costs are amounts. *)
LEMMA CostIsNat ==
    ASSUME NEW q \in Request(Nat), NEW r \in Kinds
    PROVE  EstimateCost(r, q) \in Nat
BY DEF EstimateCost, Kinds, Request

(* Preferred is a strict total order on the routes. *)
LEMMA PreferredIsOrder ==
    ASSUME NEW q \in Request(Nat), NEW c \in Context(Nat)
    PROVE  /\ \A a, b \in Kinds :
                a # b => Preferred(a, b, q, c) \/ Preferred(b, a, q, c)
           /\ \A a, b \in Kinds : ~(Preferred(a, b, q, c) /\ Preferred(b, a, q, c))
           /\ \A a, b, d \in Kinds :
                Preferred(a, b, q, c) /\ Preferred(b, d, q, c)
                    => Preferred(a, d, q, c)
<1>1. \A r \in Kinds : /\ Score(r, q, c) \in Nat
                       /\ EstimateCost(r, q) \in Nat
                       /\ EstimateLatency(r) \in Nat
  BY ScoreIsPositive, CostIsNat, LatenciesDiffer
<1>2. \A a, b \in Kinds : a # b => EstimateLatency(a) # EstimateLatency(b)
  BY LatenciesDiffer
<1> QED
  BY <1>1, <1>2 DEF Preferred

(* Whatever candidates with the local model among them: Pick returns one   *)
(* of them, it is preferred to every other, and no other candidate is; so  *)
(* the order the code's sort meets them in plays no part.                  *)
THEOREM PickIsBest ==
    ASSUME NEW q \in Request(Nat), NEW c \in Context(Nat),
           NEW S \in SUBSET Kinds, "Local" \in S
    PROVE  /\ Pick(S, q, c) \in S
           /\ \A b \in S \ {Pick(S, q, c)} : Preferred(Pick(S, q, c), b, q, c)
           /\ \A a \in S : (\A b \in S \ {a} : Preferred(a, b, q, c))
                              => a = Pick(S, q, c)
<1> DEFINE Best(a) == \A b \in S \ {a} : Preferred(a, b, q, c)
<1>1. \E a \in S : Best(a)
  <2> SUFFICES ASSUME \A a \in S : ~Best(a) PROVE FALSE
    OBVIOUS
  <2> DEFINE P(a, b) == Preferred(a, b, q, c)
  <2>1. \A a, b \in S : a # b => P(a, b) \/ P(b, a)
    BY PreferredIsOrder
  <2>2. \A a, b, d \in S : P(a, b) /\ P(b, d) => P(a, d)
    BY PreferredIsOrder
  <2>3. \A a, b \in S : ~(P(a, b) /\ P(b, a))
    BY PreferredIsOrder
  <2>4. \A a \in S : \E b \in S : b # a /\ P(b, a)
    BY <2>1
  <2>5. \A a \in S : a = "Local" \/ a = "ServerMux" \/ a = "DirectFrontier"
    BY DEF Kinds
  <2> HIDE DEF P
  <2>6. PICK b \in S : b # "Local" /\ P(b, "Local")
    BY <2>4
  <2>7. PICK d \in S : d # b /\ P(d, b)
    BY <2>4
  <2>8. d # "Local" /\ P(d, "Local")
    BY <2>2, <2>3, <2>6, <2>7
  <2>9. PICK e \in S : e # d /\ P(e, d)
    BY <2>4
  <2>10. e = "Local" \/ e = b
    BY <2>5, <2>6, <2>7, <2>8, <2>9
  <2> QED
    BY <2>3, <2>7, <2>8, <2>9, <2>10
<1>2. Pick(S, q, c) \in S /\ Best(Pick(S, q, c))
  BY <1>1 DEF Pick
<1>3. \A a \in S : Best(a) => a = Pick(S, q, c)
  BY <1>2, PreferredIsOrder
<1> QED
  BY <1>2, <1>3

(* Without an override the route is one of the eligible ones, and never    *)
(* the queue.                                                              *)
LEMMA RouteIsEligible ==
    ASSUME NEW q \in Request(Nat), NEW c \in Context(Nat), c.override = "None"
    PROVE  Route(q, c) \in EligibleRoutes(q, c) /\ Route(q, c) \in Kinds
<1>1. EligibleRoutes(q, c) \in SUBSET Kinds /\ "Local" \in EligibleRoutes(q, c)
  BY DEF EligibleRoutes, Kinds
<1>2. Pick(EligibleRoutes(q, c), q, c) \in EligibleRoutes(q, c)
  BY <1>1, PickIsBest
<1> QED
  BY <1>1, <1>2 DEF Route

(* Any route is a decision. *)
LEMMA RouteType ==
    ASSUME NEW q \in Request(Nat), NEW c \in Context(Nat)
    PROVE  Route(q, c) \in Decisions
<1>1. CASE c.override = "None"
  BY <1>1, RouteIsEligible DEF Decisions
<1>2. CASE c.override # "None"
  BY <1>2 DEF Route, ApplyOverride, Decisions, Kinds, Context
<1> QED
  BY <1>1, <1>2

-----------------------------------------------------------------------------
(* The orchestrator.                                                       *)

BridgeTypeOK ==
    /\ request \in Requests /\ context \in Contexts
    /\ transports \in SUBSET {"ServerMux", "DirectFrontier"}
    /\ decision \in Decisions
    /\ pc \in {"route", "dispatch", "fallback", "done"}
    /\ ran \in Seq(Kinds)
    /\ result \in {"Pending", "Ok", "Err"}

(* The decision stands for the whole prompt. *)
DecidedOnce == pc # "route" => decision = Route(request, context)

(* What was given the prompt, and how it went, by where the prompt is.     *)
RanFits ==
    /\ pc # "done" => result = "Pending"
    /\ pc \in {"route", "dispatch"} => ran = <<>>
    /\ pc = "fallback" =>
          /\ decision \in Kinds \ {"Local"}
          /\ ran = <<>> \/ ran = <<decision>>
    /\ pc = "done" =>
          \/ ran = <<>> /\ decision = "Queue"
          \/ ran = <<decision>> /\ decision \in Kinds
                /\ (result = "Ok" \/ decision = "Local")
          \/ (ran = <<"Local">> \/ ran = <<decision, "Local">>)
                /\ decision \in Kinds \ {"Local"}

BridgeInv == BridgeTypeOK /\ DecidedOnce /\ RanFits

(* Types, the single decision and the shape of what ran are preserved by   *)
(* every step of the orchestrator.                                         *)
LEMMA BridgeInvariant == Spec => []BridgeInv
<1> USE BridgeAssumption
<1>1. Init => BridgeInv
  <2> SUFFICES ASSUME Init PROVE BridgeInv
    OBVIOUS
  <2>1. <<>> \in Seq(Kinds)
    BY EmptySeq
  <2> QED
    BY <2>1 DEF Init, BridgeInv, BridgeTypeOK, DecidedOnce, RanFits, Decisions
<1>2. BridgeInv /\ [Next]_vars => BridgeInv'
  <2> SUFFICES ASSUME BridgeInv, [Next]_vars PROVE BridgeInv'
    OBVIOUS
  <2>0. "Local" \in Kinds /\ Decisions = Kinds \cup {"Queue"} /\ "Queue" \notin Kinds
    BY DEF Kinds, Decisions
  <2>1. CASE RoutePrompt
    <3>1. Route(request, context) \in Decisions
      BY RouteType DEF BridgeInv, BridgeTypeOK
    <3> QED
      BY <2>1, <3>1 DEF RoutePrompt, BridgeInv, BridgeTypeOK, DecidedOnce, RanFits
  <2>2. CASE DispatchNowhere
    <3>1. BridgeTypeOK' /\ DecidedOnce'
      BY <2>2 DEF DispatchNowhere, AfterFailure, BridgeInv, BridgeTypeOK, DecidedOnce
    <3>2. RanFits'
      BY <2>0, <2>2 DEF DispatchNowhere, AfterFailure, BridgeInv, BridgeTypeOK, RanFits
    <3> QED
      BY <3>1, <3>2 DEF BridgeInv
  <2>3. CASE Dispatch
    <3>1. ran = <<>> /\ decision \in Kinds
      BY <2>0, <2>3 DEF Dispatch, BridgeInv, BridgeTypeOK, RanFits
    <3>2. Append(ran, decision) = <<decision>> /\ <<decision>> \in Seq(Kinds)
      BY <3>1
    <3>3. ran' = <<decision>> /\ UNCHANGED <<request, context, transports, decision>>
      BY <2>3, <3>2 DEF Dispatch
    <3>4. \/ pc' = "done" /\ result' \in {"Ok", "Err"}
                /\ (result' = "Ok" \/ decision = "Local")
          \/ pc' = "fallback" /\ result' = result /\ decision # "Local"
      BY <2>0, <2>3, <3>1 DEF Dispatch, AfterFailure
    <3>5. BridgeTypeOK' /\ DecidedOnce'
      BY <2>3, <3>2, <3>3, <3>4 DEF Dispatch, BridgeInv, BridgeTypeOK, DecidedOnce
    <3>6. RanFits'
      BY <2>0, <2>3, <3>1, <3>3, <3>4 DEF Dispatch, BridgeInv, RanFits
    <3> QED
      BY <3>5, <3>6 DEF BridgeInv
  <2>4. CASE Fallback
    <3>1. decision \in Kinds \ {"Local"} /\ (ran = <<>> \/ ran = <<decision>>)
      BY <2>4 DEF Fallback, BridgeInv, RanFits
    <3>2. Append(<<decision>>, "Local") = <<decision, "Local">>
      <4> DEFINE s == <<decision, "Local">>
      <4>1. s \in Seq({decision, "Local"}) /\ <<decision>> \in Seq({decision, "Local"})
        OBVIOUS
      <4>2. Len(s) = 2 /\ s[1] = decision /\ s[2] = "Local"
        OBVIOUS
      <4> HIDE DEF s
      <4>3. Append(<<decision>>, "Local") = s
        BY <4>1, <4>2
      <4> QED
        BY <4>3 DEF s
    <3>3. /\ ran' = <<"Local">> \/ ran' = <<decision, "Local">>
          /\ ran' \in Seq(Kinds)
      <4>1. ran' = Append(ran, "Local") /\ ran \in Seq(Kinds)
        BY <2>4 DEF Fallback, BridgeInv, BridgeTypeOK
      <4>2. CASE ran = <<>>
        BY <2>0, <4>1, <4>2
      <4>3. CASE ran = <<decision>>
        BY <2>0, <3>2, <4>1, <4>3
      <4> QED
        BY <3>1, <4>2, <4>3
    <3>4. BridgeTypeOK' /\ DecidedOnce'
      BY <2>4, <3>3 DEF Fallback, BridgeInv, BridgeTypeOK, DecidedOnce
    <3>5. RanFits'
      BY <2>4, <3>1, <3>3 DEF Fallback, RanFits
    <3> QED
      BY <3>4, <3>5 DEF BridgeInv
  <2>5. CASE UNCHANGED vars
    BY <2>5 DEF vars, BridgeInv, BridgeTypeOK, DecidedOnce, RanFits
  <2> QED
    BY <2>1, <2>2, <2>3, <2>4, <2>5 DEF Next
<1> QED
  BY <1>1, <1>2, PTL DEF Spec

(* A cloud transport that was given the prompt is the decided route. *)
LEMMA CloudIsDecided ==
    ASSUME BridgeInv
    PROVE  Cloud \subseteq {decision} \cap Kinds /\ (Cloud # {} => pc # "route")
<1>1. \A k \in 1 .. Len(ran) : ran[k] = decision \/ ran[k] = "Local"
  BY DEF BridgeInv, BridgeTypeOK, RanFits
<1>2. \A k \in 1 .. Len(ran) : ran[k] \in Kinds
  BY DEF BridgeInv, BridgeTypeOK
<1>3. ran = <<>> => Cloud = {}
  BY DEF Cloud
<1> QED
  BY <1>1, <1>2, <1>3 DEF Cloud, BridgeInv, RanFits

(* Without an override no prompt leaves the device against its privacy,    *)
(* the connection or the cost cap, the failover included: for every prompt *)
(* and context, not only the sizes and amounts of the run.                 *)
THEOREM CloudOnlyAsAllowed == Spec => []CloudOnlyIfAllowed
<1>1. BridgeInv => CloudOnlyIfAllowed
  <2> SUFFICES ASSUME BridgeInv, context.override = "None", Cloud # {}
               PROVE  /\ request.privacy # "LocalOnly"
                      /\ context.connection # "Offline"
                      /\ "DirectFrontier" \in Cloud =>
                            /\ context.connection = "Online" /\ context.providers
                            /\ 15 * request.tokens <= context.maxCost
    BY DEF CloudOnlyIfAllowed
  <2>1. request \in Request(Nat) /\ context \in Context(Nat)
    BY BridgeAssumption DEF BridgeInv, BridgeTypeOK
  <2>2. decision = Route(request, context) /\ Cloud = {decision} /\ decision # "Local"
    <3>1. \E r \in Cloud : r = decision /\ r # "Local"
      BY CloudIsDecided DEF Cloud
    <3> QED
      BY <3>1, CloudIsDecided DEF BridgeInv, DecidedOnce
  <2>3. decision \in EligibleRoutes(request, context) \ {"Local"}
    BY <2>1, <2>2, RouteIsEligible
  <2>4. decision = "DirectFrontier" =>
          EstimateCost(decision, request) = 15 * request.tokens
    BY DEF EstimateCost
  <2> QED
    BY <2>2, <2>3, <2>4 DEF EligibleRoutes
<1> QED
  BY <1>1, BridgeInvariant, PTL

(* A prompt that failed was tried on the local model last, unless nothing  *)
(* was tried at all, and no transport is ever given it twice.              *)
THEOREM LocalIsAlwaysLast == Spec => []LocalIsLastResort
<1>1. BridgeInv => LocalIsLastResort
  <2> SUFFICES ASSUME BridgeInv PROVE LocalIsLastResort
    OBVIOUS
  <2>1. \/ ran = <<>>
        \/ ran = <<decision>>
        \/ ran = <<"Local">>
        \/ ran = <<decision, "Local">> /\ decision # "Local"
    BY DEF BridgeInv, BridgeTypeOK, RanFits
  <2>2. \A j, k \in 1 .. Len(ran) : ran[j] = ran[k] => j = k
    BY <2>1
  <2>3. result = "Err" /\ decision # "Queue" =>
          ran # <<>> /\ ran[Len(ran)] = "Local"
    BY DEF BridgeInv, RanFits, BridgeTypeOK
  <2> QED
    BY <2>2, <2>3 DEF LocalIsLastResort
<1> QED
  BY <1>1, BridgeInvariant, PTL

-----------------------------------------------------------------------------
(* The budget enforcer.                                                    *)

(* Every reachable state has its types. *)
THEOREM BudgetTypeCorrect == BudgetSpec => []BudgetTypeOK
<1> USE BudgetAssumption
<1>1. BudgetInit => BudgetTypeOK
  <2> SUFFICES ASSUME BudgetInit PROVE BudgetTypeOK
    OBVIOUS
  <2>1. phase \in [Caller -> {"idle", "running", "recording"}]
    BY DEF BudgetInit
  <2>2. owed \in [Caller -> 0 .. MaxCost]
    BY DEF BudgetInit
  <2> QED
    BY <2>1, <2>2 DEF BudgetInit, BudgetTypeOK
<1>2. BudgetTypeOK /\ [BudgetNext]_budgetVars => BudgetTypeOK'
  <2> SUFFICES ASSUME BudgetTypeOK, [BudgetNext]_budgetVars PROVE BudgetTypeOK'
    OBVIOUS
  <2> USE DEF BudgetTypeOK
  <2>1. ASSUME NEW c \in Caller, Check(c) PROVE BudgetTypeOK'
    BY <2>1 DEF Check
  <2>2. ASSUME NEW c \in Caller, NEW ms \in 0 .. MaxLatency,
               NEW cost \in 0 .. MaxCost, RecordLatency(c, ms, cost)
        PROVE  BudgetTypeOK'
    BY <2>2 DEF RecordLatency
  <2>3. ASSUME NEW c \in Caller, RecordCost(c) PROVE BudgetTypeOK'
    BY <2>3 DEF RecordCost
  <2>4. CASE ResetLatency
    BY <2>4 DEF ResetLatency
  <2>5. CASE ResetCost
    BY <2>5 DEF ResetCost
  <2>6. CASE UNCHANGED budgetVars
    BY <2>6 DEF budgetVars
  <2> QED
    BY <2>1, <2>2, <2>3, <2>4, <2>5, <2>6 DEF BudgetNext
<1> QED
  BY <1>1, <1>2, PTL DEF BudgetSpec

(* Of the callers, at most all are busy, and each adds at most MaxCost. *)
LEMMA BusyIsFinite ==
    /\ IsFiniteSet(Busy) /\ Cardinality(Busy) \in Nat
    /\ Cardinality(Caller) \in Nat
    /\ Cardinality(Busy) <= Cardinality(Caller)
BY BudgetAssumption, FS_Subset, FS_CardinalityType DEF Busy

(* Multiplying by a cost is monotonic in the number of callers.            *)
LEMMA MoreBusyMoreCost ==
    ASSUME NEW j \in Nat, NEW k \in Nat, NEW m \in Nat, j <= k
    PROVE  j * m \in Nat /\ k * m \in Nat /\ j * m <= k * m
<1>1. k * m = j * m + (k - j) * m
  OBVIOUS
<1>2. (k - j) * m >= 0
  OBVIOUS
<1> QED
  BY <1>1, <1>2

(* One caller more is one cost more.                                       *)
LEMMA OneMoreCost ==
    ASSUME NEW k \in Nat, NEW m \in Nat
    PROVE  (k + 1) * m = k * m + m /\ k * m \in Nat
OBVIOUS

(* Concurrent prompts overshoot the cost budget by at most one prompt per  *)
(* caller, whatever is recorded and reset in between.                      *)
THEOREM OvershootIsBounded == BudgetSpec => []OvershootBounded
<1> USE BudgetAssumption
<1> DEFINE n == Cardinality(Caller)
           b == Cardinality(Busy)
<1>1. BudgetTypeOK /\ BudgetInit => OvershootBounded
  <2> SUFFICES ASSUME BudgetInit PROVE OvershootBounded
    OBVIOUS
  <2>1. spentCost = 0 /\ CostBudget \in Nat /\ MaxCost \in Nat
    BY DEF BudgetInit
  <2>2. b \in Nat /\ n \in Nat /\ b <= n
    BY BusyIsFinite
  <2> HIDE DEF b, n
  <2>3. b * MaxCost <= n * MaxCost /\ b * MaxCost \in Nat /\ n * MaxCost \in Nat
    BY <2>1, <2>2, MoreBusyMoreCost
  <2>4. spentCost + b * MaxCost <= CostBudget + n * MaxCost
    BY <2>1, <2>3
  <2> QED
    BY <2>4 DEF OvershootBounded, b, n
<1>2. BudgetTypeOK /\ BudgetTypeOK' /\ OvershootBounded
        /\ [BudgetNext]_budgetVars => OvershootBounded'
  <2> SUFFICES ASSUME BudgetTypeOK, BudgetTypeOK', OvershootBounded,
                      [BudgetNext]_budgetVars
               PROVE  OvershootBounded'
    OBVIOUS
  <2>0. /\ b \in Nat /\ n \in Nat /\ b <= n /\ IsFiniteSet(Busy)
        /\ CostBudget \in Nat /\ MaxCost \in Nat /\ spentCost \in Nat
        /\ spentCost' \in Nat
    BY BusyIsFinite DEF BudgetTypeOK
  <2>1. b' \in Nat /\ b' <= n
    <3>1. Busy' \subseteq Caller
      BY DEF Busy
    <3> QED
      BY <3>1, FS_Subset, FS_CardinalityType
  <2>2. spentCost + b * MaxCost <= CostBudget + n * MaxCost
    BY DEF OvershootBounded
  <2>3. ASSUME NEW c \in Caller, Check(c) PROVE OvershootBounded'
    <3>1. spentCost' = spentCost /\ spentCost < CostBudget
      BY <2>3 DEF Check, WithinBudget
    <3> HIDE DEF b, n
    <3>2. b' * MaxCost <= n * MaxCost /\ b' * MaxCost \in Nat /\ n * MaxCost \in Nat
      BY <2>0, <2>1, MoreBusyMoreCost
    <3>3. spentCost' + b' * MaxCost <= CostBudget + n * MaxCost
      BY <2>0, <3>1, <3>2
    <3> QED
      BY <3>3 DEF OvershootBounded, b, n
  <2>4. ASSUME NEW c \in Caller, RecordCost(c) PROVE OvershootBounded'
    <3>1. c \in Busy /\ Busy' = Busy \ {c}
      BY <2>4 DEF RecordCost, Busy, BudgetTypeOK
    <3>2. b' = b - 1 /\ b - 1 \in Nat
      <4>1. IsFiniteSet(Busy \ {c}) /\ Cardinality(Busy \ {c}) = b - 1
        BY <2>0, <3>1, FS_RemoveElement
      <4> QED
        BY <4>1, <3>1, FS_CardinalityType
    <3>3. spentCost' = spentCost + owed[c] /\ owed[c] \in 0 .. MaxCost
      BY <2>4 DEF RecordCost, BudgetTypeOK
    <3> HIDE DEF b, n
    <3>4. b * MaxCost = b' * MaxCost + MaxCost /\ b' * MaxCost \in Nat
      <4>1. b = b' + 1 /\ b' \in Nat
        BY <3>2, <2>0
      <4> QED
        BY <4>1, <2>0, OneMoreCost
    <3>5. n * MaxCost \in Nat
      BY <2>0, OneMoreCost
    <3>6. spentCost' + b' * MaxCost <= CostBudget + n * MaxCost
      BY <2>0, <2>2, <3>3, <3>4, <3>5
    <3> QED
      BY <3>6 DEF OvershootBounded, b, n
  <2>5. ASSUME NEW c \in Caller, NEW ms \in 0 .. MaxLatency,
               NEW cost \in 0 .. MaxCost, RecordLatency(c, ms, cost)
        PROVE  OvershootBounded'
    <3>1. Busy' = Busy /\ spentCost' = spentCost
      BY <2>5 DEF RecordLatency, Busy, BudgetTypeOK
    <3> QED
      BY <3>1 DEF OvershootBounded
  <2>6. CASE ResetCost
    <3>1. Busy' = Busy /\ spentCost' = 0
      BY <2>6 DEF ResetCost, Busy
    <3> HIDE DEF b, n
    <3>2. b * MaxCost <= n * MaxCost /\ b * MaxCost \in Nat /\ n * MaxCost \in Nat
      BY <2>0, MoreBusyMoreCost
    <3>3. 0 + b * MaxCost <= CostBudget + n * MaxCost
      BY <2>0, <3>2
    <3> QED
      BY <3>1, <3>3 DEF OvershootBounded, b, n
  <2>7. CASE UNCHANGED <<spentCost, phase>>
    BY <2>7 DEF OvershootBounded, Busy
  <2> QED
    BY <2>3, <2>4, <2>5, <2>6, <2>7 DEF BudgetNext, budgetVars, ResetLatency
<1> QED
  BY <1>1, <1>2, BudgetTypeCorrect, PTL DEF BudgetSpec
=============================================================================
