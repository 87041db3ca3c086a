------------------------------- MODULE Router -------------------------------
(***************************************************************************)
(* Router::route (core/src/bridge/router): filter, score, pick, as pure    *)
(* operators over a prompt request q and a bridge context c.  A route is   *)
(* its kind; which model or provider it names plays no part in the choice. *)
(* Costs are in thousandths of a dollar and tokens in thousands, so the    *)
(* pseudo-rates of helpers.rs are 1 and 15.                                *)
(***************************************************************************)
EXTENDS Integers

Kinds == {"Local", "ServerMux", "DirectFrontier"}
Decisions == Kinds \cup {"Queue"}

Request(Tokens) ==
    [tokens : Tokens,
     class : {"Chat", "Summarize", "Code", "Embed"},
     privacy : {"LocalOnly", "Default", "AllowFrontier"}]

Context(Amounts) ==
    [weakTier : BOOLEAN,       \* local_tier is T0 or T1
     connection : {"Online", "Degraded", "Offline"},
     endpoint : BOOLEAN,       \* server_mux_endpoint is configured
     providers : BOOLEAN,      \* some frontier provider is available
     costBudget : Amounts,     \* cost_budget_usd
     preferLocal : BOOLEAN,
     maxCost : Amounts,        \* max_cost_per_prompt_usd
     override : {"None", "ForceLocal", "ForceServerMux", "ForceFrontier"}]

EstimateCost(route, q) ==
    CASE route = "ServerMux" -> q.tokens
      [] route = "DirectFrontier" -> 15 * q.tokens
      [] OTHER -> 0

EstimateLatency(route) ==
    CASE route = "Local" -> 200
      [] route = "ServerMux" -> 600
      [] route = "DirectFrontier" -> 900

ApplyOverride(c) ==
    CASE c.override = "ForceLocal" -> "Local"
      [] c.override = "ForceServerMux" ->
            IF c.endpoint THEN "ServerMux" ELSE "Queue"
      [] c.override = "ForceFrontier" -> "DirectFrontier"

(* mutated (slips the code could well contain; nothing uses them):        *)
(* privacy is left to the score                                            *)
EligibleRoutesAnyPrivacy(q, c) ==
    {"Local"}
    \cup {r \in {"ServerMux"} : c.endpoint /\ c.connection # "Offline"}
    \cup {r \in {"DirectFrontier"} :
            /\ c.connection = "Online" /\ c.providers
            /\ EstimateCost(r, q) <= c.maxCost}

EligibleRoutes(q, c) ==
    {"Local"}
    \cup {r \in {"ServerMux"} :
            c.endpoint /\ c.connection # "Offline" /\ q.privacy # "LocalOnly"}
    \cup {r \in {"DirectFrontier"} :
            /\ c.connection = "Online" /\ c.providers
            /\ q.privacy # "LocalOnly"
            /\ EstimateCost(r, q) <= c.maxCost}

Points(n, condition) == IF condition THEN n ELSE 0

(* No sum of these can fall below 0, so s.max(0) changes nothing. *)
Score(route, q, c) ==
    CASE route = "Local" ->
            50 + Points(20, c.preferLocal) + Points(10, q.class = "Embed")
               - Points(30, c.weakTier /\ q.class = "Code")
      [] route = "ServerMux" ->
            60 + Points(10, c.connection = "Online")
               - Points(10, c.costBudget > 0
                            /\ 10 * EstimateCost(route, q) > 7 * c.costBudget)
      [] route = "DirectFrontier" ->
            40 + Points(20, q.class = "Code")
               - Points(20, q.privacy = "Default")
               + Points(20, q.privacy = "AllowFrontier")

(* Highest score; ties by cost, then by latency, lowest first. *)
Preferred(a, b, q, c) ==
    \/ Score(a, q, c) > Score(b, q, c)
    \/ /\ Score(a, q, c) = Score(b, q, c)
       /\ \/ EstimateCost(a, q) < EstimateCost(b, q)
          \/ /\ EstimateCost(a, q) = EstimateCost(b, q)
             /\ EstimateLatency(a) < EstimateLatency(b)

Pick(candidates, q, c) ==
    CHOOSE a \in candidates :
        \A b \in candidates \ {a} : Preferred(a, b, q, c)

Route(q, c) ==
    IF c.override # "None" THEN ApplyOverride(c)
    ELSE Pick(EligibleRoutes(q, c), q, c)
=============================================================================
