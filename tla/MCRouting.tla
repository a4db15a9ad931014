------------------------------ MODULE MCRouting ------------------------------
(***************************************************************************)
(* A small instance of Routing: a subscription command that reaches two    *)
(* pools and has three models, the strict command without a model, a local *)
(* runtime without one, and a metered API.                                 *)
(***************************************************************************)
EXTENDS Routing

CONSTANTS claude, local, opencode, api, mA, mA2, mB, mApi, poolA, poolB

AllTools == {claude, local, opencode, api}
NameOrder == <<api, claude, local, opencode>>
RegistryOrder == <<claude, opencode, local, api>>
DetectedModels == [t \in AllTools |->
    CASE t = opencode -> <<mA, mA2, mB>> [] t = api -> <<mApi>> [] OTHER -> <<>>]
CostRanks == [t \in AllTools |-> CASE t = local -> 0 [] t = api -> 2 [] OTHER -> 1]
Breadth == [t \in AllTools |-> CASE t = local -> 1 [] t = api -> 3 [] OTHER -> 2]
PoolNames == <<NoPool, poolA, poolB>>
ModelPool == [m \in {mA, mA2, mB, mApi, NoModel} |->
    CASE m \in {mA, mA2} -> poolA [] m = mB -> poolB [] OTHER -> NoPool]

\* One request of pool A, seven tokens of both its pools, two requests of the API.
OwnCaps == [k \in AllTools \X {NoPool, poolA, poolB} \X {"tokens", "requests"} |->
    IF k = <<opencode, poolA, "requests">> THEN 1 ELSE NoCap]
SharedCaps == [k \in AllTools \X {"tokens", "requests"} |->
    CASE k = <<opencode, "tokens">> -> 7 [] k = <<api, "requests">> -> 2 [] OTHER -> NoCap]

Ask == [target |-> NoTool, model |-> NoModel, able |-> AllTools, prefer |-> "cost", failover |-> TRUE, call |-> FALSE]

\* Two unpinned requests of a capability, by cost and by quality, two of the
\* command without failover, one of a model of it, and one of the local runtime
\* in the mode cli, which the router cannot rank: the open order follows it.
MixedRequests ==
    {[Ask EXCEPT !.able = {claude, api}],
     [Ask EXCEPT !.prefer = "quality", !.able = {opencode, api}],
     [Ask EXCEPT !.target = opencode, !.failover = FALSE],
     [Ask EXCEPT !.target = opencode, !.failover = FALSE, !.call = TRUE],
     [Ask EXCEPT !.target = opencode, !.model = mA2, !.call = TRUE],
     [Ask EXCEPT !.target = local, !.able = {claude, local, opencode}, !.call = TRUE]}

=============================================================================
