----------------------------- MODULE MCGateway -----------------------------
(* Admission, the two routers and the stack gateway's protocol: a behaviour  *)
(* is one of one of them, with the others' variables left as they start.     *)
EXTENDS Admission, ProfileRouter, StackRouter, StackGateway

CONSTANT Parts      \* the parts a run explores

VARIABLE part

\* An interactive lane above two others; bulk never waits and one client names a lane
\* that is not configured.
MCLanes == {"interactive", "batch", "bulk"}
MCLanesOf == ("r1" :> {"interactive"}) @@ ("r2" :> {"batch"}) @@ ("r3" :> {"unknown", "bulk"})
MCRequests == DOMAIN MCLanesOf
MCPriority == [l \in MCLanes |-> IF l = "interactive" THEN 2 ELSE 1]
MCWeight == [l \in MCLanes |-> IF l = "batch" THEN 2 ELSE 1]
MCMaxWait == [l \in MCLanes |-> IF l = "bulk" THEN 0 ELSE 1]
MCPolicies == <<"acl", "lane", "rate">>

MCSessionOf == [c \in Calls |-> "k"]
\* Two providers of one profile, one of another and one without a model.
Provider(id, address, model, profile) == [id |-> id, baseUrl |-> address, model |-> model, profile |-> profile]
MCEnvironment ==
    [json |-> << >>,
     groups |-> <<Provider("ra", "u1", "m1", "m"), Provider("rc", "u2", "m2", ""), Provider("rd", "u3", "", "m"),
                  Provider("rb", "u4", "m4", "m")>>]
MCLogicalSession == [s \in Streams |-> "k"]
MCAccounts == <<"a", "b">>
MCFallbacks == <<"f", "g">>
MCFallbackOn == [f |-> {"quota"}, g |-> {"auth"}]

\* A conversation of up to three requests: streamed and not, stored and not, of two
\* tenants, with every kind of input item and of answer between them.
ResponsesShape(stream, store, tenant, input, extras, kinds, reasons) ==
    [path |-> "responses", stream |-> stream, store |-> store, tenant |-> tenant, input |-> input,
     instructions |-> extras, tools |-> extras, kinds |-> kinds, reasons |-> reasons]
ChatShape == [ResponsesShape(TRUE, FALSE, "t", <<"system", "user", "tool">>, FALSE, {"text", "toolCall"}, {"stop"})
              EXCEPT !.path = "chat", !.tools = TRUE]
OtherShape == [ResponsesShape(FALSE, FALSE, "t", <<>>, FALSE, {}, {"stop"}) EXCEPT !.path = "unsupported"]
MCShapes ==
    [a1 |-> {ResponsesShape(TRUE, TRUE, "t", <<"developer", "user">>, TRUE, {"text", "thinking"}, {"stop", "length"})},
     a2 |-> {ResponsesShape(TRUE, TRUE, "t", <<"function_call", "function_call_output">>, FALSE, {"toolCall"}, {"toolUse"}),
             ResponsesShape(FALSE, FALSE, "u", <<"reasoning", "user">>, FALSE, {"text"}, {"stop"}),
             ChatShape},
     a3 |-> {ResponsesShape(FALSE, TRUE, "t", <<"message", "user">>, FALSE, {}, {"stop"}), OtherShape}]

partVars == <<admissionVars, routerVars, stackVars, gatewayVars, part>>

PartInit ==
    /\ part \in Parts
    /\ AdmissionInit /\ RouterInit /\ StackInit /\ GatewayInit
    /\ part # "stack" => strategy = "ordered"

PartNext ==
    /\ UNCHANGED part
    /\ \/ part = "admission" /\ AdmissionNext /\ UNCHANGED <<routerVars, stackVars, gatewayVars>>
       \/ part = "profile" /\ RouterNext /\ UNCHANGED <<admissionVars, stackVars, gatewayVars>>
       \/ part = "stack" /\ StackNext /\ UNCHANGED <<admissionVars, routerVars, gatewayVars>>
       \/ part = "protocol" /\ GatewayNext /\ UNCHANGED <<admissionVars, routerVars, stackVars>>

PartSpec == PartInit /\ [][PartNext]_partVars
FairPartSpec == PartSpec /\ AdmissionFairness

=============================================================================
