--------------------------- MODULE MainnetProver ---------------------------
(***************************************************************************)
(* The proving endpoint of the development proxy and of the deployed       *)
(* functions (server/proxy.ts): one of two relays behind it, with one      *)
(* store, as the deployment has chosen.                                    *)
(***************************************************************************)
EXTENDS ProverRelay, StarkwareRelay

VARIABLE provider \* PROVER_PROVIDER

endpoint == <<vars, starkware, provider>>

EndpointInit ==
  /\ Init
  /\ StarkwareInit
  /\ provider \in {"starkscan", "starkware"}

ByStarkscan(A) == provider = "starkscan" /\ A /\ UNCHANGED <<starkware, provider>>
ByStarkware(A) == provider = "starkware" /\ A /\ UNCHANGED <<vars, provider>>

EndpointNext == ByStarkscan(Next) \/ ByStarkware(StarkwareNext)

\* The SDK asks again until it is answered, a handler works until it ends, and
\* Starkscan and the prover finish what they have begun.
EndpointSpec ==
  /\ EndpointInit /\ [][EndpointNext]_endpoint
  /\ WF_endpoint(ByStarkscan(\E h \in Handlers : Receive(h)))
  /\ \A h \in Handlers : WF_endpoint(ByStarkscan(Work(h)))
  /\ WF_endpoint(ByStarkscan(\E n \in Attempts, status \in Ended : Finish(n, status)))
  /\ WF_endpoint(ByStarkware(\E h \in Callers : Ask(h)))
  /\ \A h \in Callers : WF_endpoint(ByStarkware(Serve(h)))
-----------------------------------------------------------------------------
\* Whichever prover is deployed, a request that is sent until it is answered is
\* answered: by a proof, an error, or, from StarkWare, as of unknown delivery.
EndpointAnswers == <>(answer # "none" \/ reply.what # "none")
=============================================================================
