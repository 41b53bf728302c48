---------------------------- MODULE MCProviders ----------------------------
(* What stands between the server and its providers shares no variable: a   *)
(* behaviour runs one provider's breaker, the embedding limiter, the cache  *)
(* of query vectors or a turn's exchange on the wire, chosen by focus.      *)
EXTENDS ResilientCall, VoyageLimiter, QueryVectors, ProviderWire

VARIABLE focus

mcVars == <<callVars, limiterVars, queryVars, wireVars, focus>>

MCProviderOrder == <<"mistral", "anthropic">>
MCCatalog == [mistral |-> <<"small", "large">>, anthropic |-> <<"sonnet", "haiku">>]
MCFallbackModel == [mistral |-> "large", anthropic |-> "haiku"]

\* Content that comes with its finish reason, a line for nobody, text after the end, a
\* cut frame, a line without an end, more text than fits; citations before and after text.
MCScripts ==
  [mistral |-> {<<"comment", "text", "text_finish", "done">>,
                <<"noise", "text", "finish", "done", "text">>, <<"text", "cut">>,
                <<"text", "flood">>, <<"text", "text", "text", "text">>},
   anthropic |-> {<<"noise", "text", "doc2", "doc1", "done">>, <<"text", "error", "text">>,
                  <<"doc1", "doc1", "doc1", "text", "done">>, <<"text", "doc1", "cut">>}]

MCInit ==
  /\ CallInit /\ LimiterInit /\ QueryInit /\ WireInit
  /\ focus \in {"breaker", "limiter", "queries", "wire"}
  /\ focus # "wire" => configured = {} /\ wanted = [provider |-> Nobody, model |-> Nobody]
  /\ focus # "queries" => ~hyde /\ short = {}

MCNext ==
  /\ UNCHANGED focus
  /\ \/ focus = "breaker" /\ CallNext /\ UNCHANGED <<limiterVars, queryVars, wireVars>>
     \/ focus = "limiter" /\ LimiterNext /\ UNCHANGED <<callVars, queryVars, wireVars>>
     \/ focus = "queries" /\ QueryNext /\ UNCHANGED <<callVars, limiterVars, wireVars>>
     \/ focus = "wire" /\ WireNext /\ UNCHANGED <<callVars, limiterVars, queryVars>>

(* CallFairness and LimiterFairness, for the behaviours that run them.     *)
MCSpec ==
  /\ MCInit /\ [][MCNext]_mcVars
  /\ WF_callVars(focus = "breaker" /\ TimePasses /\ UNCHANGED attempt)
  /\ \A c \in Callers : WF_callVars(focus = "breaker" /\ CallStep(c))
  /\ \A a \in Askers : WF_limiterVars(focus = "limiter" /\ Turn(a))
  /\ WF_limiterVars(focus = "limiter" /\ MinutePasses)

(* Whatever the provider does, nobody waits on its guards for ever: the     *)
(* breaker lets a healthy provider's calls through again, and a caller of   *)
(* the limiter is admitted or refused.                                      *)
CallersGetThrough == BreakerRecovers /\ AcquireReturns
=============================================================================
