----------------------------- MODULE MCStreams -----------------------------
(* What a client meets: the limit on its requests, and the two event        *)
(* streams.  They share no variable: a behaviour runs one of them, chosen   *)
(* by focus.                                                                *)
EXTENDS ChatTurn, SourceEvents, RateLimiter

VARIABLE focus

mcVars == <<turnVars, eventVars, rateVars, focus>>

MCInit ==
  /\ TurnInit /\ EventsInit /\ RateInit
  /\ focus \in {"exchange", "channel", "requests"}
  /\ focus # "requests" => untilNext = 1 /\ ~distributed

MCNext ==
  /\ UNCHANGED focus
  /\ \/ focus = "exchange" /\ TurnNext /\ UNCHANGED <<eventVars, rateVars>>
     \/ focus = "channel" /\ EventsNext /\ UNCHANGED <<turnVars, rateVars>>
     \/ focus = "requests" /\ RateNext /\ UNCHANGED <<turnVars, eventVars>>

(* TurnFairness, EventsFairness and RateFairness, for the behaviours that   *)
(* run them.                                                                *)
MCSpec ==
  /\ MCInit /\ [][MCNext]_mcVars
  /\ WF_turnVars(focus = "exchange" /\ TaskStep)
  /\ WF_turnVars(focus = "exchange" /\ DropReceiver)
  /\ \A p \in Publishers :
       WF_eventVars(focus = "channel" /\ (TakeId(p) \/ Buffer(p) \/ SendLive(p)))
  /\ \A c \in Clients : WF_eventVars(focus = "channel" /\
       (DeliverReplayed(c) \/ DeliverLive(c) \/ Lag(c) \/ StreamEnds(c)))
  /\ \A c \in Checks : WF_rateVars(focus = "requests" /\ (Arrive(c) \/ CheckStep(c)))
  /\ WF_rateVars(focus = "requests" /\ Retain)
  /\ WF_rateVars(focus = "requests" /\ ClockTicks)
=============================================================================
