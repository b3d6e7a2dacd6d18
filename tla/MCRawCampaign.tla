---------------------------- MODULE MCRawCampaign ----------------------------
(* Every generation has its own session and epochs.                         *)
EXTENDS RawCampaign

MCIdentity == 0..(MaxGenerations - 1)
MCIdOf(i) == <<"id", i>>
MCDepthOf(i) == <<"depth", i>>
MCTradeOf(i) == <<"trade", i>>
MCToken == {"id", "depth", "trade"} \X MCIdentity
MCTimes == 0..MaxTime
=============================================================================
