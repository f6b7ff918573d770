------------------------- MODULE MCEpisodeCoordinator -------------------------
(* Alarms coalesce, a forecast may be delegated and a warning interrupts: what *)
(* a transition may carry.                                                   *)
EXTENDS EpisodeCoordinator

MCAlarm == {{}, {"alarm"}}
MCAlone == {{}, {"alarm"}, {"alarm", "warning"}, {"forecast"}}
MCNews == {{}, {"alarm", "forecast"}}
MCWarning == {{}, {"warning"}}
=============================================================================
