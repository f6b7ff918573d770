----------------------------- MODULE MCToolRegistry -----------------------------
(* A small agent of ToolRegistry: settings of an actuator, one of them      *)
(* invalid, a forecast that takes a tick, a native start-up of two ticks that *)
(* its handler manages and can cancel, and a wait.                             *)
EXTENDS ToolRegistry, TLC

CONSTANTS low, high, wrong, query, native, pause, k1

Calls    == {low, high, wrong, query, native, pause}
CallTool == (low :> "set") @@ (high :> "set") @@ (wrong :> "set") @@ (query :> "forecast")
              @@ (native :> "start") @@ (pause :> "wait")

AllTools == {"set", "forecast", "start", "wait"}
Delays   == ("set" :> 0) @@ ("forecast" :> 1) @@ ("start" :> 2) @@ ("wait" :> 0)
Costs    == ("set" :> 1) @@ ("forecast" :> 1) @@ ("start" :> 2) @@ ("wait" :> 0)
Controls == {"set", "start"}
Natives  == {"start"}
Waits    == {"wait"}
=============================================================================
