---------------------------- MODULE MCTelemetry ----------------------------
(* An instance of Telemetry: periods from a second to some hours, one of    *)
(* none and one without a unit; settings without a broker; calibrations of  *)
(* which one is through one point only.                                     *)
EXTENDS Telemetry

Every(period, unit) == [period |-> period, unit |-> unit]
Short == [host |-> TRUE, temp |-> Every(10, "Second"), ping |-> Every(1, "Hour")]
Long == [host |-> TRUE, temp |-> Every(71, "Minute"), ping |-> Every(2, "Hour")]
None == [host |-> TRUE, temp |-> Every(0, "Second"), ping |-> Every(5, "Hours")]
NoHost == [Long EXCEPT !.host = FALSE]
Line(x0, y0, x1, y1) == [x0 |-> x0, y0 |-> y0, x1 |-> x1, y1 |-> y1]
Lines == <<Line(0, 0, 100, 10), Line(20, 5, 60, 85), Line(7, 3, 7, 9)>>

Of(leds, commands, forms, calibrations, drops, services) ==
  [leds |-> leds, commands |-> commands, forms |-> forms, calibrations |-> calibrations, drops |-> drops,
   services |-> services]
SomeBudgets ==
  {Of(3, 0, 0, 0, 0, {}), Of(1, 0, 1, 0, 0, {Short, Long, None}), Of(0, 2, 1, 0, 0, {Short}),
   Of(0, 1, 1, 1, 0, {Long}), Of(0, 0, 1, 2, 0, {Short}), Of(0, 0, 2, 0, 1, {Short, None}),
   Of(0, 0, 2, 0, 0, {Short, NoHost}), Of(0, 1, 1, 0, 1, {Long})}
TwoLogins == {Of(0, 1, 2, 0, 0, {Short})}

=============================================================================
