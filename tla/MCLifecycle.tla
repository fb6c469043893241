---------------------------- MODULE MCLifecycle ----------------------------
(***************************************************************************)
(* Callers of Lifecycle: two goroutines that start and stop the watcher    *)
(* without regard for one another, or one that keeps to a single Start.    *)
(***************************************************************************)
EXTENDS Lifecycle, TLC

CONSTANTS a, b

Both(p, q) == (a :> p) @@ (b :> q)

\* Two loops, two Stops at once, Stop before Start, and Start after a Stop has returned.
Together ==
  {Both(<<"Start", "Stop">>, <<"Start">>), Both(<<"Stop", "Start">>, <<"Stop">>),
   Both(<<"Stop", "Start">>, <<"Start", "Stop">>)}

ByOne ==
  {Both(p, <<>>) : p \in {<<"Start", "Stop", "Stop">>, <<"Stop", "Start", "Stop">>,
                          <<"Stop", "Stop", "Start">>}}

MCPrograms == Together \cup ByOne
=============================================================================
