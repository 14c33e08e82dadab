------------------------------ MODULE MCPlayback ------------------------------
(***************************************************************************)
(* Playback for a few service descriptions, lists of DLNA speeds and rates.*)
(***************************************************************************)
EXTENDS Playback

S(p, q) == [num |-> p, den |-> q]

\* A renderer with speeds of its own, unsorted and two of them invalid, and
\* one without.
Described ==
    {[speeds |-> <<S(2, 1), S(1, 0), S(1, 1), S(0, 1), S(-1, 2)>>, volume |-> 100,
      dlna15 |-> TRUE],
     [speeds |-> <<>>, volume |-> 0, dlna15 |-> FALSE]}

AskedRates == {33, 77, 200}

Event0 == [actions |-> None, speed |-> None, state |-> None]

\* The renderer plays backwards, stops with a speed that makes no sense, lists
\* its actions with DLNA speeds and without.
Reported ==
    {[Event0 EXCEPT !.state = "Playing", !.speed = S(-1, 2)],
     [Event0 EXCEPT !.state = "Stopped", !.speed = S(2, 0)],
     [Event0 EXCEPT !.actions = [can |-> {"Play", "Seek"},
                                 ps |-> <<S(1, 3), S(1, 0)>>]],
     [Event0 EXCEPT !.actions = [can |-> {"Seek", "X_DLNA_SeekByte"},
                                 ps |-> None]]}
=============================================================================
