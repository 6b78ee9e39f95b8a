---------------------------- MODULE ActionStream ----------------------------
(***************************************************************************)
(* What a chunked action policy promises the control loop, whatever runs   *)
(* behind it: in control period t of an episode the robot executes an      *)
(* action that was planned for period t, in that same episode, from an     *)
(* observation at most Horizon - 1 periods old.  The policy may plan ahead *)
(* and may replan at any time; it may never shift, skip or repeat a        *)
(* period, and never carry an action over into the next episode.           *)
(***************************************************************************)
EXTENDS Naturals

CONSTANT Horizon    \* how many actions of one chunk may be executed open loop

VARIABLES episode,  \* index of the running episode
          period,   \* control periods executed in this episode
          executed  \* the last executed action, or Nothing
-----------------------------------------------------------------------------
streamVars == <<episode, period, executed>>

\* An action: the episode and the period of the observation it was planned
\* from, and its position in the planned chunk.
Nothing == [ep |-> 0, src |-> 0, pos |-> 0]

StreamInit == /\ episode = 1
              /\ period = 0
              /\ executed = Nothing

\* The action of this period, planned age periods ago.
Execute == /\ \E age \in 0..(Horizon - 1) :
                 /\ age <= period
                 /\ executed' = [ep |-> episode, src |-> period - age, pos |-> age]
           /\ period' = period + 1
           /\ UNCHANGED episode

NewEpisode == /\ episode' = episode + 1
              /\ period' = 0
              /\ executed' = Nothing

StreamNext == Execute \/ NewEpisode

StreamSpec == StreamInit /\ [][StreamNext]_streamVars
=============================================================================
