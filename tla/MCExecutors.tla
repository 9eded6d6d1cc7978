----------------------------- MODULE MCExecutors -----------------------------
(***************************************************************************)
(* The executors of the batchers, the launches that call them, and the       *)
(* replay of recorded workloads.  A behaviour runs either the CreateFleet     *)
(* batcher, with three NodeClaims that ask for the same launch in batches of  *)
(* at most two, or one batch of TerminateInstances or DescribeInstances, or   *)
(* Create of the instance provider, or kubereplay.  They share no state.      *)
(***************************************************************************)
EXTENDS CreateFleet, InstanceBatch, MCInstanceLaunch, Kubereplay

CONSTANTS r1, r2, r3, b1

MCReqs == {r1, r2, r3}
MCBuckets == {b1}
MCHash == [r \in MCReqs |-> b1]

(* The requests are interchangeable, and the properties of the run are about  *)
(* states and steps.                                                        *)
MCSymmetry == Permutations(MCReqs)

MCExec(batch) ==
    {execCreateFleetBatch(batch, output) :
        output \in UNION {CreateFleetOutputs(batch, n) : n \in 0..(Len(batch) + MaxExtra)}}

MCAnswersFor(r) ==
    [Err: BOOLEAN, Instances: {<<>>} \cup {<< <<q, k>> >> : q \in MCReqs, k \in 1..3},
     Errors: {{}, {"ICE"}, {"too few instances returned"}}]

VARIABLE mode   \* the part that runs

modeVars == <<mode, fleetVars, batchVars, launchVars, replayVars>>

ModeInit ==
    /\ FleetInit
    /\ \/ mode = "instances" /\ BatchInit
       \/ mode \in {"fleet", "launch", "replay"} /\ api = "describe" /\ inputs = <<"i1">>
          /\ ec2State = [i \in Ids |-> "gone"] /\ BatchInit
    /\ \/ mode = "launch" /\ LaunchInit
       \/ mode # "launch" /\ offers = {} /\ LaunchInit
    /\ ReplayInit /\ (mode # "replay" => \A d \in Workloads : original[d] = NoWorkload)

ModeNext ==
    \/ mode = "fleet" /\ FleetNext /\ UNCHANGED <<mode, batchVars, launchVars, replayVars>>
    \/ mode = "instances" /\ BatchNext /\ UNCHANGED <<mode, fleetVars, launchVars, replayVars>>
    \/ mode = "launch" /\ LaunchNext /\ UNCHANGED <<mode, fleetVars, batchVars, replayVars>>
    \/ mode = "replay" /\ ReplayNext /\ UNCHANGED <<mode, fleetVars, batchVars, launchVars>>

ModeSpec == ModeInit /\ [][ModeNext]_modeVars
=============================================================================
