------------------------------ MODULE MCAgents ------------------------------
(***************************************************************************)
(* The programs that agents work in run each in a process of its own: the  *)
(* mission controllers over the DevOps agent (missions of several graphs,  *)
(* or several writers of episodes), the agent loop, the router, and the    *)
(* gateway that asks for the user's word.  One run checks each of them by  *)
(* itself, the one that is checked being chosen at the start.              *)
(***************************************************************************)
EXTENDS Autonomy, AgentLoop, Routing, Gateway

VARIABLE program

\* Two commands, of which validate refuses the second, and one a user may write instead.
Command(denied, workspace) ==
  [word |-> TRUE, blocked |-> FALSE, denied |-> denied, workspace |-> workspace]
MCCommands == {Command(FALSE, FALSE), Command(TRUE, FALSE)}
MCEdits == {Command(FALSE, TRUE)}

\* Percent of VRAM and degrees: only a swarm may run, only one model, neither.
MCReadings == {[vram |-> 40, temp |-> 78], [vram |-> 87, temp |-> 60], [vram |-> 96, temp |-> 70]}

MCInit ==
  /\ program \in {"missions", "writers", "loop", "router", "secure"}
  /\ Init /\ AgentInit /\ RoutingInit /\ GatewayInit
  \* what is chosen at the start of the router is chosen in its own run
  /\ program # "router" => gpu = NoGpu

\* One mission of two graphs and one episode, or two episodes of missions of one graph.
OneOfTwo == (pc = "idle" /\ pc' = "round" => Total(file) + Total(episodes) = 0) /\ planned' + due' <= 1
TwoOfOne == Len(graphs') <= 1 /\ stops' = 0
\* The gateway, with passes of the DevOps agent before the first plan.
FixFirst == stage' # "off" => issued = 0

others == <<loopvars, rvars>>
MCNext ==
  /\ UNCHANGED program
  /\ \/ program = "missions" /\ Next /\ OneOfTwo /\ UNCHANGED <<gvars, others>>
     \/ program = "writers" /\ Next /\ TwoOfOne /\ UNCHANGED <<gvars, others>>
     \/ program = "loop" /\ AgentNext /\ UNCHANGED <<vars, gvars, rvars>>
     \/ program = "router" /\ RoutingNext /\ UNCHANGED <<vars, gvars, loopvars>>
     \/ /\ program = "secure" /\ GatewayNext /\ FixFirst
        /\ UNCHANGED <<avars, mission, learning, others>>

all == <<vars, gvars, others, program>>
MCSpec ==
  /\ MCInit /\ [][MCNext]_all
  /\ WF_all(program \in {"missions", "writers"} /\ Run /\ UNCHANGED <<avars, gvars, others, program>>)
  /\ WF_all(program = "loop" /\ AgentSteps /\ UNCHANGED <<vars, gvars, rvars, program>>)
=============================================================================
