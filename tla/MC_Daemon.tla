------------------------------ MODULE MC_Daemon ------------------------------
(* One client starts an agent in a terminal, or a structured agent, and asks *)
(* to stop all work, while a second one wants the only connection.  Which    *)
(* agent it is, is chosen at the start as "agent".                           *)
EXTENDS DaemonServer, TLC

CONSTANTS c1, c2, r1, r2

VARIABLE agent

MCSenderOf == r1 :> c1 @@ r2 :> c1
MCKindOf == r1 :> "tui" @@ r2 :> "stop_all"

Structured == INSTANCE DaemonServer WITH KindOf <- r1 :> "structured" @@ r2 :> "stop_all"

EitherInit == agent \in {"tui", "structured"} /\ Init

Either(ofTui, ofStructured) ==
  \/ agent = "tui" /\ ofTui
  \/ agent = "structured" /\ ofStructured

EitherNext == UNCHANGED agent /\ Either(Next, Structured!Next)

\* FairSpec of the daemon that moves.
EitherSpec ==
  /\ EitherInit /\ [][EitherNext]_<<agent, vars>>
  /\ WF_vars(Either(LoopStep, Structured!LoopStep))
  /\ \A c \in Clients : /\ WF_vars(ConnectionStep(c))
                        /\ WF_vars(HelloFails(c))
  /\ \A r \in Requests : /\ WF_vars(Either(RequestStep(r), Structured!RequestStep(r)))
                         /\ WF_vars(MonitorEnds(r))
  /\ WF_vars(SendShutdown)
=============================================================================
