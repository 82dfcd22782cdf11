----------------------------- MODULE MCTutorialRun -----------------------------
(* A tutorial run and the handle of a process, each for TLC on its own: what the   *)
(* run takes for granted of its handles is proved (HandleAsUsed, TutorialRunProofs). *)
EXTENDS TutorialRun, ManagedProcess

AllVars == <<vars, handleVars>>

\* Whichever moves first goes on alone: neither shares state with the other.
EitherInit == Init /\ HandleInit
EitherNext ==
  \/ HandleInit /\ Next /\ UNCHANGED handleVars
  \/ Init /\ HandleNext /\ UNCHANGED vars
EitherSpec == EitherInit /\ [][EitherNext]_AllVars /\ HandleFairness
=============================================================================
