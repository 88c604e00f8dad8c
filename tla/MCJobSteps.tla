------------------------------ MODULE MCJobSteps ------------------------------
(* Small instances of JobSteps for TLC.                                     *)
EXTENDS JobSteps, TLC

\* Functions with and without a sleep; notify returns nothing.
SmallPrograms ==
    {<<"notify", "charge">>, <<"notify", "nap", "ship">>, <<"charge", "nap", "ship">>}

Symmetric == Permutations(Executions)
=============================================================================
