--------------------------------- MODULE Ctl ---------------------------------
(***************************************************************************)
(* The alteratorctl program: the application frame with its query, diag,   *)
(* packages and components modules.  A behaviour is one run of the program *)
(* with one argument vector.                                               *)
(***************************************************************************)
EXTENDS CtlQuery, CtlDiag, CtlComponents

vars == <<commonVars, diagVars, packagesVars, componentsVars>>

\* The state of the machine matters to the commands about packages only.
Init ==
    /\ CommonInit /\ DiagInit /\ PackagesInit /\ ComponentsInit
    /\ argv.module \notin {"packages", "components"} => installed = {}
    /\ argv.module # "components" => ~has_edition

\* The steps of the program itself.
Step ==
    \/ /\ AppNext \/ names_use_after_free \/ QueryNext
       /\ UNCHANGED <<diagVars, packagesVars, componentsVars>>
    \/ DiagNext /\ UNCHANGED <<packagesVars, componentsVars>>
    \/ PackagesNext /\ UNCHANGED <<diagVars, componentsVars>>
    \/ ComponentsNext /\ UNCHANGED diagVars

Ended == at = "end" /\ UNCHANGED vars

Next ==
    \/ Step
    \/ OtherAdministrator /\ UNCHANGED <<diagVars, componentsVars>>
    \/ Ended

Spec == Init /\ [][Next]_vars /\ WF_vars(Step)

-----------------------------------------------------------------------------
(* Properties. *)

\* Every command ends, whatever the service answers and whoever else changes
\* the machine meanwhile: no early return of a module leaves the program
\* without a next function, and the loops over tests and sections end.  The
\* fairness is that of a running process whose calls have timeouts.
CommandEnds == <>(at = "end")

=============================================================================
