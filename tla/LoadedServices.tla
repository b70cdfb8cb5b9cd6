--------------------------- MODULE LoadedServices ---------------------------
(***************************************************************************)
(* A small set of services for TLC, with what the registered services and  *)
(* the files of /etc/init may bring together: two run levels, a dependency *)
(* of a higher run level, a cycle of dependencies through a service that   *)
(* fails because another one is missing, and each of the restart policies. *)
(***************************************************************************)
LoadedNames == <<"display", "cron", "mail", "spool">>
LoadedDependencies ==
    [display |-> <<>>, cron |-> <<"display">>, mail |-> <<"spool", "missing">>, spool |-> <<"mail">>]
LoadedRunlevels == [display |-> 4, cron |-> 3, mail |-> 3, spool |-> 3]
LoadedPriorities == [display |-> 15, cron |-> 15, mail |-> 10, spool |-> 5]
LoadedPolicies ==
    [display |-> "always", cron |-> "on-failure", mail |-> "no", spool |-> "always"]
=============================================================================
