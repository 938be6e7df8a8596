------------------------------ MODULE Services ------------------------------
(***************************************************************************)
(* The parts of the server that share no state they write: the in-stream   *)
(* metadata of one source and one listener, the YP worker, the health      *)
(* checks, the analytics collector, the accounts with the admission of     *)
(* sources, and the authentication stack.  Each has its own view of the    *)
(* sources and their listeners, so what one does is nothing to the others, *)
(* and a behaviour of this module is one of any of them, the others at     *)
(* rest.                                                                   *)
(***************************************************************************)
EXTENDS IcyStream, Yp, Health, Analytics, Accounts, AuthStack

VARIABLE service   \* the part that is at work

servicesVars ==
  <<service, icyVars, ypVars, healthVars, analyticsVars, accountVars, authVars>>

ServicesInit ==
  /\ service \in {"icy", "yp", "health", "analytics", "accounts", "auth"}
  /\ IcyInit /\ YpInit /\ HealthInit /\ AnalyticsInit /\ AccountsInit /\ AuthInit

\* The parts at rest, when there is one at work.
RestOfIcy == UNCHANGED <<service, ypVars, healthVars, analyticsVars, accountVars, authVars>>
RestOfYp == UNCHANGED <<service, icyVars, healthVars, analyticsVars, accountVars, authVars>>
RestOfHealth == UNCHANGED <<service, icyVars, ypVars, analyticsVars, accountVars, authVars>>
RestOfAnalytics == UNCHANGED <<service, icyVars, ypVars, healthVars, accountVars, authVars>>
RestOfAccounts == UNCHANGED <<service, icyVars, ypVars, healthVars, analyticsVars, authVars>>
RestOfAuth == UNCHANGED <<service, icyVars, ypVars, healthVars, analyticsVars, accountVars>>

ServicesNext ==
  \/ service = "icy" /\ IcyNext /\ RestOfIcy
  \/ service = "yp" /\ YpNext /\ RestOfYp
  \/ service = "health" /\ HealthNext /\ RestOfHealth
  \/ service = "analytics" /\ AnalyticsNext /\ RestOfAnalytics
  \/ service = "accounts" /\ AccountsNext /\ RestOfAccounts
  \/ service = "auth" /\ AuthNext /\ RestOfAuth

\* The YP worker keeps on working and the times of its entries pass; nothing
\* else is needed, of any part.
ServicesFairSpec ==
  /\ ServicesInit /\ [][ServicesNext]_servicesVars
  /\ WF_servicesVars(service = "yp" /\ Work /\ RestOfYp)
  /\ \A m \in Mounts : WF_servicesVars(service = "yp" /\ ComesDue(m) /\ RestOfYp)
=============================================================================
