------------------------------ MODULE Packages ------------------------------
(***************************************************************************)
(* The application packages entitlement, auth, webhook and ratelimit side by  *)
(* side.  They share nothing, so that every run of the four is an             *)
(* interleaving of one run of each: focus picks the one that moves, the       *)
(* others stay where they start.                                            *)
(***************************************************************************)
EXTENDS Entitlement, Session, Webhook, RateLimiter

VARIABLE focus

Init ==
    /\ EntitlementInit
    /\ SessionInit
    /\ WebhookInit
    /\ LimiterInit
    /\ focus \in {"entitlement", "session", "webhook", "ratelimit"}
    /\ \/ focus = "entitlement"
       \/ /\ decideAt = 0 /\ length = 0
          /\ require = [feature |-> "malformed", quantity |-> 0]
    /\ focus = "ratelimit" \/ memory = NilMemory

Next ==
    /\ UNCHANGED focus
    /\ \/ /\ focus = "entitlement"
          /\ EntitlementNext
          /\ UNCHANGED <<sessionVars, webhookVars, limiterVars>>
       \/ /\ focus = "session"
          /\ SessionNext
          /\ UNCHANGED <<entitlementVars, webhookVars, limiterVars>>
       \/ /\ focus = "webhook"
          /\ WebhookNext
          /\ UNCHANGED <<entitlementVars, sessionVars, limiterVars>>
       \/ /\ focus = "ratelimit"
          /\ LimiterNext
          /\ UNCHANGED <<entitlementVars, sessionVars, webhookVars>>

Spec ==
    Init /\ [][Next]_<<entitlementVars, sessionVars, webhookVars, limiterVars, focus>>

(* The types of the states of all four packages.                             *)
PackagesTypeOK ==
    EntitlementTypeOK /\ SessionTypeOK /\ WebhookTypeOK /\ LimiterTypeOK
=============================================================================
