----------------------------- MODULE MCServices -----------------------------
(***************************************************************************)
(* Six services that share no state, checked side by side: a behaviour is  *)
(* one of the first service, or of the second, ..., while the others rest. *)
(* The action gateway is seen twice, with a state file that was kept and   *)
(* with a fresh directory.                                                 *)
(***************************************************************************)
EXTENDS MCBrowserEffect, PublicationQueue, FactoryRun, Outbox, ActionGateway, AuditChain

VARIABLE service

\* The preference of a state file that was kept, and two reads that find none.
CONSTANTS keptSetting, n1, n2

ServicesInit ==
    /\ service \in {"publication", "factory", "outbox", "gateway", "fresh", "browser", "audit"}
    /\ PublicationInit
    /\ FactoryInit
    /\ OutboxInit
    /\ GatewayInit
    /\ AuditInit
    /\ IF service = "gateway" THEN stateFile.preference = keptSetting
                              ELSE stateFile = Plain("absent")
    /\ service # "audit" => backend = "sqlite"
    /\ Init

Publication ==
    /\ service = "publication" /\ PublicationNext
    /\ UNCHANGED <<service, factoryVars, outboxVars, gatewayVars, auditVars, vars>>

Factory ==
    /\ service = "factory" /\ FactoryNext
    /\ UNCHANGED <<service, publicationVars, outboxVars, gatewayVars, auditVars, vars>>

Deliveries ==
    /\ service = "outbox" /\ OutboxNext
    /\ UNCHANGED <<service, publicationVars, factoryVars, gatewayVars, auditVars, vars>>

\* Bounds: one action on a fresh directory; the second read comes after the first.
OwnerActions ==
    /\ service \in {"gateway", "fresh"} /\ GatewayNext
    /\ service = "fresh" => previewed' <= 1
    /\ writer'[n2].at = "open" /\ writer[n2].at = "idle" => writer[n1].at # "idle"
    /\ UNCHANGED <<service, publicationVars, factoryVars, outboxVars, auditVars, vars>>

Effects ==
    /\ service = "browser" /\ Next
    /\ UNCHANGED <<service, publicationVars, factoryVars, outboxVars, gatewayVars, auditVars>>

Audits ==
    /\ service = "audit" /\ AuditNext
    /\ UNCHANGED <<service, publicationVars, factoryVars, outboxVars, gatewayVars, vars>>

ServicesNext == Publication \/ Factory \/ Deliveries \/ OwnerActions \/ Effects \/ Audits

ServicesSpec ==
    /\ ServicesInit
    /\ [][ServicesNext]_<<service, publicationVars, factoryVars, outboxVars, gatewayVars,
                          auditVars, vars>>
    /\ PublicationFairness
    /\ OutboxFairness
    /\ GatewayFairness

\* Nothing claimed is held for ever: neither a publication nor a parcel.
EveryClaimEnds == PublishingEnds /\ ClaimedParcelIsReleased

\* maxAttempts of the four stages
Attempts == (1 :> 2) @@ (2 :> 1) @@ (3 :> 2) @@ (4 :> 1)
=============================================================================
