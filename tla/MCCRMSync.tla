----------------------------- MODULE MCCRMSync -----------------------------
(***************************************************************************)
(* Instances of CRMSync for TLC and for Workers_proofs: the variables have *)
(* names that Workers does not have.                                       *)
(***************************************************************************)
EXTENDS Naturals, FiniteSets

CONSTANTS Worker, Signal, Company, None, MaxFailures

ASSUME CompanyAssumption == None \notin Company /\ Worker \cap Company = {}
ASSUME FailuresAssumption == MaxFailures \in Nat

VARIABLES
    due, synced, crmId, ingested, fresh, companies, outdated,
    at, kind, found, old, first, left, later, told, excused, unseen, overrun, raced, blind, failures

Crm == INSTANCE CRMSync WITH pc <- at, todo <- left

crm == <<due, synced, crmId, ingested, fresh, companies, outdated,
         at, kind, found, old, first, left, later, told, excused, unseen, overrun, raced, blind, failures>>

CrmSpec == Crm!Init /\ [][Crm!Next]_crm

\* The fairness of FairSpec.
FairCrmSpec ==
    /\ CrmSpec
    /\ SF_crm(\E w \in Worker : Crm!Sweep(w))
    /\ \A w \in Worker : WF_crm(Crm!SyncStep(w))

\* What the account says of its sync is so (CRMSync).
SyncedIsTrue == Crm!SyncedIsTrue

\* The company is not duplicated (CRMSync).
OneCompany == Crm!OneCompany

\* The sweep is self-healing (CRMSync).
DueIsSynced == Crm!DueIsSynced
=============================================================================
