------------------------------ MODULE Backend --------------------------------
(***************************************************************************)
(* Components of the operator's backend (legacy/control-plane-src-legacy)  *)
(* that share no row as far as they are modelled.  A behaviour exercises   *)
(* one of them, `active`; the variables of the others are Off.             *)
(***************************************************************************)
EXTENDS Naturals, Sequences, FiniteSets

CONSTANTS
    Operators, Visitors, MaxLinks,       \* of TenantLifecycle
    Asked, Runs, MaxFaults,              \* of Privacy
    Deletions, Exports, Callers, Jobs    \* of DataDeletion

ASSUME TenantsAssumption == IsFiniteSet(Operators) /\ MaxLinks \in Nat
ASSUME ErasureAssumption == MaxFaults \in Nat

VARIABLES
    active,
    tenant, admin, link, assets, operating, visit,
    person, asked, task, run, faults,
    user, request, held, call, job, done

Tenants  == INSTANCE TenantLifecycle
Erasure  == INSTANCE Privacy
Deletion == INSTANCE DataDeletion

tenantVars   == <<tenant, admin, link, assets, operating, visit>>
erasureVars  == <<person, asked, task, run, faults>>
deletionVars == <<user, request, held, call, job, done>>

Off == "off"

TenantsOff ==
    /\ tenant = Off /\ admin = Off /\ link = Off /\ assets = Off /\ operating = Off
    /\ visit = Off
ErasureOff ==
    /\ person = [deleted |-> FALSE, due |-> FALSE, anonymized |-> FALSE]
    /\ asked = Off /\ task = <<>> /\ run = Off /\ faults = Off
DeletionOff ==
    /\ user = Off /\ request = Off /\ held = Off /\ call = Off /\ job = Off /\ done = Off

Init ==
    \/ active = "tenants" /\ Tenants!Init /\ ErasureOff /\ DeletionOff
    \/ active = "erasure" /\ Erasure!Init /\ TenantsOff /\ DeletionOff
    \/ active = "deletion" /\ Deletion!Init /\ TenantsOff /\ ErasureOff

Next ==
    /\ UNCHANGED active
    /\ \/ /\ active = "tenants" /\ Tenants!Next
          /\ UNCHANGED <<erasureVars, deletionVars>>
       \/ /\ active = "erasure" /\ Erasure!Next
          /\ UNCHANGED <<tenantVars, deletionVars>>
       \/ /\ active = "deletion" /\ Deletion!Next
          /\ UNCHANGED <<tenantVars, erasureVars>>

vars == <<active, tenantVars, erasureVars, deletionVars>>

Spec == Init /\ [][Next]_vars

\* Of Privacy: setInterval starts a run again and again, and time passes.
Erasing(A) == active = "erasure" /\ A /\ UNCHANGED <<active, tenantVars, deletionVars>>
FairSpec ==
    /\ Spec
    /\ WF_vars(Erasing(Erasure!GraceEnds))
    /\ \A r \in Runs : WF_vars(Erasing(Erasure!RunStep(r)))

(***************************************************************************)
(* The properties of the components                                        *)
(***************************************************************************)

\* Every component keeps the shape of its state.
TypeOK ==
    /\ active = "tenants" => Tenants!TypeOK
    /\ active = "erasure" => Erasure!TypeOK
    /\ active = "deletion" => Deletion!TypeOK

\* TenantLifecycle: no more onboarding links are open than calls can overlap.
LinksDoNotPileUp == active = "tenants" => Tenants!LinksDoNotPileUp

\* DataDeletion: a deletion that says COMPLETED was carried out.
CompletedWasCarriedOut == active = "deletion" => Deletion!CompletedWasCarriedOut

\* Privacy: whoever asks to be deleted is anonymized in the end.
ErasureComes == Erasure!ErasureComes
=============================================================================
