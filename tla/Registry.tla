------------------------------ MODULE Registry ------------------------------
(***************************************************************************)
(* Partners with their contacts, their units and their contracts: the       *)
(* handlers of contacts and those of units and contracts share the rows of  *)
(* partners and otherwise leave each other's rows alone.                    *)
(***************************************************************************)
EXTENDS ContractCoverage

registryVars == <<partner, contact, request, disturbed, headless, owner, covers, checked, left>>

RegistryTypeOK == ContactsTypeOK /\ CoverageTypeOK

RegistryInit == ContactsInit /\ CoverageInit

RegistryNext ==
    \/ ContactsNext /\ UNCHANGED coverageVars
    \/ CoverageNext /\ UNCHANGED contactVars

RegistrySpec == RegistryInit /\ [][RegistryNext]_registryVars
=============================================================================
