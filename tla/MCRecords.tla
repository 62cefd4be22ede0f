----------------------------- MODULE MCRecords -----------------------------
(***************************************************************************)
(* Services that keep records, on disk or in a database: the organisation  *)
(* and the start of the Sidecar, three parts of the Backend API, and the   *)
(* host's approved writes, self-update and credentials.  They share no     *)
(* variable: part says which one moves.                                    *)
(*                                                                         *)
(* Organisation: a company with its office and manager, and a second one.  *)
(* BackendAuth: one user with two token families, at most one of them      *)
(* usable, and two concurrent requests.  BackendPublishing: two concurrent *)
(* writes with three keys on two resources and one skill version.          *)
(* ExternalWrite: one approval of any kind and two overlapping calls.      *)
(* AppUpdate: two commands, three versions and two backups.  Credentials:  *)
(* four requests for two credentials with the same label, a run, and one   *)
(* failure.  SidecarStart: two processes, two migrations, two lock files   *)
(* and one kill.  Catalogue: a published agent, a second agent, a model    *)
(* and a provider, ranges between four versions, and two transactions.     *)
(***************************************************************************)
EXTENDS Organisation, BackendAuth, BackendPublishing, ExternalWrite, AppUpdate,
        Credentials, SidecarStart, Catalogue, TLC

VARIABLE part

MCTargetOf == [a \in Approvals |-> CHOOSE t \in Targets : TRUE]

\* A model refuses tx3, tx2 is stored as tx1; a provider stores tx2 as tx3 and
\* refuses that.
MCNormal ==
    [k \in {Agents, Models, Providers} |->
        [t \in Texts |-> CASE k = Agents -> t
                         [] k = Models -> IF t = "tx2" THEN "tx1"
                                          ELSE IF t = "tx3" THEN NoRowId ELSE t
                         [] k = Providers -> IF t = "tx2" THEN "tx3"
                                             ELSE IF t = "tx3" THEN NoRowId ELSE t]]

\* 1.0.0, 2.0.0+b, 2.0.0-a and 3.0.0.
MCPoints == {<<1, 0, 0>>, <<2, 0, 1>>, <<2, 1, 0>>, <<3, 0, 0>>}

\* The two actors of a part are interchangeable, and the same in every part.
MCSymmetry == Permutations(Requests)

MCInit ==
    /\ part \in {"organisation", "auth", "publishing", "external", "update", "credentials",
                 "start", "catalogue"}
    /\ OrgInit /\ AuthInit /\ PublishingInit /\ UpdateInit /\ CredInit
    /\ StartInit /\ CatInit
    /\ ExternalInit
    /\ part # "external" => \A a \in Approvals : operation[a] = "create_file"
    /\ \A a \in Installed : row[a].ranges = {<<<<1, 0, 0>>, <<2, 0, 1>>>>}

MCNext ==
    /\ UNCHANGED part
    /\ \/ part = "organisation" /\ OrgNext
          /\ UNCHANGED <<authVars, publishingVars, ewVars, updateVars, credVars, startVars, catVars>>
       \/ part = "auth" /\ AuthNext
          /\ UNCHANGED <<orgVars, publishingVars, ewVars, updateVars, credVars, startVars, catVars>>
       \/ part = "publishing" /\ PublishingNext
          /\ UNCHANGED <<orgVars, authVars, ewVars, updateVars, credVars, startVars, catVars>>
       \/ part = "external" /\ ExternalNext
          /\ UNCHANGED <<orgVars, authVars, publishingVars, updateVars, credVars, startVars, catVars>>
       \/ part = "update" /\ UpdateNext
          /\ UNCHANGED <<orgVars, authVars, publishingVars, ewVars, credVars, startVars, catVars>>
       \/ part = "credentials" /\ CredNext
          /\ UNCHANGED <<orgVars, authVars, publishingVars, ewVars, updateVars, startVars, catVars>>
       \/ part = "start" /\ StartNext
          /\ UNCHANGED <<orgVars, authVars, publishingVars, ewVars, updateVars, credVars, catVars>>
       \/ part = "catalogue" /\ CatNext
          /\ UNCHANGED <<orgVars, authVars, publishingVars, ewVars, updateVars, credVars,
                         startVars>>

MCSpec ==
    MCInit /\ [][MCNext]_<<part, orgVars, authVars, publishingVars, ewVars,
                           updateVars, credVars, startVars, catVars>>
=============================================================================
