---------------------------- MODULE MCCentralPublication ----------------------------
(* Instances of CentralPublication for TLC: one commit, two builds that should be
   one, two signings. *)
EXTENDS CentralPublication, TLC

CONSTANTS OneBuild, OtherBuild, OneSigning, OtherSigning, OneKey, OneCommit

Workspace(build, packed, signing, closed) ==
    [repository |-> [build |-> build, closed |-> closed],
     archive |-> [build |-> packed, closed |-> TRUE],
     bundle |-> [build |-> packed, signing |-> signing, closed |-> TRUE],
     key |-> OneKey, commit |-> OneCommit]

(* A sound workspace, and one built and signed anew whose archives are of the old build. *)
Workspaces ==
    {Workspace(OneBuild, OneBuild, OneSigning, TRUE),
     Workspace(OtherBuild, OneBuild, OtherSigning, TRUE)}
================================================================================
