----------------------------- MODULE MCStaging -----------------------------
(***************************************************************************)
(* The two halves of install, each on an instance of its own: the worklist *)
(* that stages packages (Install) and the resolution of their sources      *)
(* (Sources).  They share no state, so one of them is at work while the    *)
(* other rests where it starts.                                            *)
(***************************************************************************)
EXTENDS MCInstall, MCSources

VARIABLE turn  \* the half at work

InstallRests ==
  /\ conf = plain
  /\ \A s \in Source : live[s] = CHOOSE t \in Versions[s] : TRUE

StagingInit ==
  /\ turn \in {"install", "sources"}
  /\ Init /\ SourcesInit
  /\ turn = "sources" => InstallRests

(* Installs of sources come to an end; a command can always begin, so that   *)
(* TLC checks the other half for deadlock.                                   *)
StagingNext ==
  \/ /\ turn = "install"
     /\ Next /\ UNCHANGED <<vars, turn>>
  \/ /\ turn = "sources"
     /\ SourcesNext \/ UNCHANGED vars
     /\ UNCHANGED <<installVars, turn>>

StagingSpec ==
  /\ StagingInit /\ [][StagingNext]_<<installVars, vars, turn>>
  /\ WF_installVars(Step)
=============================================================================
