------------------------------ MODULE MCRollback ------------------------------
(* The two users of SlotStore side by side, a deployment of an artifact and an *)
(* update of the package; a behaviour is one of the first or of the second.    *)
EXTENDS Deployment, TLC

CONSTANTS d1, d2, d3, u1, u2, v0, v1, v2, UpdateIds, NumDirs, MaxWrites

VARIABLES package, runs, state, backups, restores, damaged, used, update,
          outcomes, writes, installed, atStop, part

Update == INSTANCE ReleaseUpdate
            WITH Ids <- UpdateIds, files <- package, running <- runs,
                 records <- outcomes, prior <- installed

updateVars == <<package, runs, state, backups, restores, damaged, used, update,
                outcomes, writes, installed, atStop>>

ASSUME UpdateAssumption == Update!ReleaseUpdateConstants

Symmetry == Permutations(Ids) \cup Permutations(UpdateIds) \cup Permutations({v1, v2})

\* The part that does not run starts in one of its initial states.
BothInit ==
    /\ Init /\ Update!Init
    /\ \/ part = "deployment" /\ update.tx[2] = "apply"
       \/ part = "update" /\ worker.host = "broker" /\ worker.artifact = FirstContent

BothNext == \/ part = "deployment" /\ Next /\ UNCHANGED <<updateVars, part>>
            \/ part = "update" /\ Update!Next /\ UNCHANGED <<vars, part>>

BothSpec == BothInit /\ [][BothNext]_<<vars, updateVars, part>>

\* An update that is reported active or rolled back is; whatever it took away
\* can be put back, and the service never runs without a protected directory.
UpdateIsSound ==
    /\ Update!RolledBackRestores /\ Update!ActiveRuns
    /\ Update!PriorIsRecoverable /\ Update!RunsWhole
\* No package and no version of the protected state is overwritten.
NothingOverwritten == Update!NothingOverwritten
=============================================================================
