------------------------------ MODULE MCRecoveryScenes ------------------------------
(***************************************************************************)
(* Two scenes of the same directory, chosen at the start: the daemon alone  *)
(* with revocations and repeated pairings, and one pairing with             *)
(* syauth-reconcile beside the daemon and no revocation.                    *)
(***************************************************************************)
EXTENDS Recovery

CONSTANTS
  First,   \* the attempt of the second scene
  Only     \* its peer

VARIABLE scene

sceneVars == <<vars, scene>>

SceneInit == Init /\ scene \in {"daemon alone", "beside reconcile"}

Alone == asking' = NotAsking /\ job'["reconcile"] = NoJob

Beside == used'.revokes = 0 /\ drive'.id \in {NoAttempt, First} /\ drive'.peer \in {NoPeer, Only}

SceneNext ==
  /\ Next
  /\ IF scene = "daemon alone" THEN Alone ELSE Beside
  /\ UNCHANGED scene

SceneSpec ==
  /\ SceneInit /\ [][SceneNext]_sceneVars
  /\ WF_sceneVars((FileOperation("daemon") \/ Reply) /\ UNCHANGED scene)
  /\ WF_sceneVars(scene = "beside reconcile" /\ (FileOperation("reconcile") \/ Reconciles) /\ UNCHANGED scene)

\* Where syauth-reconcile runs, a pairing the phone has bonded is promoted on the desktop in the end
\* (CommittedIsPromoted), although the engine may stop listening and the daemon may be killed in the middle.
PhoneBondIsPromoted ==
  \A a \in Attempt :
    (scene = "beside reconcile" /\ remote[a] = "Bonded")
      ~> (\E p \in Peer : disk.active[p].status = "Bonded" /\ disk.activeKey[p] = a)
=============================================================================
