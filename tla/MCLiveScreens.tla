---------------------------- MODULE MCLiveScreens ----------------------------
(***************************************************************************)
(* The two screens that are left open all day: a browser shows the permit  *)
(* board or the camera wall.  They share nothing; a behaviour follows one  *)
(* screen and leaves the other as it is at first.                          *)
(***************************************************************************)
EXTENDS PermitBoard, CameraWall

VARIABLE screen

liveVars == <<boardVars, wallVars, screen>>

OnBoard == screen = "board"
OnWall  == screen = "wall"

LiveInit ==
    /\ screen \in {"board", "wall"}
    /\ BoardInit /\ (OnWall => socket = "live" /\ \A p \in Permits : status[p] = "active")
    /\ WallInit /\ (OnBoard => up = Cams /\ ~native /\ linked)

LiveNext ==
    \/ OnBoard /\ BoardNext /\ UNCHANGED <<wallVars, screen>>
    \/ OnWall /\ WallNext /\ UNCHANGED <<boardVars, screen>>

(* BoardFairness and WallFairness, of the screen that is shown.            *)
LiveFairness ==
    /\ \A p \in Permits : WF_boardVars(OnBoard /\ CommitPermit(p))
    /\ WF_boardVars(OnBoard /\ TakeEvent)
    /\ WF_boardVars(OnBoard /\ Poll)
    /\ WF_boardVars(OnBoard /\ \E i \in DOMAIN snaps : ReadSnapshot(i))
    /\ \A i \in 1..MaxSnaps :
          SF_boardVars(OnBoard /\ i \in DOMAIN snaps /\ SnapshotArrives(i))
    /\ WF_wallVars(OnWall /\ PollCameras)
    /\ SF_wallVars(OnWall /\ CamerasArrive)
    /\ WF_wallVars(OnWall /\ TakeStatus)
    /\ WF_wallVars(OnWall /\ CommandAnswered)

LiveSpec == LiveInit /\ [][LiveNext]_liveVars /\ LiveFairness

(* No permit in two columns, no panel busy for nothing.                    *)
ScreensConsistent == BoardTypeOK /\ OneColumn /\ WallTypeOK /\ BusyPanelsCommand
=============================================================================
