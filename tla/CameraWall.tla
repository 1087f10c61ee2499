------------------------------ MODULE CameraWall ------------------------------
(***************************************************************************)
(* The live wall (live/index.tsx): the cameras that are online and whose   *)
(* player did not report its feed down, kept current by DeviceStatusChanged *)
(* and by the snapshot useReverbChannel fetches; the player of each        *)
(* (live-camera-feed.tsx) with its watchdog; and the pan-tilt-zoom panel   *)
(* of the camera in full screen (use-camera-ptz.ts).                       *)
(*                                                                         *)
(* A player is on the page while its camera is shown.  Device ids and      *)
(* camera ids are numbers of two tables, so they meet.                     *)
(***************************************************************************)
EXTENDS Naturals, Sequences

CONSTANTS
    Cams,        \* ids of the cameras
    OtherIds,    \* ids of devices that are no camera; may meet Cams
    MaxEvents,   \* bound of the changes of cameras, devices and streams
    MaxOutages,  \* bound of the connections lost
    MaxCommands  \* bound of the PTZ commands

ASSUME WallAssumption ==
    MaxEvents \in Nat /\ MaxOutages \in Nat /\ MaxCommands \in Nat

VARIABLES
    up,        \* the cameras the server has online
    flows,     \* the cameras whose stream flows
    native,    \* the browser plays HLS itself, without hls.js
    onWire,    \* events on their way to the page
    linked,    \* the websocket is up
    lastTold,  \* the last event the page took
    fetching,  \* snapshots being fetched: sets of online cameras
    listed,    \* the cameras that are online on the page
    blank,     \* blankFeedIds
    full,      \* the camera in full screen, or 0
    busy,      \* isBusy of the PTZ panel
    command,   \* PTZ commands being served, by kind and panel
    panel,     \* the PTZ panels mounted so far
    events, outages

wallVars == <<up, flows, native, onWire, linked, lastTold, fetching, listed,
              blank, full, busy, command, panel, events, outages>>

StatusEvent == [id : Cams \cup OtherIds, camera : BOOLEAN, off : BOOLEAN]
NothingTold == [id |-> 0, camera |-> FALSE, off |-> FALSE]

PtzKind == {"move", "stop"}

(* liveCameras: what the wall shows, each with its player.                 *)
Wall == listed \ blank

(* The camera in full screen is one of the wall.                           *)
WallTypeOK ==
    /\ up \subseteq Cams /\ flows \subseteq Cams /\ native \in BOOLEAN
    /\ \A i \in DOMAIN onWire : onWire[i] \in StatusEvent
    /\ linked \in BOOLEAN
    /\ lastTold \in StatusEvent \cup {NothingTold}
    /\ fetching \subseteq [online : SUBSET Cams]
    /\ listed \subseteq Cams /\ blank \subseteq Cams \cup OtherIds
    /\ full \in Wall \cup {0} /\ busy \in BOOLEAN
    /\ command \subseteq [kind : PtzKind, panel : 1..MaxCommands]
    /\ panel \in 0..MaxCommands
    /\ events \in 0..MaxEvents /\ outages \in 0..MaxOutages

WallInit ==
    /\ up \in SUBSET Cams /\ flows = up /\ native \in BOOLEAN
    /\ onWire = <<>> /\ linked \in BOOLEAN /\ lastTold = NothingTold
    /\ fetching = {} /\ listed = up /\ blank = {}
    /\ full = 0 /\ busy = FALSE /\ command = {} /\ panel = 0
    /\ events = 0 /\ outages = 0

-----------------------------------------------------------------------------
(* The server and the streams.                                             *)

pageVars == <<native, linked, lastTold, fetching, listed, blank, full, busy,
              command, panel, outages>>

Tell(e) ==
    /\ events < MaxEvents /\ events' = events + 1
    /\ onWire' = IF linked THEN Append(onWire, e) ELSE onWire

(* touchCameraPresence, markStale: a camera comes back or goes offline.    *)
CameraChanges(c) ==
    /\ up' = (up \ {c}) \cup ({c} \ up)
    /\ Tell([id |-> c, camera |-> TRUE, off |-> c \in up])
    /\ UNCHANGED <<flows, pageVars>>

DeviceChanges(d) ==
    /\ \E off \in BOOLEAN : Tell([id |-> d, camera |-> FALSE, off |-> off])
    /\ UNCHANGED <<up, flows, pageVars>>

StreamChanges(c) ==
    /\ events < MaxEvents /\ events' = events + 1
    /\ flows' = (flows \ {c}) \cup ({c} \ flows)
    /\ UNCHANGED <<up, onWire, pageVars>>

-----------------------------------------------------------------------------
(* The page.                                                               *)

LeftBusy == busy

(* A player leaves the page with its camera, and full screen with it.      *)
FullAfter(next) == full' = IF full \in next THEN full ELSE 0
Left == IF full' = full THEN busy ELSE FALSE

serverVars == <<up, flows, native, events>>

(* patchCameraChip, markFeedBlank, clearBlankFeeds.                        *)
TakeStatus ==
    /\ onWire # <<>>
    /\ onWire' = Tail(onWire)
    /\ LET e == Head(onWire)
           fresh == e # lastTold
       IN /\ lastTold' = e
          /\ listed' = IF ~fresh \/ ~e.camera THEN listed
                       ELSE IF e.off THEN listed \ {e.id} ELSE listed \cup {e.id}
          /\ blank' = IF fresh /\ e.off THEN blank \cup {e.id}
                      ELSE IF fresh /\ e.camera THEN blank \ {e.id} ELSE blank
    /\ FullAfter(listed' \ blank') /\ busy' = Left
    /\ UNCHANGED <<serverVars, linked, fetching, command, panel, outages>>

(* A player whose stream stalls, or whose browser reports no frames to it, *)
(* is torn down by its watchdog and reports its camera.                    *)
FeedGoesDown(c) ==
    /\ c \in Wall
    /\ c \notin flows \/ native
    /\ blank' = blank \cup {c}
    /\ FullAfter(listed \ blank') /\ busy' = Left
    /\ UNCHANGED <<serverVars, onWire, linked, lastTold, fetching, listed,
                   command, panel, outages>>

LoseLink ==
    /\ linked /\ outages < MaxOutages
    /\ linked' = FALSE /\ onWire' = <<>> /\ outages' = outages + 1
    /\ UNCHANGED <<serverVars, lastTold, fetching, listed, blank, full, busy,
                   command, panel>>

FetchCameras == fetching' = {[online |-> up]}

RegainLink ==
    /\ ~linked /\ fetching = {}
    /\ linked' = TRUE /\ FetchCameras
    /\ UNCHANGED <<serverVars, onWire, lastTold, listed, blank, full, busy,
                   command, panel, outages>>

(* The snapshot is polled while the link is down, and not while it is up.  *)
PollCameras ==
    /\ ~linked /\ fetching = {}
    /\ FetchCameras
    /\ UNCHANGED <<serverVars, onWire, linked, lastTold, listed, blank, full,
                   busy, command, panel, outages>>

KeepBlank(online) == blank
ClearBlank(online) == blank \ online

CamerasArrive ==
    \E f \in fetching :
        /\ listed' = f.online /\ blank' = ClearBlank(f.online)
        /\ fetching' = {}
        /\ FullAfter(listed' \ blank') /\ busy' = Left
        /\ UNCHANGED <<serverVars, onWire, linked, lastTold, command, panel,
                       outages>>

CamerasFail ==
    /\ fetching # {}
    /\ fetching' = {}
    /\ UNCHANGED <<serverVars, onWire, linked, lastTold, listed, blank, full,
                   busy, command, panel, outages>>

(* The panel is mounted with full screen and unmounted with it.            *)
EnterFull(c) ==
    /\ full = 0 /\ c \in Wall /\ panel < MaxCommands
    /\ full' = c /\ panel' = panel + 1
    /\ UNCHANGED <<serverVars, onWire, linked, lastTold, fetching, listed,
                   blank, busy, command, outages>>

LeaveFull ==
    /\ full # 0
    /\ full' = 0 /\ busy' = FALSE
    /\ UNCHANGED <<serverVars, onWire, linked, lastTold, fetching, listed,
                   blank, command, panel, outages>>

Command(kind) ==
    /\ full # 0 /\ ~busy
    /\ busy' = TRUE
    /\ command' = command \cup {[kind |-> kind, panel |-> panel]}
    /\ UNCHANGED <<serverVars, onWire, linked, lastTold, fetching, listed,
                   blank, full, panel, outages>>

RefusalKeepsBusy ==
    \E p \in command :
        /\ command' = command \ {p} /\ UNCHANGED busy
        /\ UNCHANGED <<serverVars, onWire, linked, lastTold, fetching, listed,
                       blank, full, panel, outages>>

(* The answer, a refusal or a lost one frees the panel that sent it.       *)
CommandAnswered ==
    \E p \in command :
        /\ command' = command \ {p}
        /\ busy' = IF full # 0 /\ p.panel = panel THEN FALSE ELSE busy
        /\ UNCHANGED <<serverVars, onWire, linked, lastTold, fetching, listed,
                       blank, full, panel, outages>>

WallNext ==
    \/ \E c \in Cams : \/ CameraChanges(c) \/ StreamChanges(c)
                       \/ FeedGoesDown(c) \/ EnterFull(c)
    \/ \E d \in OtherIds : DeviceChanges(d)
    \/ \E kind \in PtzKind : Command(kind)
    \/ TakeStatus \/ LoseLink \/ RegainLink \/ PollCameras
    \/ CamerasArrive \/ CamerasFail \/ LeaveFull \/ CommandAnswered

(* The poll timer runs; not every poll fails; a command is answered.       *)
WallFairness ==
    /\ WF_wallVars(PollCameras)
    /\ SF_wallVars(CamerasArrive)
    /\ WF_wallVars(TakeStatus)
    /\ WF_wallVars(CommandAnswered)

WallSpec == WallInit /\ [][WallNext]_wallVars /\ WallFairness

-----------------------------------------------------------------------------
(* While the page polls, a camera that stays online and whose stream flows *)
(* is on the wall again and again, however often its feed went down        *)
(* (clearBlankFeeds in onSnapshot).                                        *)
PolledFeedReturns ==
    \A c \in Cams :
        <>[](~linked /\ c \in up /\ c \in flows /\ ~native)
            => <>[](c \in Wall)

(* A panel is busy only while a command it sent is being served, so it is  *)
(* never left disabled.                                                    *)
BusyPanelsCommand == busy => \E p \in command : p.panel = panel

PanelFreed == busy ~> ~busy

(* Nothing on the wall is lost for good: neither a feed nor a panel.       *)
WallRecovers == PolledFeedReturns /\ PanelFreed
=============================================================================
