----------------------------- MODULE SettingsPage -----------------------------
(***************************************************************************)
(* The settings page of the administrators (settings/general/index.tsx):   *)
(* one tab per group of settings, edits kept in the page until the tab is  *)
(* saved, a dialog before a sensitive value, coordinates that the browser  *)
(* fills in when it finds them.  The server takes the settings of a save   *)
(* one by one and without a transaction, while another administrator saves *)
(* too.                                                                    *)
(***************************************************************************)
EXTENDS Naturals, Sequences, SequencesExt

CONSTANTS
    Groups,        \* group -> its settings in the registry's order
    ValuesOf,      \* setting -> what its field can hold
    OutOfRange,    \* setting -> the values of those SettingsService refuses
    Sensitive,     \* the settings with requires_confirm
    Defaults,      \* setting -> default
    MaxOtherSaves  \* bound of the saves of the other administrator

Settings == UNION {ToSet(Groups[g]) : g \in DOMAIN Groups}
Coords   == "site_coordinates"    \* latitude and longitude, "" or known
Source   == "weather_source"      \* "sensor" or "api"

Holding == {f \in [Settings -> UNION {ValuesOf[k] : k \in Settings}] :
               \A k \in Settings : f[k] \in ValuesOf[k]}

Accepted(k, v) == v \in ValuesOf[k] \ OutOfRange[k]

ASSUME SettingsAssumption ==
    /\ \A g \in DOMAIN Groups : Groups[g] \in Seq(Settings)
    /\ {Coords, Source} \subseteq Settings /\ "known" \in ValuesOf[Coords]
    /\ Sensitive \subseteq Settings \ {Coords}
    /\ Defaults \in Holding /\ \A k \in Settings : Accepted(k, Defaults[k])
    /\ MaxOtherSaves \in Nat

VARIABLES
    stored,        \* the settings table, defaults applied
    shown,         \* the prop "groups"
    edits,         \* values: what the fields hold
    confirmed,     \* confirmedKeys
    group,         \* activeTab
    asking,        \* pendingConfirm, or Nothing
    put,           \* the save on its way, or Nothing
    locating,      \* the browser looks for the position
    picked,        \* history: the settings whose edit the user asked for
    otherSaves

setVars == <<stored, shown, edits, confirmed, group, asking, put, locating,
             picked, otherSaves>>

Nothing == [at |-> "nothing"]

SettingsTypeOK ==
    /\ stored \in Holding /\ shown \in Holding /\ edits \in Holding
    /\ \A k \in Settings : Accepted(k, stored[k])
    /\ confirmed \subseteq Sensitive /\ picked \subseteq Settings
    /\ group \in DOMAIN Groups
    /\ \/ asking = Nothing
       \/ asking.key \in Sensitive /\ asking.value \in ValuesOf[asking.key]
    /\ \/ put = Nothing
       \/ put.at = "done"
       \/ /\ put.at \in {"sent", "taken"}
          /\ put.keys # {} /\ put.keys \subseteq ToSet(Groups[put.group])
    /\ locating \in BOOLEAN /\ otherSaves \in 0..MaxOtherSaves

Dirty(g) == {k \in ToSet(Groups[g]) : edits[k] # shown[k]}

SettingsInit ==
    /\ stored = Defaults /\ shown = Defaults /\ edits = Defaults
    /\ confirmed = {} /\ picked = {}
    /\ group \in DOMAIN Groups
    /\ asking = Nothing /\ put = Nothing
    /\ locating = FALSE /\ otherSaves = 0

-----------------------------------------------------------------------------
(* The page.  The fields stay open while a save is on its way; only the two *)
(* buttons of the bar and the one that looks for the position are shut.     *)

PageOnly == UNCHANGED <<stored, shown, put, otherSaves>>

FieldOffers(k, v) ==
    /\ asking = Nothing /\ k \in ToSet(Groups[group])
    /\ v \in ValuesOf[k] \ {edits[k]}

BarIdle == put # Nothing \/ Dirty(group) = {}

OffersLocation == Coords \in ToSet(Groups[group]) /\ ~ locating /\ put = Nothing

SelectTab(g) ==
    /\ asking = Nothing
    /\ g \in DOMAIN Groups \ {group}
    /\ group' = g
    /\ UNCHANGED <<edits, confirmed, asking, locating, picked>> /\ PageOnly

ApplyValue(k, v, isConfirmed) ==
    /\ edits' = [edits EXCEPT ![k] = v]
    /\ confirmed' = IF isConfirmed THEN confirmed \cup {k} ELSE confirmed \ {k}

(* Mutant of HandleChange: what was confirmed once is not asked again. *)
HandleChangeAskOnce(k, v) ==
    /\ FieldOffers(k, v)
    /\ IF k \in Sensitive \ confirmed /\ v # shown[k]
       THEN /\ asking' = [key |-> k, value |-> v]
            /\ UNCHANGED <<edits, confirmed, picked>>
       ELSE /\ ApplyValue(k, v, k \in confirmed)
            /\ picked' = IF k \in Sensitive THEN picked \ {k} ELSE picked \cup {k}
            /\ UNCHANGED asking
    /\ UNCHANGED <<group, locating>> /\ PageOnly

(* A sensitive value that differs from the one shown is asked about first. *)
HandleChange(k, v) ==
    /\ FieldOffers(k, v)
    /\ IF k \in Sensitive /\ v # shown[k]
       THEN /\ asking' = [key |-> k, value |-> v]
            /\ UNCHANGED <<edits, confirmed, picked>>
       ELSE /\ ApplyValue(k, v, FALSE)
            /\ picked' = IF k \in Sensitive THEN picked \ {k} ELSE picked \cup {k}
            /\ UNCHANGED asking
    /\ UNCHANGED <<group, locating>> /\ PageOnly

AcceptDialog ==
    /\ asking # Nothing
    /\ ApplyValue(asking.key, asking.value, TRUE)
    /\ picked' = picked \cup {asking.key}
    /\ asking' = Nothing
    /\ UNCHANGED <<group, locating>> /\ PageOnly

CancelDialog ==
    /\ asking # Nothing
    /\ asking' = Nothing
    /\ UNCHANGED <<edits, confirmed, group, locating, picked>> /\ PageOnly

RefreshLocation ==
    /\ asking = Nothing /\ OffersLocation
    /\ locating' = TRUE
    /\ UNCHANGED <<edits, confirmed, group, asking, picked>> /\ PageOnly

(* applyPosition or, after the second attempt, an error: whatever tab is open
   by then. *)
Located(found) ==
    /\ locating
    /\ locating' = FALSE
    /\ IF found
       THEN edits' = [edits EXCEPT ![Coords] = "known"] /\ picked' = picked \cup {Coords}
       ELSE UNCHANGED <<edits, picked>>
    /\ UNCHANGED <<confirmed, group, asking>> /\ PageOnly

DiscardActiveTab ==
    /\ asking = Nothing /\ ~ BarIdle
    /\ LET keys == ToSet(Groups[group]) IN
       /\ edits' = [k \in Settings |-> IF k \in keys THEN shown[k] ELSE edits[k]]
       /\ confirmed' = confirmed \ keys
       /\ picked' = picked \ keys
    /\ UNCHANGED <<group, asking, locating>> /\ PageOnly

(* submitActiveTab; isChosen is the history of the keys. *)
SubmitActiveTab ==
    /\ asking = Nothing /\ ~ BarIdle
    /\ LET keys == Dirty(group) IN
       put' = [at |-> "sent", group |-> group, keys |-> keys,
               values |-> [k \in keys |-> edits[k]],
               confirmed |-> confirmed \cap keys, chosen |-> picked \cap keys]
    /\ UNCHANGED <<stored, shown, edits, confirmed, group, asking, locating, picked, otherSaves>>

-----------------------------------------------------------------------------
(* The server.                                                             *)

Served == [at |-> "done"]

Serves == UNCHANGED <<shown, edits, confirmed, group, asking, locating, picked, otherSaves>>

(* UpdateGeneralSettingsRequest: with the weather of the API the site needs its
   coordinates; a request about either is looked at with what is stored of the
   other. *)
Placed(keys, values) ==
    LET Merged(k) == IF k \in keys THEN values[k] ELSE stored[k]
    IN  keys \cap {Coords, Source} = {} \/ Merged(Source) # "api" \/ Merged(Coords) # ""

Validate ==
    /\ put # Nothing /\ put.at = "sent"
    /\ put' = IF Placed(put.keys, put.values) THEN [put EXCEPT !.at = "taken"] ELSE Served
    /\ UNCHANGED stored /\ Serves

(* The setting of the request that is written next. *)
NextKey ==
    LET left == {i \in DOMAIN Groups[put.group] : Groups[put.group][i] \in put.keys}
    IN  Groups[put.group][CHOOSE i \in left : \A j \in left : i <= j]

(* SettingsService::set of the next setting of the request.  A refusal ends the
   request; the settings before it stay written. *)
SetNext ==
    /\ put # Nothing /\ put.at = "taken"
    /\ LET k == NextKey
           taken == (k \in Sensitive => k \in put.confirmed) /\ Accepted(k, put.values[k])
       IN  /\ stored' = IF taken THEN [stored EXCEPT ![k] = put.values[k]] ELSE stored
           /\ put' = IF taken /\ put.keys # {k} THEN [put EXCEPT !.keys = @ \ {k}] ELSE Served
    /\ Serves

OtherAdmin(k, v) ==
    /\ otherSaves < MaxOtherSaves
    /\ Accepted(k, v) /\ v # stored[k] /\ Placed({k}, [stored EXCEPT ![k] = v])
    /\ stored' = [stored EXCEPT ![k] = v]
    /\ otherSaves' = otherSaves + 1
    /\ UNCHANGED <<shown, edits, confirmed, group, asking, put, locating, picked>>

(* Mutant of Reset: the fields keep what they hold when new props come. *)
ResetKeeps(new) == edits

Reset(new) == new

(* The redirect back brings the groups anew, and every edit of every tab goes
   with the old ones.  The dialog stays open. *)
PropsArrive ==
    /\ shown' = stored
    /\ edits' = Reset(stored)
    /\ confirmed' = {} /\ picked' = {}

AnswerArrives ==
    /\ put # Nothing /\ put.at = "done"
    /\ put' = Nothing
    /\ PropsArrive
    /\ UNCHANGED <<stored, group, asking, locating, otherSaves>>

(* The connection fails before the request or after it was served. *)
PutFails ==
    /\ put # Nothing /\ put.at \in {"sent", "done"}
    /\ put' = Nothing
    /\ UNCHANGED stored /\ Serves

SettingsNext ==
    \/ \E g \in DOMAIN Groups : SelectTab(g)
    \/ \E k \in Settings : \E v \in ValuesOf[k] : HandleChange(k, v) \/ OtherAdmin(k, v)
    \/ AcceptDialog \/ CancelDialog
    \/ RefreshLocation \/ \E found \in BOOLEAN : Located(found)
    \/ DiscardActiveTab \/ SubmitActiveTab
    \/ Validate \/ SetNext \/ AnswerArrives \/ PutFails

SettingsSpec == SettingsInit /\ [][SettingsNext]_setVars

-----------------------------------------------------------------------------
(* Properties.                                                             *)

(* Edits, several tabs, reloads and a second administrator: what a save carries
   is only what this user changed since the page last showed what is stored, so
   that it never puts back a value the other replaced in the meantime. *)
OnlyChosenSaved ==
    put.at \in {"sent", "taken"} => put.keys \ Sensitive \subseteq put.chosen

(* A sensitive setting the page saves holds the value that was accepted in the
   dialog, however often it was changed before and after. *)
SensitiveAccepted ==
    [][\A k \in Sensitive :
          stored'[k] # stored[k] /\ otherSaves' = otherSaves => k \in put.chosen]_setVars

(* A save carries what its administrator chose, and what was confirmed. *)
SavesAsChosen == [](SettingsTypeOK /\ OnlyChosenSaved) /\ SensitiveAccepted
=============================================================================
