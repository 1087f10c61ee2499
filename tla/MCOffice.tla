------------------------------ MODULE MCOffice ------------------------------
(***************************************************************************)
(* The pages of the office: an item of equipment, the dialogs of the       *)
(* administration, the lists and their filters, the settings and the       *)
(* rebinding of readers.  They share nothing; a behaviour follows one page *)
(* and what the server and other users do meanwhile, and leaves the others *)
(* as they are at first.                                                   *)
(***************************************************************************)
EXTENDS EquipmentCustody, AdminForms, Registers, SettingsPage, Repositioning, TLC

VARIABLE tab

AllButTheAiSwitch == DOMAIN Forms \ {"camera_ai"}

AllButWorkOrders == DOMAIN Pages \ {"work_orders"}

ThreeGroups ==
    [general |-> <<"site_coordinates">>,
     weather |-> <<"weather_source">>,
     auth    |-> <<"session_timeout", "login_max">>]

(* The weather comes from the API throughout: the site needs its coordinates. *)
FieldValues ==
    [site_coordinates |-> {"", "known"},
     weather_source   |-> {"api"},
     session_timeout  |-> {"15", "30"},
     login_max        |-> {"5", "0"}]

LoginAtLeastOne ==
    [site_coordinates |-> {}, weather_source |-> {},
     session_timeout |-> {}, login_max |-> {"0"}]

Registry ==
    [site_coordinates |-> "", weather_source |-> "api",
     session_timeout |-> "15", login_max |-> "5"]

officeVars == <<custodyVars, formVars, registerVars, setVars, reposVars, tab>>

OneOf(S) == CHOOSE x \in S : TRUE
FirstForm == OneOf(Followed)
FirstList == OneOf(PageNames)
FirstPair == OneOf(Pairs(FirstList))

OfficeInit ==
    /\ tab \in {"equipment", "forms", "lists", "settings", "readers"}
    /\ (tab # "equipment" => place = "checkouts") /\ CustodyInit
    /\ (tab # "forms" => form = FirstForm[1] /\ field = FirstForm[2]) /\ FormsInit
    /\ (tab # "forms" => rows["r1"] = it.first)
    /\ (tab # "lists" => list = FirstList /\ followed = FirstPair) /\ RegistersInit
    /\ (tab # "settings" => group = "general") /\ SettingsInit
    /\ (tab # "readers" => label = OneOf(Labels)) /\ ReposInit
    /\ (tab # "readers" => cards["reader"].zone = NoZone)

OfficeNext ==
    \/ /\ tab = "equipment" /\ CustodyNext
       /\ UNCHANGED <<formVars, registerVars, setVars, reposVars, tab>>
    \/ /\ tab = "forms" /\ FormsNext
       /\ UNCHANGED <<custodyVars, registerVars, setVars, reposVars, tab>>
    \/ /\ tab = "lists" /\ RegistersNext
       /\ UNCHANGED <<custodyVars, formVars, setVars, reposVars, tab>>
    \/ /\ tab = "settings" /\ SettingsNext
       /\ UNCHANGED <<custodyVars, formVars, registerVars, reposVars, tab>>
    \/ /\ tab = "readers" /\ ReposNext
       /\ UNCHANGED <<custodyVars, formVars, registerVars, setVars, tab>>

OfficeSpec == OfficeInit /\ [][OfficeNext]_officeVars

(* A dialog adds or changes what it shows, a list is read with the filters it
   shows, and a save of the settings carries what was chosen on its page, but for
   what the parts except: boxes unticked in vain, the crew role made mandatory,
   the permit flag of a zone, and a list after a reload that a visit overtook.
   The AI switch of the cameras and the list of work orders, which break it, are
   not among the forms and pages of the instance. *)
PagesAsShown == DialogsAsShown /\ FiltersApplied /\ SavesAsChosen

(* The items of equipment are alike.                                       *)
ItemSymmetry == Permutations(Items)
=============================================================================
