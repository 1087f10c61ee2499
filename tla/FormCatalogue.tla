----------------------------- MODULE FormCatalogue -----------------------------
(***************************************************************************)
(* The dialogs of the registers that managers keep: for every field of a   *)
(* form, who holds its value while the dialog is open and what the server  *)
(* makes of what is posted; for every register, the operations its table   *)
(* offers and the page state its buttons set before they open a dialog.    *)
(***************************************************************************)

(* Functions from the names of fields, put together (as :> and @@ of TLC). *)
Just(name, input) == [n \in {name} |-> input]

f ++ g == [n \in DOMAIN f \cup DOMAIN g |-> IF n \in DOMAIN f THEN f[n] ELSE g[n]]

(* An uncontrolled input: mounted with the value of the row, or with a
   default, and always posted. *)
Text == [holder |-> "dom", flag |-> FALSE, first |-> "blank",
         onAdd |-> "posted", onEdit |-> "posted"]

(* A select, and a checkbox or switch, bound to a useState of the page: first
   is its initial value and the one the add button sets; transform posts it. *)
Choice(first) == [Text EXCEPT !.holder = "page", !.first = first]
Switch(first) == [Choice(first) EXCEPT !.flag = TRUE]

(* An uncontrolled checkbox.  A browser posts nothing for one that is not
   ticked; onAdd and onEdit are what the server takes then: "on", "off", or
   "keep" for the value in the row. *)
Tick(first, onAdd, onEdit) ==
    [Text EXCEPT !.flag = TRUE, !.first = first, !.onAdd = onAdd, !.onEdit = onEdit]

(* A register: its fields, the operations it offers, and the page state its
   edit and add buttons set.  "switch" posts the flag its dialog announces,
   "set" can only be confirmed one way, and "flip" asks the server to turn the
   flag over. *)
Register(fields, offers, editSets, addSets) ==
    [fields |-> fields, offers |-> offers, editSets |-> editSets, addSets |-> addSets]

PageState(fields) == {f \in DOMAIN fields : fields[f].holder = "page"}

(* The usual register: the buttons set all the page state of the form. *)
Complete(fields, offers) ==
    Register(fields, offers, PageState(fields), PageState(fields))

(* Confirmation dialogs, and buttons, that switch one flag of a row. *)
Switching(flag) == Complete(Just(flag, Switch("on")), {"switch"})

Setting(flag) == Complete(Just(flag, Switch("off")), {"set"})

Texts(names) == [n \in names |-> Text]

-----------------------------------------------------------------------------
(* The catalogue of permit types.                                          *)

NewTypeForm ==
    Complete(Texts({"code", "name", "description"})
               ++ Just("requires_gas_test", Tick("off", "off", "keep"))
               ++ Just("requires_joint_inspection", Tick("on", "on", "keep")),
             {"add"})

(* Mutant of TypeActive: the button asks the server to turn the flag over. *)
TypeActiveFlips == Complete(Just("is_active", Switch("on")), {"flip"})

TypeActive == Switching("is_active")

TypeFields ==
    Texts({"name", "sa_form_code", "description", "colour_token",
           "default_validity_minutes", "max_renewals", "max_total_minutes",
           "retest_interval_minutes", "sort_order"})
      ++ [f \in {"requires_gas_test", "requires_joint_inspection",
                 "requires_approver", "allows_extended", "is_active"}
            |-> Tick("on", "on", "keep")]

TypeForm == Complete(TypeFields, {"edit"})

RoleFields ==
    Texts({"role_code", "label", "min_count", "sort_order"})
      ++ Just("is_mandatory", Tick("on", "on", "on"))

RoleForm == Complete(RoleFields, {"add", "edit", "delete"})

ChecklistFields ==
    Texts({"code", "label"})
      ++ [f \in {"is_mandatory", "is_active"} |-> Tick("on", "on", "keep")]

ChecklistForm == Complete(ChecklistFields, {"add", "edit", "delete"})

GasChannelFields ==
    Texts({"channel_code", "label", "unit", "alarm_below", "alarm_above",
           "warn_below", "warn_above"})

GasChannelForm == Complete(GasChannelFields, {"add", "edit", "delete"})

ConflictFields ==
    Texts({"note"})
      ++ Just("conflicts_with_type_id", Choice("blank"))
      ++ Just("scope", Choice("a")) ++ Just("severity", Choice("a"))

(* Mutant of ConflictForm: the add button forgets the severity. *)
ConflictFormLeft ==
    Register(ConflictFields, {"add", "edit", "delete"}, PageState(ConflictFields),
             {"conflicts_with_type_id", "scope"})

ConflictForm ==
    Register(ConflictFields, {"add", "edit", "delete"},
             {"conflicts_with_type_id", "scope", "severity"},
             {"conflicts_with_type_id", "scope", "severity"})

RequirementFields ==
    Just("worker_document_type_id", Choice("blank")) ++ Just("role_code", Choice("blank"))
      ++ [f \in {"is_mandatory", "must_be_verified"} |-> Tick("on", "on", "keep")]

RequirementForm ==
    Register(RequirementFields, {"add", "edit", "delete"},
             {"worker_document_type_id", "role_code"},
             {"worker_document_type_id", "role_code"})

(* The page of the crew roles of all permit types. *)
NewCrewRoleForm ==
    Complete(RoleFields ++ Just("permit_type_id", Choice("blank")), {"add"})

CrewRoleForm == Complete(RoleFields, {"edit", "delete"})

DocumentTypeFields ==
    Texts({"name", "description", "sort_order"})
      ++ Just("category", Choice("a"))
      ++ [f \in {"requires_file", "requires_expiry", "is_active"}
            |-> Tick("on", "on", "keep")]

DocumentTypeForm ==
    Register(DocumentTypeFields, {"add", "edit"}, {"category"}, {"category"})

DocumentTypeActive == Switching("is_active")

-----------------------------------------------------------------------------
(* Zones and hardware.                                                     *)

ZoneFields ==
    Texts({"name", "occupancy_limit"})
      ++ Just("zone_type", Choice("a"))
      ++ Just("requires_authorization", Switch("off"))
      ++ Just("requires_permit", Switch("off"))

(* The add button leaves requires_permit as the last dialog had it. *)
ZoneForm ==
    Register(ZoneFields, {"add", "edit", "delete"},
             {"zone_type", "requires_authorization", "requires_permit"},
             {"zone_type", "requires_authorization"})

ZoneDeactivated == Setting("deactivated")

DeviceFields ==
    Texts({"name", "reference", "serial_number", "api_url"})
      ++ Just("asset_id", Choice("blank")) ++ Just("device_type", Choice("a"))

DeviceForm ==
    Register(DeviceFields, {"add", "edit"},
             {"asset_id", "device_type"}, {"asset_id", "device_type"})

DeviceRetired == Setting("retired")

CameraFields ==
    Texts({"name", "reference", "stream_url"})
      ++ Just("asset_id", Choice("blank")) ++ Just("camera_type", Choice("a"))
      ++ Just("ai_enabled", Switch("on"))

(* Mutant of CameraForm: the edit button forgets the AI switch. *)
CameraFormStale ==
    Register(CameraFields, {"add", "edit"}, {"asset_id", "camera_type"},
             PageState(CameraFields))

CameraForm ==
    Register(CameraFields, {"add", "edit"},
             {"asset_id", "camera_type", "ai_enabled"},
             {"asset_id", "camera_type", "ai_enabled"})

CameraAi == Complete(Just("ai_enabled", Switch("on")), {"flip"})

CameraRetired == Setting("retired")

AssetFields ==
    Texts({"name", "identifier", "current_location_label"})
      ++ Just("asset_type", Choice("a")) ++ Just("status", Choice("a"))
      ++ Just("is_mobile", Switch("on"))

AssetForm ==
    Register(AssetFields, {"add", "edit", "delete"},
             {"asset_type", "status", "is_mobile"},
             {"asset_type", "status", "is_mobile"})

AssetShowForm ==
    Register(AssetFields, {"edit"}, {"asset_type", "status", "is_mobile"}, {})

TagForm == Complete(Texts({"tag_uid", "notes"}), {"add"})

(* An assignment is a row of its own, made for a tag in stock. *)
TagAssignForm == Complete(Just("worker_id", Choice("blank")), {"add"})

TagUnassigned == Setting("unassigned")

PortableDeviceForm ==
    Complete(Texts({"device_type", "make_model", "serial_number", "approval_reference"})
               ++ Just("worker_id", Choice("blank")),
             {"add"})

PortableDeviceRevoked == Setting("revoked")

-----------------------------------------------------------------------------
(* Accounts, and corrections of presence.                                  *)

NewUserForm ==
    Complete(Texts({"name", "email", "password"}) ++ Just("role", Choice("blank")), {"add"})

UserForm == Complete(Texts({"name"}) ++ Just("role", Choice("blank")), {"edit"})

UserActive == Switching("is_active")

RoleEditorFields ==
    Texts({"name", "description"})
      ++ Just("is_read_only", Switch("off")) ++ Just("permissions", Choice("blank"))

RoleEditorForm ==
    Register(RoleEditorFields, {"add", "edit", "delete"},
             {"is_read_only", "permissions"}, {"is_read_only", "permissions"})

CorrectionForm ==
    Complete(Texts({"occurred_at", "note"})
               ++ Just("worker_id", Choice("blank")) ++ Just("direction", Choice("a")),
             {"add"})

Forms ==
    [new_type |-> NewTypeForm, type |-> TypeForm, type_active |-> TypeActive,
     role |-> RoleForm, checklist |-> ChecklistForm, gas_channel |-> GasChannelForm,
     conflict |-> ConflictForm, requirement |-> RequirementForm,
     new_crew_role |-> NewCrewRoleForm, crew_role |-> CrewRoleForm,
     document_type |-> DocumentTypeForm, document_type_active |-> DocumentTypeActive,
     zone |-> ZoneForm, device |-> DeviceForm, camera |-> CameraForm,
     camera_ai |-> CameraAi, asset |-> AssetForm, asset_show |-> AssetShowForm,
     tag |-> TagForm, tag_assign |-> TagAssignForm,
     portable_device |-> PortableDeviceForm, new_user |-> NewUserForm,
     user |-> UserForm, user_active |-> UserActive, role_editor |-> RoleEditorForm,
     correction |-> CorrectionForm, zone_deactivated |-> ZoneDeactivated,
     device_retired |-> DeviceRetired, camera_retired |-> CameraRetired,
     tag_unassigned |-> TagUnassigned, portable_revoked |-> PortableDeviceRevoked]
=============================================================================
