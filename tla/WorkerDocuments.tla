--------------------------- MODULE WorkerDocuments ---------------------------
(***************************************************************************)
(* The documents workers hold (certificates, medical fitness): what the    *)
(* controller makes of the requests of the managers' panels, which may     *)
(* come from a page that shows a document as it no longer is, and what the *)
(* rest of the system reads off the documents.  No code writes the status  *)
(* "expired": a document expires because its date passes.                  *)
(***************************************************************************)
EXTENDS Naturals, FiniteSets, FiniteSetsExt

CONSTANTS
    Workers,      \* workers of the site
    DocTypes,     \* active rows of worker_document_types
    NeedFile,     \* the types with requires_file
    NeedExpiry,   \* the types with requires_expiry
    Docs,         \* rows the table may hold, deleted ones included
    MaxTime       \* bound of the clock, in days

ASSUME DocumentsAssumption ==
    /\ NeedFile \subseteq DocTypes /\ NeedExpiry \subseteq DocTypes
    /\ MaxTime \in Nat \ {0}
    /\ IsFiniteSet(Docs)

VARIABLES
    documents,    \* the table
    day           \* the clock

docVars == <<documents, day>>

NotYet  == [status |-> "not yet"]
Deleted == [status |-> "deleted"]
Forever == 0      \* expires_at is null

Document == [worker : Workers, type : DocTypes,
             status : {"pending", "verified", "rejected"},
             expires : 0..MaxTime + 1, hasFile : BOOLEAN]

DocumentsTypeOK ==
    /\ documents \in [Docs -> Document \cup {NotYet, Deleted}]
    /\ day \in 1..MaxTime

OnFile(d) == documents[d] \notin {NotYet, Deleted}

DocumentsOf(w, t) ==
    {d \in Docs : OnFile(d) /\ documents[d].worker = w /\ documents[d].type = t}

InDate(d) == documents[d].expires = Forever \/ documents[d].expires > day

FileThere(d) == documents[d].type \in NeedFile => documents[d].hasFile

DocumentsInit ==
    /\ documents = [d \in Docs |-> NotYet]
    /\ day = 1

-----------------------------------------------------------------------------
(* The controller.  A document that is gone answers 404.                   *)

Dates == {Forever} \cup day..MaxTime + 1

Acceptable(t, expires, hasFile) ==
    /\ t \in NeedExpiry => expires # Forever
    /\ t \in NeedFile => hasFile

(* Every file of an upload becomes a row of its own, pending review; without a
   file there is one row. *)
Upload(w, t, files, expires) ==
    /\ Acceptable(t, expires, files > 0)
    /\ \E new \in kSubset(IF files = 0 THEN 1 ELSE files,
                           {d \in Docs : documents[d] = NotYet}) :
          documents' = [d \in Docs |->
             IF d \notin new THEN documents[d]
             ELSE [worker |-> w, type |-> t, status |-> "pending",
                   expires |-> expires, hasFile |-> files > 0]]
    /\ UNCHANGED day

(* Replacing the data or the file of a document returns it to review. *)
SaveDocument(d, hasFile, expires) ==
    /\ OnFile(d) /\ (documents[d].hasFile => hasFile)
    /\ Acceptable(documents[d].type, expires, hasFile)
    /\ documents' = [documents EXCEPT ![d].expires = expires, ![d].hasFile = hasFile,
                                     ![d].status = "pending"]
    /\ UNCHANGED day

(* The panel has the buttons only on a row it shows as pending, the controller
   takes them in any status. *)
Verify(d) ==
    /\ OnFile(d) /\ FileThere(d)
    /\ documents' = [documents EXCEPT ![d].status = "verified"]
    /\ UNCHANGED day

RejectDocument(d) ==
    /\ OnFile(d)
    /\ documents' = [documents EXCEPT ![d].status = "rejected"]
    /\ UNCHANGED day

DeleteDocument(d) ==
    /\ OnFile(d)
    /\ documents' = [documents EXCEPT ![d] = Deleted]
    /\ UNCHANGED day

DayPasses ==
    /\ day < MaxTime
    /\ day' = day + 1
    /\ UNCHANGED documents

DocumentsNext ==
    \/ \E w \in Workers, t \in DocTypes, files \in 0..2, expires \in Dates :
          Upload(w, t, files, expires)
    \/ \E d \in Docs : \/ \E hasFile \in BOOLEAN, expires \in Dates :
                               SaveDocument(d, hasFile, expires)
                        \/ Verify(d) \/ RejectDocument(d) \/ DeleteDocument(d)
    \/ DayPasses

-----------------------------------------------------------------------------
(* What is read off the documents.                                         *)

(* Mutant of Badge: an expired document ranks with the ones in date. *)
BadgeUndated(w, t) ==
    LET rows == DocumentsOf(w, t)
        Rank(d) == CASE documents[d].status = "verified" -> 2
                     [] documents[d].status = "pending" -> 1
                     [] OTHER -> 0
        best == {d \in rows : \A e \in rows : Rank(e) <= Rank(d)}
    IN  IF rows = {} THEN {"missing"}
        ELSE {IF ~ InDate(d) THEN "expired"
              ELSE IF documents[d].status = "verified" /\ ~ FileThere(d) THEN "pending"
              ELSE documents[d].status : d \in best}

(* The badge of a document type in the panel: the status of the best document;
   of several that rank alike it may be any. *)
Badge(w, t) ==
    LET rows == DocumentsOf(w, t)
        Rank(d) == IF ~ InDate(d) THEN 0
                   ELSE CASE documents[d].status = "verified" -> 3
                          [] documents[d].status = "pending" -> 2
                          [] OTHER -> 1
        best == {d \in rows : \A e \in rows : Rank(e) <= Rank(d)}
    IN  IF rows = {} THEN {"missing"}
        ELSE {IF ~ InDate(d) THEN "expired"
              ELSE IF documents[d].status = "verified" /\ ~ FileThere(d) THEN "pending"
              ELSE documents[d].status : d \in best}

(* workerSatisfiesRequirement looks at one document only: of those in date the
   one that expires last, null last of all; of equals any. *)
Considered(w, t) ==
    LET rows == {d \in DocumentsOf(w, t) : InDate(d)}
    IN  {d \in rows : \A e \in rows : documents[e].expires <= documents[d].expires}

Fulfils(d, req) ==
    /\ FileThere(d)
    /\ IF req.verified THEN documents[d].status = "verified"
       ELSE documents[d].status # "rejected"
=============================================================================
