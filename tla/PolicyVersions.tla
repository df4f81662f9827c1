--------------------------- MODULE PolicyVersions ---------------------------
(***************************************************************************)
(* The version rows of a route group's policy (db/route_groups.py) and of  *)
(* a prompt template (db/prompt_registry.py). Publishing archives what is  *)
(* published and then publishes a row, in two statements and no            *)
(* transaction; the number of a new row is read before it is inserted and  *)
(* guarded by a unique index only. Editors are admin requests on any       *)
(* instance; they interleave between statements.                           *)
(***************************************************************************)
EXTENDS Integers, FiniteSets, FiniteSetsExt

CONSTANTS
    Editors,        \* admin requests in flight
    MaxVersions     \* bound on the version rows of the owner

VARIABLES
    kind,           \* whose versions these are: a "group" or a "template"
    owner,          \* the owner's row
    status,         \* status column of each version row, "none" if absent
    editor,         \* the requests
    everPublished,  \* history: some version was published
    interrupted,    \* history: a publication failed after its archive, and none succeeded since
    overlapped      \* history: the last archive ran inside another publication

versionVars == <<kind, owner, status, editor, everPublished, interrupted, overlapped>>

Versions == 1..MaxVersions
Rows == {v \in Versions : status[v] # "none"}
Drafts == {v \in Versions : status[v] = "draft"}
Live == {v \in Versions : status[v] = "published"}
NextVersion == 1 + Max(Rows \cup {0})

IdleEditor == [step |-> "idle", target |-> 0, publish |-> FALSE]

\* Between the archive and the publishing statement.
Publishing == {e \in Editors : editor[e].step \in {"insert", "promote"}}

VersionTypeOK ==
    /\ kind \in {"group", "template"} /\ owner \in {"none", "row", "deleted"}
    /\ status \in [Versions -> {"none", "draft", "published", "archived"}]
    /\ \A e \in Editors :
          /\ editor[e].step \in {"idle", "archive", "insert", "find", "archiveRow", "promote",
                                 "rewrite", "count", "insertDraft"}
          /\ editor[e].target \in 0..MaxVersions
    /\ {everPublished, interrupted, overlapped} \subseteq BOOLEAN

VersionInit ==
    /\ kind \in {"group", "template"}
    /\ owner = "none"
    /\ status = [v \in Versions |-> "none"]
    /\ editor = [e \in Editors |-> IdleEditor]
    /\ everPublished = FALSE /\ interrupted = FALSE /\ overlapped = FALSE

Goes(e, step, v) == editor' = [editor EXCEPT ![e].step = step, ![e].target = v]
Ends(e) == editor' = [editor EXCEPT ![e] = IdleEditor]

-----------------------------------------------------------------------------
(* The owner *)

\* create_route_group, create_prompt_template: a second one meets the unique key.
CreateOwner ==
    /\ owner = "none" /\ owner' = "row"
    /\ UNCHANGED <<kind, status, editor, everPublished, interrupted, overlapped>>

\* The versions go with it (ON DELETE CASCADE).
DeleteOwner ==
    /\ owner = "row" /\ owner' = "deleted"
    /\ status' = [v \in Versions |-> "none"]
    /\ UNCHANGED <<kind, editor, everPublished, interrupted, overlapped>>

-----------------------------------------------------------------------------
(* Publishing. Validation and the reads before the last one change nothing. *)

\* The owner is found and the number of the new row read.
PublishPolicy(e) ==
    /\ kind = "group" /\ owner = "row" /\ editor[e].step = "idle"
    /\ NextVersion \in Versions
    /\ Goes(e, "archive", NextVersion)
    /\ UNCHANGED <<kind, owner, status, everPublished, interrupted, overlapped>>

\* The policy of an earlier row is published again, as a row of its own.
RollbackPolicy(e, v) ==
    /\ v \in Rows
    /\ PublishPolicy(e)

\* The newest draft is found.
PublishLatestDraft(e) ==
    /\ kind = "group" /\ owner = "row" /\ editor[e].step = "idle"
    /\ Drafts # {}
    /\ Goes(e, "archiveRow", Max(Drafts))
    /\ UNCHANGED <<kind, owner, status, everPublished, interrupted, overlapped>>

\* publish_version: the row is found by its number.
PublishVersion(e, v) ==
    /\ kind = "template" /\ owner = "row" /\ editor[e].step = "idle"
    /\ v \in Rows
    /\ Goes(e, "archiveRow", v)
    /\ UNCHANGED <<kind, owner, status, everPublished, interrupted, overlapped>>

\* Faulty variant: only the newest published row is archived.
ArchivedNewest == [v \in Versions |-> IF Live # {} /\ v = Max(Live) THEN "archived" ELSE status[v]]

Archived == [v \in Versions |-> IF v \in Live THEN "archived" ELSE status[v]]

Archive(e) ==
    /\ editor[e].step \in {"archive", "archiveRow"}
    /\ status' = Archived
    /\ Goes(e, IF editor[e].step = "archive" THEN "insert" ELSE "promote", editor[e].target)
    /\ overlapped' = (Publishing # {})
    /\ UNCHANGED <<kind, owner, everPublished, interrupted>>

\* The row is inserted as published; its number may be taken by now, and
\* then the request fails with the old version archived.
InsertPublished(e) ==
    LET v == editor[e].target
        ok == owner = "row" /\ status[v] = "none"
    IN
    /\ editor[e].step = "insert"
    /\ status' = IF ok THEN [status EXCEPT ![v] = "published"] ELSE status
    /\ everPublished' = (everPublished \/ ok)
    /\ interrupted' = ~ok
    /\ Ends(e)
    /\ UNCHANGED <<kind, owner, overlapped>>

\* The row found earlier is published, whatever its status is by now.
PromoteRow(e) ==
    LET v == editor[e].target
        ok == status[v] # "none"
    IN
    /\ editor[e].step = "promote"
    /\ status' = IF ok THEN [status EXCEPT ![v] = "published"] ELSE status
    /\ everPublished' = (everPublished \/ ok)
    /\ interrupted' = ~ok
    /\ Ends(e)
    /\ UNCHANGED <<kind, owner, overlapped>>

-----------------------------------------------------------------------------
(* Drafts *)

\* save_draft_policy: the newest draft is found, if there is one.
SaveDraftPolicy(e) ==
    /\ kind = "group" /\ owner = "row" /\ editor[e].step = "idle"
    /\ IF Drafts # {} THEN Goes(e, "rewrite", Max(Drafts)) ELSE Goes(e, "count", 0)
    /\ UNCHANGED <<kind, owner, status, everPublished, interrupted, overlapped>>

\* UPDATE by row id: a draft published meanwhile is edited in place.
RewriteDraft(e) ==
    /\ editor[e].step = "rewrite"
    /\ Ends(e)
    /\ UNCHANGED <<kind, owner, status, everPublished, interrupted, overlapped>>

\* create_version for a template; "publish" asks to publish it afterwards.
CreateVersion(e, publish) ==
    /\ kind = "template" /\ owner = "row" /\ editor[e].step = "idle"
    /\ editor' = [editor EXCEPT ![e] = [step |-> "count", target |-> 0, publish |-> publish]]
    /\ UNCHANGED <<kind, owner, status, everPublished, interrupted, overlapped>>

CountVersions(e) ==
    /\ editor[e].step = "count" /\ NextVersion \in Versions
    /\ Goes(e, "insertDraft", NextVersion)
    /\ UNCHANGED <<kind, owner, status, everPublished, interrupted, overlapped>>

InsertDraft(e) ==
    LET v == editor[e].target
        ok == owner = "row" /\ status[v] = "none"
    IN
    /\ editor[e].step = "insertDraft"
    /\ status' = IF ok THEN [status EXCEPT ![v] = "draft"] ELSE status
    /\ IF ok /\ editor[e].publish THEN Goes(e, "find", v) ELSE Ends(e)
    /\ UNCHANGED <<kind, owner, everPublished, interrupted, overlapped>>

\* publish_version of the row just created.
FindCreated(e) ==
    /\ editor[e].step = "find"
    /\ IF editor[e].target \in Rows THEN Goes(e, "archiveRow", editor[e].target) ELSE Ends(e)
    /\ UNCHANGED <<kind, owner, status, everPublished, interrupted, overlapped>>

\* A statement raises, or the instance stops: nothing is undone.
EditorFails(e) ==
    /\ editor[e].step # "idle"
    /\ interrupted' = (interrupted \/ e \in Publishing)
    /\ Ends(e)
    /\ UNCHANGED <<kind, owner, status, everPublished, overlapped>>

VersionNext ==
    \/ CreateOwner \/ DeleteOwner
    \/ \E e \in Editors :
          \/ PublishPolicy(e) \/ PublishLatestDraft(e) \/ Archive(e)
          \/ InsertPublished(e) \/ PromoteRow(e)
          \/ SaveDraftPolicy(e) \/ RewriteDraft(e) \/ CountVersions(e) \/ InsertDraft(e)
          \/ FindCreated(e) \/ EditorFails(e)
          \/ \E v \in Versions : RollbackPolicy(e, v) \/ PublishVersion(e, v)
          \/ \E publish \in BOOLEAN : CreateVersion(e, publish)

VersionSpec == VersionInit /\ [][VersionNext]_versionVars

-----------------------------------------------------------------------------
(* Once a version was published and no publication is under way, exactly  *)
(* one is: there is one unless the last publication failed after its      *)
(* archive, and no second one unless the archive before it ran inside     *)
(* another publication (publish_policy, publish_latest_draft,             *)
(* publish_version).                                                       *)
LiveVersionKept ==
    owner = "row" /\ everPublished /\ Publishing = {} =>
        /\ ~interrupted => Live # {}
        /\ ~overlapped => Cardinality(Live) <= 1
=============================================================================
