---------------------------- MODULE PromptCache ----------------------------
(***************************************************************************)
(* Prompt resolution of services/prompt_registry.py: every instance keeps  *)
(* a first cache tier in memory, all share a second one in Redis, and an   *)
(* edit drops the second tier's keys that the editing instance itself      *)
(* knows of. Other instances are told nothing.                             *)
(***************************************************************************)
EXTENDS Integers

CONSTANTS
    Pods,           \* gateway instances
    Entries,        \* cached things: subset of {"prompt", "binding", "group_default"}
    MaxEdits        \* bound on the edits

VARIABLES
    source,         \* the database: number of the edit that wrote it, 0 for no row
    l1,             \* first tier of each instance
    l2,             \* second tier
    known,          \* _l2_known_keys of each instance
    reader,         \* a resolution in flight on each instance
    editing,        \* an admin request in flight on each instance
    edits           \* number of edits so far

promptVars == <<source, l1, l2, known, reader, editing, edits>>

Absent == -1
Values == Absent..MaxEdits
IdleReader == [step |-> "idle", entry |-> "prompt", value |-> 0]
IdleEdit == [step |-> "idle", drops |-> {}]

PromptTypeOK ==
    /\ source \in [Entries -> 0..MaxEdits]
    /\ l1 \in [Pods -> [Entries -> Values]] /\ l2 \in [Entries -> Values]
    /\ known \in [Pods -> SUBSET Entries]
    /\ \A p \in Pods :
          /\ reader[p].step \in {"idle", "l2", "fill", "db", "store", "share", "note"}
          /\ editing[p].step \in {"idle", "local", "shared"} /\ editing[p].drops \subseteq Entries

PromptInit ==
    /\ source = [k \in Entries |-> 0]
    /\ l1 = [p \in Pods |-> [k \in Entries |-> Absent]]
    /\ l2 = [k \in Entries |-> Absent]
    /\ known = [p \in Pods |-> {}]
    /\ reader = [p \in Pods |-> IdleReader]
    /\ editing = [p \in Pods |-> IdleEdit]
    /\ edits = 0

-----------------------------------------------------------------------------
(* Resolution: first tier, second tier, database *)

\* _read_l1 finds nothing; a hit is answered and changes nothing.
LookUp(p, k) ==
    /\ reader[p].step = "idle" /\ l1[p][k] = Absent
    /\ reader' = [reader EXCEPT ![p] = [step |-> "l2", entry |-> k, value |-> 0]]
    /\ UNCHANGED <<source, l1, l2, known, editing, edits>>

\* _read_l2; an unreachable Redis is a miss.
ReadL2(p, up) ==
    LET k == reader[p].entry IN
    /\ reader[p].step = "l2"
    /\ reader' = [reader EXCEPT ![p] = IF up /\ l2[k] # Absent
                                          THEN [@ EXCEPT !.step = "fill", !.value = l2[k]]
                                          ELSE [@ EXCEPT !.step = "db"]]
    /\ UNCHANGED <<source, l1, l2, known, editing, edits>>

\* The shared answer is kept in the first tier.
FillFromL2(p) ==
    /\ reader[p].step = "fill"
    /\ l1' = [l1 EXCEPT ![p][reader[p].entry] = reader[p].value]
    /\ reader' = [reader EXCEPT ![p] = IdleReader]
    /\ UNCHANGED <<source, l2, known, editing, edits>>

\* repository.resolve_prompt, resolve_binding, get_default_prompt: the
\* absence of a row is not cached.
ReadDatabase(p) ==
    LET k == reader[p].entry IN
    /\ reader[p].step = "db"
    /\ reader' = [reader EXCEPT ![p] = IF source[k] = 0 THEN IdleReader
                                          ELSE [@ EXCEPT !.step = "store", !.value = source[k]]]
    /\ UNCHANGED <<source, l1, l2, known, editing, edits>>

StoreL1(p) ==
    /\ reader[p].step = "store"
    /\ l1' = [l1 EXCEPT ![p][reader[p].entry] = reader[p].value]
    /\ reader' = [reader EXCEPT ![p].step = "share"]
    /\ UNCHANGED <<source, l2, known, editing, edits>>

\* _write_l2: setex, and only then is the key noted as known.
ShareL2(p, up) ==
    LET k == reader[p].entry IN
    /\ reader[p].step = "share"
    /\ l2' = IF up THEN [l2 EXCEPT ![k] = reader[p].value] ELSE l2
    /\ reader' = [reader EXCEPT ![p] = IF up THEN [@ EXCEPT !.step = "note"] ELSE IdleReader]
    /\ UNCHANGED <<source, l1, known, editing, edits>>

NoteKey(p) ==
    /\ reader[p].step = "note"
    /\ known' = [known EXCEPT ![p] = @ \cup {reader[p].entry}]
    /\ reader' = [reader EXCEPT ![p] = IdleReader]
    /\ UNCHANGED <<source, l1, l2, editing, edits>>

ExpireL1(p, k) ==
    /\ l1[p][k] # Absent
    /\ l1' = [l1 EXCEPT ![p][k] = Absent]
    /\ UNCHANGED <<source, l2, known, reader, editing, edits>>

\* Faulty variant: written with SET instead of SETEX, the entry never expires.
UnexpiredL2(k) == l2[k]

ExpiredL2(k) == Absent

ExpireL2(k) ==
    /\ l2[k] # Absent
    /\ l2' = [l2 EXCEPT ![k] = ExpiredL2(k)]
    /\ UNCHANGED <<source, l1, known, reader, editing, edits>>

-----------------------------------------------------------------------------
(* Edits: the row is written, then the caches of this instance dropped *)

Edit(p, changed, removed, drops) ==
    /\ editing[p].step = "idle" /\ edits < MaxEdits
    /\ edits' = edits + 1
    /\ source' = [k \in Entries |-> IF k \in removed THEN 0
                                    ELSE IF k \in changed THEN edits + 1 ELSE source[k]]
    /\ editing' = [editing EXCEPT ![p] = [step |-> "local", drops |-> drops \cap Entries]]
    /\ UNCHANGED <<l1, l2, known, reader>>

\* The label points to another version, or goes; invalidate_template.
AssignLabel(p) == Edit(p, {"prompt"}, {}, {"prompt"})
DeleteLabel(p) == "prompt" \in Entries /\ source["prompt"] # 0 /\ Edit(p, {}, {"prompt"}, {"prompt"})

\* upsert_binding; invalidate_scope. delete_binding; invalidate_all.
UpsertBinding(p) == "binding" \in Entries /\ Edit(p, {"binding"}, {}, {"binding"})
DeleteBinding(p) ==
    "binding" \in Entries /\ source["binding"] # 0 /\ Edit(p, {}, {"binding"}, Entries)

\* The versions, labels and bindings of a template go with it; invalidate_all.
DeleteTemplate(p) ==
    (\E k \in Entries : source[k] # 0) /\ Edit(p, {}, Entries \ {"group_default"}, Entries)

\* update_route_group with another default prompt; the group's scope.
SetGroupDefault(p) ==
    "group_default" \in Entries /\ Edit(p, {"group_default"}, {}, {"binding", "group_default"})

\* First tier: dropped at once, with the list of keys to drop in the second.
\* invalidate_scope names its keys, the others use what is known.
DropLocal(p) ==
    LET d == editing[p].drops IN
    /\ editing[p].step = "local"
    /\ l1' = [l1 EXCEPT ![p] = [k \in Entries |-> IF k \in d THEN Absent ELSE @[k]]]
    /\ editing' = [editing EXCEPT ![p] =
          [step |-> "shared", drops |-> IF "prompt" \in d THEN d \cap known[p] ELSE d]]
    /\ UNCHANGED <<source, l2, known, reader, edits>>

\* _delete_l2_keys; a failing Redis is logged at debug level.
DropShared(p, up) ==
    LET d == editing[p].drops IN
    /\ editing[p].step = "shared"
    /\ l2' = IF up THEN [k \in Entries |-> IF k \in d THEN Absent ELSE l2[k]] ELSE l2
    /\ known' = IF up THEN [known EXCEPT ![p] = @ \ d] ELSE known
    /\ editing' = [editing EXCEPT ![p] = IdleEdit]
    /\ UNCHANGED <<source, l1, reader, edits>>

\* The instance restarts with an empty first tier that knows no key.
Restart(p) ==
    /\ known[p] # {} \/ reader[p] # IdleReader \/ editing[p] # IdleEdit
    /\ l1' = [l1 EXCEPT ![p] = [k \in Entries |-> Absent]]
    /\ known' = [known EXCEPT ![p] = {}]
    /\ reader' = [reader EXCEPT ![p] = IdleReader]
    /\ editing' = [editing EXCEPT ![p] = IdleEdit]
    /\ UNCHANGED <<source, l2, edits>>

ReaderStep(p) ==
    \/ FillFromL2(p) \/ ReadDatabase(p) \/ StoreL1(p) \/ NoteKey(p)
    \/ \E up \in BOOLEAN : ReadL2(p, up) \/ ShareL2(p, up)

EditorStep(p) == DropLocal(p) \/ \E up \in BOOLEAN : DropShared(p, up)

PromptNext ==
    \/ \E p \in Pods :
          \/ ReaderStep(p) \/ EditorStep(p) \/ Restart(p)
          \/ AssignLabel(p) \/ DeleteLabel(p) \/ UpsertBinding(p) \/ DeleteBinding(p)
          \/ DeleteTemplate(p) \/ SetGroupDefault(p)
          \/ \E k \in Entries : LookUp(p, k) \/ ExpireL1(p, k)
    \/ \E k \in Entries : ExpireL2(k)

\* A resolution, once started, goes on; the two tiers' times run out.
PromptFairness ==
    /\ \A p \in Pods : WF_promptVars(ReaderStep(p)) /\ WF_promptVars(EditorStep(p))
    /\ \A p \in Pods, k \in Entries : WF_promptVars(ExpireL1(p, k))
    /\ \A k \in Entries : WF_promptVars(ExpireL2(k))

PromptSpec == PromptInit /\ [][PromptNext]_promptVars /\ PromptFairness

-----------------------------------------------------------------------------
(* Whatever was read and stored in between, on whichever instance and with *)
(* whatever failures, an edit reaches everyone in the end: from some time  *)
(* on no tier holds anything but what the database holds (_resolve_prompt, *)
(* _resolve_binding, _resolve_route_group_default, invalidate_scope).      *)
EditsReachEveryone ==
    <>[](\A k \in Entries :
            /\ l2[k] \in {Absent, source[k]}
            /\ \A p \in Pods : l1[p][k] \in {Absent, source[k]})
=============================================================================
