---------------------------- MODULE Memberships ----------------------------
(***************************************************************************)
(* Who belongs to what: the membership rows of one account, written by the *)
(* organization, team, rbac, key and provisioning endpoints and by the SSO *)
(* login. No foreign key ties a team membership to the membership in the   *)
(* team's organization: the endpoints check and delete, statement by       *)
(* statement, and most of them outside a transaction.                      *)
(***************************************************************************)
EXTENDS Integers, Sequences, FiniteSets

CONSTANTS
    Staff,          \* admin requests and logins in flight
    Orgs,           \* organizations
    MaxRows,        \* bound on the organization membership rows ever inserted
    SelfServiceKeys \* max_keys_per_user of the team

VARIABLES
    account,        \* the account row exists
    team,           \* organization of the team; NoTeam before and after it
    orgRow,         \* id of the membership row in each organization, 0 if none
    lastRow,        \* last membership id given out
    teamMember,     \* the team membership row exists
    keys,           \* keys of the team owned by the account
    request,        \* the requests
    excused         \* history: an addition overlapped a removal, an SSO login
                    \* stopped half way, or the team was moved

memberVars == <<account, team, orgRow, lastRow, teamMember, keys, request, excused>>

NoTeam == "no team"
IdleRequest == [op |-> "none", rest |-> <<>>, org |-> NoTeam, row |-> 0]
Idle(s) == request[s] = IdleRequest
Doing(ops) == {s \in Staff : request[s].op \in ops}

MemberTypeOK ==
    /\ {account, teamMember, excused} \subseteq BOOLEAN
    /\ team \in Orgs \cup {NoTeam}
    /\ orgRow \in [Orgs -> 0..MaxRows] /\ lastRow \in 0..MaxRows
    /\ keys \in 0..(SelfServiceKeys + Cardinality(Staff))
    /\ \A s \in Staff : request[s].row \in 0..MaxRows

MemberInit ==
    /\ account = FALSE /\ team = NoTeam
    /\ orgRow = [o \in Orgs |-> 0] /\ lastRow = 0
    /\ teamMember = FALSE /\ keys = 0
    /\ request = [s \in Staff |-> IdleRequest]
    /\ excused = FALSE

Starts(s, op, rest, o, row) ==
    request' = [request EXCEPT ![s] = [op |-> op, rest |-> rest, org |-> o, row |-> row]]
Continues(s) ==
    request' = [request EXCEPT ![s] = IF Len(request[s].rest) = 1 THEN IdleRequest
                                      ELSE [request[s] EXCEPT !.rest = Tail(request[s].rest)]]
NextStatement(s, name) == ~Idle(s) /\ Head(request[s].rest) = name

\* Removals and additions that may overtake one another.
Removals == {"remove", "deleteAccount", "deleteTeam"}
Additions == {"add", "sso"}

-----------------------------------------------------------------------------
(* Accounts, teams and organizations *)

\* upsert_rbac_account, ensure_account
UpsertAccount ==
    /\ ~account /\ account' = TRUE
    /\ UNCHANGED <<team, orgRow, lastRow, teamMember, keys, request, excused>>

\* provision_person and the acceptance of an invitation write the account
\* and its memberships in one transaction.
Provision ==
    /\ ~account /\ team # NoTeam /\ lastRow < MaxRows
    /\ account' = TRUE /\ teamMember' = TRUE
    /\ orgRow' = [orgRow EXCEPT ![team] = lastRow + 1] /\ lastRow' = lastRow + 1
    /\ excused' = (excused \/ Doing(Removals) # {})
    /\ UNCHANGED <<team, keys, request>>

CreateTeam(o) ==
    /\ team = NoTeam /\ team' = o
    /\ UNCHANGED <<account, orgRow, lastRow, teamMember, keys, request, excused>>

\* update_team with another organization: the members stay.
UpdateTeam(o) ==
    /\ team \notin {NoTeam, o} /\ team' = o
    /\ excused' = TRUE
    /\ UNCHANGED <<account, orgRow, lastRow, teamMember, keys, request>>

\* add_organization_member, upsert_org_membership: an upsert.
AddOrganizationMember(o) ==
    /\ account
    /\ orgRow[o] = 0 /\ lastRow < MaxRows
    /\ orgRow' = [orgRow EXCEPT ![o] = lastRow + 1] /\ lastRow' = lastRow + 1
    /\ UNCHANGED <<account, team, teamMember, keys, request, excused>>

-----------------------------------------------------------------------------
(* Team membership *)

\* add_team_member, upsert_team_membership: account, team and organization
\* membership are checked, and the row inserted afterwards.
AddTeamMember(s) ==
    /\ Idle(s) /\ account /\ team # NoTeam /\ orgRow[team] # 0
    /\ Starts(s, "add", <<"insertMember">>, team, 0)
    /\ excused' = (excused \/ Doing(Removals) # {})
    /\ UNCHANGED <<account, team, orgRow, lastRow, teamMember, keys>>

\* Only the account is a foreign key: a team that is gone gets a member too.
InsertMember(s) ==
    /\ NextStatement(s, "insertMember")
    /\ teamMember' = account
    /\ Continues(s)
    /\ UNCHANGED <<account, team, orgRow, lastRow, keys, excused>>

\* upsert_sso_account, for a team that exists: no check; the team row first, then the organization's.
SsoLogin(s) ==
    /\ Idle(s) /\ team # NoTeam
    /\ account' = TRUE
    /\ Starts(s, "sso", <<"insertMember", "insertOrgMember">>, NoTeam, 0)
    /\ excused' = (excused \/ Doing(Removals) # {})
    /\ UNCHANGED <<team, orgRow, lastRow, teamMember, keys>>

InsertOrgMember(s) ==
    LET add == account /\ team # NoTeam /\ orgRow[team] = 0 IN
    /\ NextStatement(s, "insertOrgMember")
    /\ add => lastRow < MaxRows
    /\ orgRow' = IF add THEN [orgRow EXCEPT ![team] = lastRow + 1] ELSE orgRow
    /\ lastRow' = IF add THEN lastRow + 1 ELSE lastRow
    /\ Continues(s)
    /\ UNCHANGED <<account, team, teamMember, keys, excused>>

\* delete_team_membership leaves the keys; remove_team_member revokes them.
RemoveTeamMember(s, revokes) ==
    /\ Idle(s) /\ teamMember
    /\ teamMember' = FALSE
    /\ IF revokes THEN Starts(s, "revoke", <<"deleteKeys">>, NoTeam, 0) ELSE UNCHANGED request
    /\ UNCHANGED <<account, team, orgRow, lastRow, keys, excused>>

DeleteKeys(s) ==
    /\ NextStatement(s, "deleteKeys")
    /\ keys' = 0
    /\ Continues(s)
    /\ UNCHANGED <<account, team, orgRow, lastRow, teamMember, excused>>

-----------------------------------------------------------------------------
(* Removal from an organization, deletion of the account or the team *)

\* Faulty variant: the organization's row goes first.
OrgRowFirst == <<"deleteOrgMember", "deleteMembers">>

RemovalOrder == <<"deleteMembers", "deleteOrgMember">>

\* remove_organization_member, delete_org_membership: the row is found.
RemoveOrganizationMember(s, o) ==
    /\ Idle(s) /\ orgRow[o] # 0
    /\ Starts(s, "remove", RemovalOrder, o, orgRow[o])
    /\ excused' = (excused \/ Doing(Additions) # {})
    /\ UNCHANGED <<account, team, orgRow, lastRow, teamMember, keys>>

\* The memberships in this organization's teams; all of them for an account.
DeleteMembers(s) ==
    /\ NextStatement(s, "deleteMembers")
    /\ teamMember' = (teamMember /\ request[s].op = "remove" /\ team # request[s].org)
    /\ Continues(s)
    /\ UNCHANGED <<account, team, orgRow, lastRow, keys, excused>>

\* By row id, or all rows of the account.
DeleteOrgMember(s) ==
    /\ NextStatement(s, "deleteOrgMember")
    /\ orgRow' = [o \in Orgs |-> IF request[s].op = "deleteAccount" \/ orgRow[o] = request[s].row
                                    THEN 0 ELSE orgRow[o]]
    /\ Continues(s)
    /\ UNCHANGED <<account, team, lastRow, teamMember, keys, excused>>

DeleteRbacAccount(s) ==
    /\ Idle(s) /\ account
    /\ Starts(s, "deleteAccount", RemovalOrder \o <<"deleteAccountRow">>, NoTeam, 0)
    /\ excused' = (excused \/ Doing(Additions) # {})
    /\ UNCHANGED <<account, team, orgRow, lastRow, teamMember, keys>>

\* What was added meanwhile goes with it (CASCADE); its keys lose their owner.
DeleteAccountRow(s) ==
    /\ NextStatement(s, "deleteAccountRow")
    /\ account' = FALSE /\ teamMember' = FALSE /\ keys' = 0
    /\ orgRow' = [o \in Orgs |-> 0]
    /\ Continues(s)
    /\ UNCHANGED <<team, lastRow, excused>>

\* Refused while the team has keys; a key created afterwards loses its team.
DeleteTeam(s) ==
    /\ Idle(s) /\ team # NoTeam /\ keys = 0
    /\ Starts(s, "deleteTeam", <<"deleteMembers", "deleteTeamRow">>, NoTeam, 0)
    /\ excused' = (excused \/ Doing(Additions) # {})
    /\ UNCHANGED <<account, team, orgRow, lastRow, teamMember, keys>>

DeleteTeamRow(s) ==
    /\ NextStatement(s, "deleteTeamRow")
    /\ team' = NoTeam /\ keys' = 0
    /\ Continues(s)
    /\ UNCHANGED <<account, orgRow, lastRow, teamMember, excused>>

-----------------------------------------------------------------------------
(* Self-service keys *)

UnderKeyLimit == keys < SelfServiceKeys

\* create_key: the member's keys are counted, and the key inserted later.
CreateKey(s) ==
    /\ Idle(s) /\ account /\ teamMember /\ team # NoTeam
    /\ UnderKeyLimit
    /\ Starts(s, "mint", <<"insertKey">>, NoTeam, 0)
    /\ UNCHANGED <<account, team, orgRow, lastRow, teamMember, keys, excused>>

\* Team and owner are foreign keys.
InsertKey(s) ==
    /\ NextStatement(s, "insertKey")
    /\ keys' = IF team # NoTeam /\ account THEN keys + 1 ELSE keys
    /\ Continues(s)
    /\ UNCHANGED <<account, team, orgRow, lastRow, teamMember, excused>>

DeleteKey ==
    /\ keys > 0 /\ keys' = keys - 1
    /\ UNCHANGED <<account, team, orgRow, lastRow, teamMember, request, excused>>

\* The instance stops, or a statement raises, between two statements.
RequestFails(s) ==
    /\ ~Idle(s)
    /\ excused' = (excused \/ request[s].op = "sso")
    /\ request' = [request EXCEPT ![s] = IdleRequest]
    /\ UNCHANGED <<account, team, orgRow, lastRow, teamMember, keys>>

MemberNext ==
    \/ UpsertAccount \/ Provision \/ DeleteKey
    \/ \E o \in Orgs : CreateTeam(o) \/ UpdateTeam(o) \/ AddOrganizationMember(o)
    \/ \E s \in Staff :
          \/ AddTeamMember(s) \/ InsertMember(s) \/ SsoLogin(s) \/ InsertOrgMember(s)
          \/ DeleteKeys(s) \/ DeleteMembers(s) \/ DeleteOrgMember(s)
          \/ DeleteRbacAccount(s) \/ DeleteAccountRow(s) \/ DeleteTeam(s) \/ DeleteTeamRow(s)
          \/ CreateKey(s) \/ InsertKey(s) \/ RequestFails(s)
          \/ \E revokes \in BOOLEAN : RemoveTeamMember(s, revokes)
          \/ \E o \in Orgs : RemoveOrganizationMember(s, o)

MemberSpec == MemberInit /\ [][MemberNext]_memberVars

-----------------------------------------------------------------------------
(* A member of a team is a member of the team's organization, at every     *)
(* moment outside an SSO login and whatever removal stops half way, unless *)
(* an addition overlapped a removal, an SSO login stopped half way or the  *)
(* team was moved (add_team_member, delete_team,                           *)
(* remove_organization_member, delete_rbac_account).                       *)
MembersBelong ==
    teamMember /\ team # NoTeam /\ ~excused /\ Doing({"sso"}) = {} => orgRow[team] # 0
=============================================================================
