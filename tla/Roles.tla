-------------------------------- MODULE Roles -------------------------------
(***************************************************************************)
(* Roles, permissions and inheritance (server/src/rbac.rs,                 *)
(* api/rbac_admin.rs, the role handlers of api/admin.rs and their          *)
(* queries).                                                               *)
(*                                                                         *)
(* Every decision is taken from a cached copy of the role tables, rebuilt  *)
(* after each edit: rebuilding reads the tables and stores the copy in two *)
(* steps.  The inheritance handler checks for a cycle on what it read      *)
(* before it writes.  Each editor (Desks) has one request in progress.     *)
(***************************************************************************)
EXTENDS Integers, FiniteSets, FiniteSetsExt

CONSTANTS
    Staff,          \* users
    FirstStaff,     \* those that hold the administrator role at first
    TierRoles,      \* the system roles a tier names
    CustomRoles,
    AdminRole, GuestRole,
    Desks,          \* requests in progress at once
    MaxEdits        \* bound: requests made

ASSUME RolesAssumption ==
    /\ AdminRole \in TierRoles /\ GuestRole \in TierRoles \ {AdminRole}
    /\ FirstStaff \subseteq Staff

VARIABLES
    tables,     \* roles, role_permissions, role_inheritance
    graph,      \* rbac_graph, the cached copy
    held,       \* user_roles
    active,     \* users.is_active
    desk,       \* the rest of each desk's request
    edits,
    editsOverlapped  \* whether two requests were ever in progress at once

rolesVars == <<tables, graph, held, active, desk, edits, editsOverlapped>>

AllRoles == TierRoles \cup CustomRoles
Keys == {"admin.access", "users.manage"}
Levels == {1, 2}
Idle == [do |-> "idle"]

RolesInit ==
    /\ tables = [live |-> TierRoles,
                 level |-> [r \in AllRoles |-> IF r = AdminRole THEN 2 ELSE IF r = GuestRole THEN 0 ELSE 1],
                 perms |-> [r \in AllRoles |-> IF r = AdminRole THEN Keys ELSE {}],
                 parents |-> [r \in AllRoles |-> {}]]
    /\ graph = tables
    /\ held = [u \in Staff |-> IF u \in FirstStaff THEN {AdminRole} ELSE {GuestRole}]
    /\ active = [u \in Staff |-> TRUE]
    /\ desk = [d \in Desks |-> Idle] /\ edits = 0 /\ editsOverlapped = FALSE

-----------------------------------------------------------------------------
(* rbac.rs, over a copy g of the tables. *)

\* Every role reachable from the given ones: those in each set that holds them and, with a role, its parents.
closure(g, roles) ==
    {r \in AllRoles : \A S \in SUBSET AllRoles :
        roles \subseteq S /\ (\A q \in S : g.parents[q] \subseteq S) => r \in S}
effective_permissions(g, roles) == UNION {g.perms[r] : r \in closure(g, roles)}
has_permission(g, roles, key) == key \in effective_permissions(g, roles)
has_cycle(g) == \E r \in g.live : r \in closure(g, g.parents[r])

user_has_permission(u, key) == has_permission(graph, held[u], key)
AdminUser(u) == active[u] /\ user_has_permission(u, "admin.access")
admins_now == {u \in Staff : active[u] /\ has_permission(graph, held[u], "admin.access")}

-----------------------------------------------------------------------------
(* A request arrives when its desk is free and an administrator makes it;   *)
(* one whose first check fails leaves nothing behind and is left out.       *)

RoleRequest(d) ==
    /\ desk[d] = Idle /\ edits < MaxEdits /\ edits' = edits + 1
    /\ \E u \in Staff : AdminUser(u)
    /\ editsOverlapped' = (editsOverlapped \/ \E e \in Desks \ {d} : desk[e] # Idle)
\* An edit of the tables, after which the desk has the copy to rebuild.
Edit(d, t) ==
    /\ tables' = t
    /\ desk' = [desk EXCEPT ![d] = [do |-> "load"]]
    /\ UNCHANGED <<graph, held, active>>

\* reload_rbac: the tables are read, then the copy is replaced; the read may fail.
RoleGraph_load(d) ==
    /\ desk[d].do = "load"
    /\ desk' = [desk EXCEPT ![d] = [do |-> "store", graph |-> tables]]
    /\ UNCHANGED <<tables, graph, held, active, edits, editsOverlapped>>
NothingStored(d) == graph
reload_rbac(d) == desk[d].graph
Stores(d) ==
    /\ desk[d].do = "store"
    /\ graph' = reload_rbac(d)
    /\ desk' = [desk EXCEPT ![d] = Idle]
    /\ UNCHANGED <<tables, held, active, edits, editsOverlapped>>

\* The queries: what each makes of the tables, or of who holds what.
get_role(r) == r \in tables.live
db_create_role(r, l) == [tables EXCEPT !.live = @ \cup {r}, !.level[r] = l]
db_update_role(r, l) == [tables EXCEPT !.level[r] = l]
\* Grants, edges and assignments cascade.
db_delete_role(r) ==
    [tables EXCEPT !.live = @ \ {r}, !.perms[r] = {},
                   !.parents = [q \in AllRoles |-> IF q = r THEN {} ELSE @[q] \ {r}]]
db_set_role_permissions(r, keys) == [tables EXCEPT !.perms[r] = keys]
db_set_role_inheritance(r, parents) == [tables EXCEPT !.parents[r] = parents]
db_assign_user_role(u, r) == [held EXCEPT ![u] = @ \cup {r}]
db_unassign_user_role(u, r) == [held EXCEPT ![u] = @ \ {r}]
rbac_snapshot == tables

\* The unique name refuses a second role of the same name.
create_role(d, r, l) ==
    /\ RoleRequest(d) /\ r \in CustomRoles /\ ~ get_role(r)
    /\ Edit(d, db_create_role(r, l))
\* The level of a system role stays what it is.
update_role(d, r, l) ==
    /\ RoleRequest(d) /\ get_role(r) /\ (r \in TierRoles => l = tables.level[r])
    /\ Edit(d, db_update_role(r, l))
delete_role(d, r) ==
    /\ RoleRequest(d) /\ get_role(r) /\ r \in CustomRoles
    /\ tables' = db_delete_role(r)
    /\ held' = [u \in Staff |-> held[u] \ {r}]
    /\ desk' = [desk EXCEPT ![d] = [do |-> "load"]]
    /\ UNCHANGED <<graph, active>>
set_role_permissions(d, r, keys) ==
    /\ RoleRequest(d) /\ get_role(r)
    /\ Edit(d, db_set_role_permissions(r, keys))

\* set_role_inheritance: the candidate is built from the snapshot, then written.
inheritance_allowed(t, r, parents) ==
    /\ r \in t.live /\ r \notin parents /\ parents \subseteq t.live
    /\ ~ has_cycle([t EXCEPT !.parents[r] = parents])
set_role_inheritance(d, r, parents) ==
    /\ RoleRequest(d) /\ inheritance_allowed(rbac_snapshot, r, parents)
    /\ desk' = [desk EXCEPT ![d] = [do |-> "inherit", role |-> r, parents |-> parents]]
    /\ UNCHANGED <<tables, graph, held, active>>
\* A role that is gone by now fails the foreign key.
writes_inheritance(d) ==
    /\ desk[d].do = "inherit"
    /\ IF desk[d].role \in tables.live /\ desk[d].parents \subseteq tables.live
       THEN Edit(d, db_set_role_inheritance(desk[d].role, desk[d].parents))
       ELSE desk' = [desk EXCEPT ![d] = Idle] /\ UNCHANGED <<tables, graph, held, active>>
    /\ UNCHANGED <<edits, editsOverlapped>>

-----------------------------------------------------------------------------
(* Who holds what. *)

assign_user_role(d, u, r) ==
    /\ RoleRequest(d) /\ get_role(r)
    /\ held' = db_assign_user_role(u, r)
    /\ UNCHANGED <<tables, graph, active, desk>>
unassign_allowed(u, r) ==
    user_has_permission(u, "admin.access") /\ ~ has_permission(graph, held[u] \ {r}, "admin.access")
        => Cardinality(admins_now) > 1
unassign_user_role(d, u, r) ==
    /\ RoleRequest(d) /\ r \in held[u] /\ unassign_allowed(u, r)
    /\ desk' = [desk EXCEPT ![d] = [do |-> "unassign", user |-> u, role |-> r]]
    /\ UNCHANGED <<tables, graph, held, active>>
unassigns(d) ==
    /\ desk[d].do = "unassign"
    /\ held' = db_unassign_user_role(desk[d].user, desk[d].role)
    /\ desk' = [desk EXCEPT ![d] = Idle]
    /\ UNCHANGED <<tables, graph, active, edits, editsOverlapped>>

\* set_user_primary_role: one tier in place of every tier, other roles kept.
set_user_primary_role(roles, tier) == (roles \ TierRoles) \cup {tier}
update_user_role(d, u, tier) ==
    /\ RoleRequest(d) /\ tier \in TierRoles
    /\ held' = [held EXCEPT ![u] = set_user_primary_role(@, tier)]
    /\ UNCHANGED <<tables, graph, active, desk>>
\* activate_user and deactivate_user.
SetsActive(d, u, on) ==
    /\ RoleRequest(d) /\ active' = [active EXCEPT ![u] = on]
    /\ UNCHANGED <<tables, graph, held, desk>>

RolesNext ==
    \E d \in Desks :
      \/ \E r \in AllRoles :
           \/ \E l \in Levels : create_role(d, r, l) \/ update_role(d, r, l)
           \/ delete_role(d, r)
           \/ \E keys \in SUBSET Keys : set_role_permissions(d, r, keys)
           \/ \E parents \in SUBSET AllRoles : set_role_inheritance(d, r, parents)
           \/ \E u \in Staff : assign_user_role(d, u, r) \/ unassign_user_role(d, u, r) \/ update_user_role(d, u, r)
      \/ \E u \in Staff, on \in BOOLEAN : SetsActive(d, u, on)
      \/ RoleGraph_load(d) \/ Stores(d) \/ writes_inheritance(d) \/ unassigns(d)

RolesSpec == RolesInit /\ [][RolesNext]_rolesVars

-----------------------------------------------------------------------------
AtRest == \A d \in Desks : desk[d] = Idle

(* Once every edit has been answered, permissions are decided from the      *)
(* tables as they are: each edit, the ones that cascade included, rebuilds  *)
(* the copy.  Two edits that overlap may store the older copy last.         *)
DecidedFromTheTables == AtRest /\ ~ editsOverlapped => graph = tables

(* No sequence of inheritance changes, made one at a time, ties a role to   *)
(* itself through others.                                                   *)
InheritanceIsAcyclic == ~ editsOverlapped => ~ has_cycle(tables)

(* Taking a role away never takes the last administrator, through           *)
(* inheritance or otherwise.                                                *)
UnassignLeavesAnAdmin ==
    [][\A d \in Desks : desk[d].do = "unassign" /\ desk'[d].do = "idle" /\ ~ editsOverlapped
          => \E u \in Staff : active'[u] /\ has_permission(graph', held'[u], "admin.access")]_rolesVars

(* Who may do what stays well defined while staff edit roles: decided from  *)
(* the tables, over a hierarchy without loops, with somebody left to edit.  *)
RolesStaySound ==
    [][DecidedFromTheTables' /\ InheritanceIsAcyclic']_rolesVars /\ UnassignLeavesAnAdmin
=============================================================================
