---------------------------- MODULE AccountPage ----------------------------
(***************************************************************************)
(* The page of the portal's accounts (portal-user-manager.tsx).  Who does    *)
(* not administer everything gives nobody a permission of which he has none. *)
(* The cookie that describes the user of the browser is written again when   *)
(* the account it describes is saved on this page.                           *)
(***************************************************************************)
EXTENDS PageTasks

CONSTANTS
    Permissions,    \* what an account can be permitted
    Limited         \* the permissions of a user who does not administer everything

Self == 1           \* the account of the browser's user

RolePermissions == [viewer |-> {1}, tenant_admin |-> Permissions]

Allowed == IF screen.super THEN Permissions ELSE Limited

ClampPermissionsToScope(perms) == perms \cap Permissions \cap Allowed

(* A role that is not in the list of those to give has the viewer's.         *)
GetDefaultPermissionsForRole(role) ==
    RolePermissions[IF role \in DOMAIN RolePermissions THEN role ELSE "viewer"]

DefaultsOf(role) == ClampPermissionsToScope(GetDefaultPermissionsForRole(role))

AccountPageMounted(super) ==
    Rendered([users |-> ListAsk("account", All, All, Nothing, 1), tenants |-> NoAsk])
    @@ [kind |-> "users", page |-> 1, search |-> Nothing, super |-> super,
        acting |-> [saving |-> NotActing, resetting |-> NotActing, deletingId |-> NotActing],
        dialog |-> NoDialog, cookie |-> RowOf(tables, Row("read", "account", Self))]

LoadTenantOptions == Fetch("fetchOptions", <<[op |-> "options"]>>, <<"tenants">>, "tenantLoading")

FetchUsers(page, search) ==
    Fetch("fetchUsers", <<ListAsk("account", All, All, search, page)>>, <<"users">>, "loading")

(* updatePortalUserCookie: after the list was fetched again, or was not.     *)
WithCookie(pg, rows) ==
    IF \E r \in rows : r.id = Self THEN [pg EXCEPT !.cookie = CHOOSE r \in rows : r.id = Self] ELSE pg

UsersFetched(pg, c, got, rest) ==
    LET shown == IF Fine(got) THEN [ShowIn(pg, "users", got[1]) EXCEPT !.page = got[1].page] ELSE pg IN
    Go(WithCookie(Settled(shown, c), c.arg), rest)

UserDoes(pg, jobs) == Perform(pg, jobs, NoEffects)

-----------------------------------------------------------------------------
SearchUsers(s) ==
    /\ AtRest("users") /\ "loading" \notin screen.busy
    /\ UserDoes([screen EXCEPT !.search = s], <<Job(<<FetchUsers(1, s)>>, "")>>)

GoToUsers(p) ==
    /\ AtRest("users") /\ "loading" \notin screen.busy
    /\ p \in {screen.page - 1, screen.page + 1} /\ p \in 1..LastPage(screen.cells.users.total)
    /\ UserDoes(screen, <<Job(<<FetchUsers(p, screen.search)>>, "")>>)

ResetFormState == [role |-> "viewer", perms |-> DefaultsOf("viewer"), tenants |-> {}, text |-> 2]

OpenCreateUser ==
    /\ AtRest("users")
    /\ UserDoes([screen EXCEPT !.dialog = Dialog("user", Nothing, ResetFormState)], <<>>)

OpenEditUser(u) ==
    LET perms == IF u.perms \cap Permissions # {} THEN ClampPermissionsToScope(u.perms) ELSE DefaultsOf(u.role) IN
    /\ AtRest("users")
    /\ UserDoes([screen EXCEPT !.dialog = Dialog("user", u.id,
           [role |-> u.role, perms |-> perms, tenants |-> u.tenants, text |-> 2])], <<>>)

Toggle(set, x) == IF x \in set THEN set \ {x} ELSE set \cup {x}

Form(f) == UserDoes([screen EXCEPT !.dialog.form = f], <<>>)

InUserForm == screen.kind = "users" /\ screen.dialog.open = "user"

HandlePermissionToggle(p) ==
    LET f == screen.dialog.form IN
    InUserForm /\ p \in Allowed /\ Form([f EXCEPT !.perms = ClampPermissionsToScope(Toggle(f.perms, p))])

HandleTenantToggle(t) ==
    LET f == screen.dialog.form IN InUserForm /\ Form([f EXCEPT !.tenants = Toggle(f.tenants, t)])

(* A role brings its permissions to a new account, and none to an old one.   *)
HandleRoleSelect(role) ==
    LET f == screen.dialog.form IN
    /\ InUserForm /\ role # f.role
    /\ Form([f EXCEPT !.role = role,
             !.perms = IF screen.dialog.target = Nothing THEN DefaultsOf(role) ELSE ClampPermissionsToScope(f.perms)])

ApplyRoleDefaults ==
    LET f == screen.dialog.form IN
    InUserForm /\ Does("saving", NotActing) /\ Form([f EXCEPT !.perms = DefaultsOf(f.role)])

CloseUserDialog ==
    /\ screen.kind = "users" /\ screen.dialog.open # "none"
    /\ UserDoes([screen EXCEPT !.dialog = NoDialog], <<>>)

(* An administrator of a tenant is of one, and who is one gives one.         *)
TenantsGiven(f) == f.tenants # {} \/ (screen.super /\ f.role # "tenant_admin")

HandleUserSubmit ==
    LET d == screen.dialog f == d.form IN
    /\ InUserForm /\ Does("saving", NotActing) /\ TenantsGiven(f)
    /\ UserDoes([screen EXCEPT !.acting.saving = <<"save">>],
          <<Job(<<Mutate("saveUser", ToSave("account", d.target, [f EXCEPT !.perms = ClampPermissionsToScope(@)])),
                  FetchUsers(IF d.target = Nothing THEN 1 ELSE screen.page, screen.search)>>, "saving")>>)

UserSaved(pg, c, got, rest) ==
    LET saved == IF c.asks[1].op = "update" THEN {got[1].row} ELSE {} IN
    IF Fine(got) THEN Go([pg EXCEPT !.dialog = NoDialog], <<[Head(rest) EXCEPT !.arg = saved]>>) ELSE Go(pg, <<>>)

OpenPasswordDialog(u) ==
    AtRest("users") /\ UserDoes([screen EXCEPT !.dialog = Dialog("password", u.id, <<>>)], <<>>)

HandleResetPassword ==
    /\ screen.kind = "users" /\ screen.dialog.open = "password" /\ Does("resetting", NotActing)
    /\ UserDoes([screen EXCEPT !.acting.resetting = <<"reset">>],
          <<Job(<<Mutate("resetPassword", Change("account", screen.dialog.target, <<>>))>>, "resetting")>>)

PasswordReset(pg, got) ==
    IF Fine(got) THEN Go(WithCookie([pg EXCEPT !.dialog = NoDialog], {got[1].row}), <<>>) ELSE Go(pg, <<>>)

(* The page before is fetched when the last row of a page goes.              *)
HandleDeleteUser(u) ==
    LET last == Cardinality(screen.cells.users.items) = 1 /\ screen.page > 1 IN
    /\ AtRest("users") /\ ~Does("deletingId", <<u.id>>)
    /\ UserDoes([screen EXCEPT !.acting.deletingId = <<u.id>>],
          <<Job(<<Mutate("delete", Row("delete", "account", u.id)),
                  FetchUsers(IF last THEN screen.page - 1 ELSE screen.page, screen.search)>>, "deletingId")>>)

AccountPageNext ==
    \/ \E s \in {Nothing, 1} : SearchUsers(s)
    \/ \E p \in 1..3 : GoToUsers(p)
    \/ \E u \in screen.cells.users.items : OpenEditUser(u) \/ OpenPasswordDialog(u) \/ HandleDeleteUser(u)
    \/ \E p \in Permissions : HandlePermissionToggle(p)
    \/ \E role \in DOMAIN RolePermissions : HandleRoleSelect(role)
    \/ OpenCreateUser \/ HandleTenantToggle(1) \/ ApplyRoleDefaults \/ CloseUserDialog
    \/ HandleUserSubmit \/ HandleResetPassword
=============================================================================
