------------------------------- MODULE MCGate -------------------------------
(***************************************************************************)
(* Gate with two firms, three accounts and three requests at the same time. *)
(***************************************************************************)
EXTENDS GateInductive, TLC

CONSTANTS ann, bob, eve, t1, t2, j1, j2, j3

Ask(name, token) ==
    [route |-> CHOOSE r \in Routes : r.name = name, token |-> token, target |-> Nil,
     tenant |-> Nil, module |-> Nil, role |-> Nil, password |-> Nil, newRole |-> Nil,
     isActive |-> Nil, fullName |-> FALSE]
By(u, t) == [sub |-> u, tenant |-> t]
About(name, token, u) == [Ask(name, token) EXCEPT !.target = u]
Sets(t, u, role, isActive) ==
    [About("updateUser", By(ann, t), u) EXCEPT !.newRole = role, !.isActive = isActive]
Roles(name, t, u) ==
    [About(name, By(ann, t), u) EXCEPT !.module = "crm", !.role = "crm:agent"]

Reset == About("resetPassword", By(ann, t1), bob)
Opens == Sets(t2, bob, Nil, TRUE)
Closes == Sets(t1, bob, Nil, FALSE)
Renames == [About("updateUser", By(ann, t2), bob) EXCEPT !.fullName = TRUE]
LogsIn == [About("login", Nil, bob) EXCEPT !.tenant = Nil]
Switches == [Ask("switchTenant", By(bob, Nil)) EXCEPT !.tenant = t2]
Works == Ask("updateDeal", By(bob, t1))

(* ann owns both firms; bob works for the first one and may have been      *)
(* asked out of the second, where a role of his is left; eve has no access.*)
MCScenarios ==
    { j1 :> x[1] @@ j2 :> x[2] @@ j3 :> x[3] :
        x \in { <<Reset, Opens, LogsIn>>, <<Reset, Renames, Opens>>, <<Opens, LogsIn, Closes>>,
                <<Works, Closes, Roles("revokeModuleRole", t1, bob)>>,
                <<Roles("assignModuleRole", t2, bob), Switches, Opens>>,
                <<Ask("createDeal", By(bob, t2)), Opens, Sets(t1, ann, "operator", Nil)>>,
                <<Roles("assignModuleRole", t1, eve), About("listModuleRoles", By(ann, t1), bob),
                  Sets(t1, bob, "owner", Nil)>>,
                <<Sets(t1, ann, Nil, FALSE), Sets(t1, bob, "owner", Nil),
                  About("updateUser", By(bob, t1), eve)>>,
                <<Ask("findUsers", By(bob, t1)), Ask("issueInvoice", By(bob, t1)),
                  Ask("me", By(bob, Nil))>>,
                <<Sets(t1, bob, "admin", Nil), Ask("findUser", By(bob, t1)),
                  Ask("getHello", Nil)>>,
                <<[Sets(t1, bob, "owner", Nil) EXCEPT !.token = By(bob, t1)],
                  Sets(t1, bob, "admin", Nil), Ask("me", By(bob, t1))>> } }

Owner == [role |-> "owner", isActive |-> TRUE]
Operator(isActive) == [role |-> "operator", isActive |-> isActive]
MCWorlds ==
    { [access |-> ann :> (t1 :> Owner @@ t2 :> Owner)
                  @@ bob :> (t1 :> Operator(TRUE) @@ t2 :> Operator(FALSE))
                  @@ eve :> (t1 :> NoRow @@ t2 :> NoRow),
       moduleRoles |-> {<<bob, t1, "crm", "crm:agent">>, <<bob, t2, "crm", "crm:agent">>,
                        <<bob, t1, "invoicing", "invoicing:issuer">>},
       entitlement |-> [t \in {t1, t2} |-> [m \in ModuleCode |->
                          IF m = "crm" THEN "trial" ELSE "past_due"]],
       tokens |-> {By(ann, t1), By(ann, t2), By(bob, t1), By(bob, t2), By(bob, Nil)}] }

MCChanges == {<<"status", t1, "invoicing", "active">>, <<"trial", t1, "crm">>,
              <<"disable", bob>>, <<"expire", By(bob, t1)>>}
=============================================================================
