------------------------------- MODULE MCCrm -------------------------------
(***************************************************************************)
(* Crm with a handful of rows: each behaviour uses one of seven sets of    *)
(* rows, chosen so that every link, code, member set and foreign key meets  *)
(* the requests that could break it.                                       *)
(***************************************************************************)
EXTENDS CrmInductive, TLC

CONSTANTS c1, c2, c3, p1, k1, d1, d2, s1, m1, v1, j1, j2, u1, u2, t1, t2, n1, n2

MCId == {c1, c2, c3, p1, k1, d1, d2, s1, m1, v1}
MCKindOf == [i \in MCId |-> CASE i \in {c1, c2, c3} -> "company"
                              [] i = p1 -> "product"
                              [] i = k1 -> "contact"
                              [] i \in {d1, d2} -> "deal"
                              [] i = s1 -> "task"
                              [] i = m1 -> "note"
                              [] i = v1 -> "invoice"]
MCCasts == { {c1, k1, d1}, {k1, d1, s1, u2}, {c1, c2}, {c2, p1, v1}, {c1, m1, u2},
             {c2, d1, d2, v1}, {c3} }
MCJob == {j1, j2}

Ask(op, k, t, target, links, team, tax, vat, year, columns) ==
    [op |-> op, kind |-> k, tenant |-> t, target |-> target,
     links |-> [l \in Kind |-> IF l \in DOMAIN links THEN links[l]
                               ELSE IF op = "create" THEN Nil ELSE Keep],
     team |-> team, tax |-> tax, vat |-> vat, year |-> year, columns |-> columns]
None == [x \in {} |-> Nil]
Creates(k, links) == Ask("create", k, t1, Nil, links, Keep, Keep, Keep,
                         IF k = "deal" THEN 2026 ELSE Nil, TRUE)
Staffs(k, links, team) == Ask("create", k, t1, Nil, links, team, Keep, Keep, Nil, TRUE)
Updates(k, i, links) == Ask("update", k, t1, i, links, Keep, Keep, Keep, Nil, TRUE)
Restaffs(k, i, team) == Ask("update", k, t1, i, None, team, Keep, Keep, Nil, TRUE)
Reassigns(k, i, team) == Ask("update", k, t1, i, None, team, Keep, Keep, Nil, FALSE)
SetsTax(i, tax, vat) == Ask("update", "company", t1, i, None, Keep, tax, vat, Nil, TRUE)
Removes(t, i) == Ask("remove", MCKindOf[i], t, i, None, Keep, Keep, Keep, Nil, TRUE)

(* One firm's requests ..                                                  *)
Own ==
    { Creates("company", None), Creates("product", None),
      Creates("contact", "company" :> c1), Creates("contact", None),
      Creates("deal", "contact" :> k1 @@ "company" :> c1), Creates("deal", "invoice" :> v1),
      Creates("deal", "contact" :> k1), Creates("task", "deal" :> d1), Staffs("task", "contact" :> k1, {u1}),
      Staffs("note", "company" :> c1, {u2}),
      Ask("create", "company", t1, Nil, None, {u2}, n1, Keep, Nil, TRUE),
      Updates("contact", k1, "company" :> Nil), Updates("deal", d1, "contact" :> k1),
      Updates("deal", d2, "company" :> c2), Updates("product", p1, None),
      Updates("task", s1, "company" :> c1 @@ "contact" :> Nil),
      Reassigns("company", c1, {u1}), Restaffs("company", c1, {}),
      Restaffs("note", m1, {u1}), Restaffs("note", m1, {u2}), Reassigns("note", m1, {u2}),
      SetsTax(c3, n1, Keep), SetsTax(c3, n2, Keep), SetsTax(c3, n2, TRUE),
      SetsTax(c3, Nil, Keep), SetsTax(c3, "malformed", Keep) }
    \cup {Removes(t1, i) : i \in {c1, c2, p1, k1, d1, s1, m1}}

(* .. and another firm's, which name the first one's rows.                 *)
Foreign ==
    { [Creates("company", None) EXCEPT !.tenant = t2],
      [Creates("contact", "company" :> c1) EXCEPT !.tenant = t2],
      [Updates("deal", d2, "company" :> c2) EXCEPT !.tenant = t2],
      Removes(t2, c1) }

MCRequests == Own \cup Foreign
MCSymmetry == Permutations(MCJob)
MCAccesses == {u1 :> (t1 :> "active" @@ t2 :> "none") @@ u2 :> (t1 :> "none" @@ t2 :> "active")}
MCChanging == {<<u2, t1>>}
=============================================================================
