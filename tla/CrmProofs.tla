----------------------------- MODULE CrmProofs -----------------------------
(***************************************************************************)
(* Crm keeps its inductive invariant, for every number of rows, requests,  *)
(* users and firms.                                                        *)
(***************************************************************************)
EXTENDS CrmInductive, FiniteSetTheorems, TLAPS

-----------------------------------------------------------------------------
(* Every link, member list and tax number that a body may hold is checked  *)
(* by the handler that takes the body.                                     *)
LEMMA ChecksCover ==
    ASSUME NEW op \in {"create", "update"}, NEW k \in Kind
    PROVE  /\ \A l \in LinksOf(k) : k # "invoice" =>
                \E n \in 1 .. Len(ChecksOf(op, k)) : ChecksOf(op, k)[n] = l
           /\ k \in Staffed => \E n \in 1 .. Len(ChecksOf(op, k)) : ChecksOf(op, k)[n] = "team"
           /\ k = "company" => \E n \in 1 .. Len(ChecksOf(op, k)) : ChecksOf(op, k)[n] = "tax"
  <1>1. CASE k = "company"
    <2>1. ChecksOf(op, k) = IF op = "create" THEN <<"team", "tax">> ELSE <<"tax", "team">>
      BY <1>1 DEF ChecksOf, CompanyCreateChecks, CompanyUpdateChecks
    <2> QED BY <2>1, <1>1 DEF LinksOf, Staffed
  <1>2. CASE k = "contact"
    <2>1. ChecksOf(op, k) = <<"company">> BY <1>2 DEF ChecksOf, ContactChecks
    <2> QED BY <2>1, <1>2 DEF LinksOf, Staffed, ContactLinks
  <1>3. CASE k = "deal"
    <2>1. ChecksOf(op, k) = <<"invoice", "contact", "company">> BY <1>3 DEF ChecksOf, DealChecks
    <2> QED BY <2>1, <1>3 DEF LinksOf, Staffed, DealLinks
  <1>4. CASE k = "task"
    <2>1. ChecksOf(op, k) = <<"company", "contact", "deal", "team">>
      BY <1>4 DEF ChecksOf, TaskChecks
    <2> QED BY <2>1, <1>4 DEF LinksOf, Staffed, TaskLinks
  <1>5. CASE k = "note"
    <2>1. ChecksOf(op, k) = <<"company", "contact", "deal", "team">>
      BY <1>5 DEF ChecksOf, NoteChecks
    <2> QED BY <2>1, <1>5 DEF LinksOf, Staffed, NoteLinks
  <1>6. CASE k \in {"product", "invoice"} BY <1>6 DEF LinksOf, Staffed
  <1> QED BY <1>1, <1>2, <1>3, <1>4, <1>5, <1>6 DEF Kind

(* The checks of a handler are a short sequence.                           *)
LEMMA ChecksType ==
    ASSUME NEW op \in {"create", "update", "remove"}, NEW k \in Kind
    PROVE  /\ ChecksOf(op, k) \in Seq(Kind \cup {"team", "tax"})
           /\ Len(ChecksOf(op, k)) \in Nat
           /\ op = "remove" => Len(ChecksOf(op, k)) = 0
  <1>1. ChecksOf(op, k) \in {<<>>, <<"team", "tax">>, <<"tax", "team">>, <<"company">>,
                             <<"invoice", "contact", "company">>,
                             <<"company", "contact", "deal", "team">>}
    BY DEF ChecksOf, CompanyCreateChecks, CompanyUpdateChecks, ContactChecks, DealChecks,
           TaskChecks, NoteChecks
  <1>2. op = "remove" => ChecksOf(op, k) = <<>>
    BY DEF ChecksOf
  <1>3. \A s \in {<<>>, <<"team", "tax">>, <<"tax", "team">>, <<"company">>,
                   <<"invoice", "contact", "company">>,
                   <<"company", "contact", "deal", "team">>} :
          s \in Seq(Kind \cup {"team", "tax"})
    <2> DEFINE E == Kind \cup {"team", "tax"}
    <2>1. /\ "team" \in E /\ "tax" \in E /\ "company" \in E
          /\ "invoice" \in E /\ "contact" \in E /\ "deal" \in E
      BY DEF Kind
    <2> HIDE DEF E
    <2>2. <<>> \in Seq(E) /\ <<"company">> \in Seq(E) BY <2>1
    <2>3. <<"team", "tax">> \in Seq(E) /\ <<"tax", "team">> \in Seq(E) BY <2>1
    <2>4. <<"invoice", "contact", "company">> \in Seq(E) BY <2>1
    <2>5. <<"company", "contact", "deal", "team">> \in Seq(E) BY <2>1
    <2>6. \A s \in {<<>>, <<"team", "tax">>, <<"tax", "team">>, <<"company">>,
                      <<"invoice", "contact", "company">>,
                      <<"company", "contact", "deal", "team">>} : s \in Seq(E)
      BY <2>2, <2>3, <2>4, <2>5
    <2> QED BY <2>6 DEF E
  <1>4. \A s \in Seq(Kind \cup {"team", "tax"}) : Len(s) \in Nat
    OBVIOUS
  <1>5. op = "remove" => Len(ChecksOf(op, k)) = 0
    <2>1. Len(<<>>) = 0 OBVIOUS
    <2> QED BY <1>2, <2>1
  <1>6. ChecksOf(op, k) \in Seq(Kind \cup {"team", "tax"})
    BY <1>1, <1>3
  <1> QED BY <1>4, <1>5, <1>6

-----------------------------------------------------------------------------
(* The types of the values that writes compute.                            *)
LEMMA BusyRecord ==
    ASSUME TypeOK, NEW j \in Job, Busy(j)
    PROVE  job[j] \in BusyType
  BY DEF TypeOK, Busy, IdleType

LEMMA VatType ==
    ASSUME NEW q, q.vat = Keep \/ q.vat \in BOOLEAN, NEW old \in BOOLEAN
    PROVE  VatOf(q, old) \in BOOLEAN
  <1>1. CASE q.vat # Keep BY <1>1 DEF VatOf
  <1>2. CASE q.vat = Keep /\ q.checked
    <2>1. VatOf(q, old) = (q.tax \in VatPayers) BY <1>2, Zenon DEF VatOf
    <2>2. (q.tax \in VatPayers) \in BOOLEAN OBVIOUS
    <2> QED BY <2>1, <2>2
  <1>3. CASE q.vat = Keep /\ ~q.checked BY <1>3 DEF VatOf
  <1> QED BY <1>1, <1>2, <1>3

LEMMA UpdatedType ==
    ASSUME TypeOK, NEW j \in Job, Busy(j), NEW i \in Id, NEW team \in SUBSET User,
           job[j].tax # "malformed"
    PROVE  Updated(job[j], i, team) \in RowType
  <1> DEFINE q == job[j]
  <1>1. q \in BusyType /\ row[i] \in RowType
    BY BusyRecord DEF TypeOK
  <1>2. MergedLinks(q, i) \in [Kind -> Id \cup {Nil}]
    BY <1>1 DEF MergedLinks, Merged, BusyType, RowType
  <1>3. VatOf(q, row[i].vat) \in BOOLEAN
    <2>1. q.vat = Keep \/ q.vat \in BOOLEAN BY <1>1 DEF BusyType
    <2>2. row[i].vat \in BOOLEAN BY <1>1 DEF RowType
    <2> QED BY <2>1, <2>2, VatType
  <1>4. Merged(q.tax, row[i].tax) \in Cui \cup {Nil}
    BY <1>1 DEF Merged, BusyType, RowType
  <1>5. (IF q.tax = Keep THEN row[i].checked ELSE q.checked) \in BOOLEAN
    BY <1>1 DEF BusyType, RowType
  <1>6. (IF q.vat # Keep THEN TRUE ELSE ~q.checked /\ row[i].chosen) \in BOOLEAN
    BY Zenon
  <1>7. /\ Stored(q, i).tax \in Cui \cup {Nil} /\ Stored(q, i).vat \in BOOLEAN
        /\ Stored(q, i).checked \in BOOLEAN /\ Stored(q, i).chosen \in BOOLEAN
    BY <1>3, <1>4, <1>5, <1>6 DEF Stored
  <1>8. row[i].code \in Code /\ row[i].st \in {"unborn", "live", "gone"}
        /\ row[i].tenant \in Tenant \cup {Nil}
    BY <1>1 DEF RowType
  <1> QED BY <1>1, <1>2, <1>7, <1>8 DEF Updated, RowType

-------------------------------------------------------------------------

-----------------------------------------------------------------------------
(* Requests.  A body that a controller accepts has the shape that the      *)
(* invariant states.                                                       *)
LEMMA AcceptedBody ==
    ASSUME NEW q \in Requests
    PROVE  q \in BodyType /\ Body(q)
  <1>1. q \in BodyType /\ Accepted(q)
    BY RequestsAreAccepted DEF Accepted
  <1> SUFFICES Body(q) BY <1>1
  <1>2. q.op \in {"create", "update", "remove"} /\ q.kind \in Kind
    BY <1>1 DEF BodyType
  <1>3. Nil \notin Id /\ Keep \notin Id /\ Nil # Keep BY CrmConstants
  <1>4. CASE q.op = "remove"
    <2>1. q.kind # "invoice" /\ Links(q, "company", {Keep}) /\ NoMembers(q) /\ NoTax(q)
      BY <1>4, <1>1 DEF Accepted, RemoveParams
    <2>2. \A l \in Kind : q.links[l] = Keep
      BY <2>1 DEF Links, LinksOf
    <2> QED BY <2>1, <2>2, <1>1, <1>3, <1>4 DEF Body, Accepted, NoMembers, NoTax
  <1>5. CASE q.op = "create"
    <2>1. CASE q.kind = "company"
      <3>1. CreateCompanyDto(q) BY <2>1, <1>5, <1>1 DEF Accepted
      <3> QED BY <3>1, <2>1, <1>5, <1>3 DEF CreateCompanyDto, Links, Staffed, Body
    <2>2. CASE q.kind = "contact"
      <3>1. CreateContactDto(q) BY <2>2, <1>5, <1>1 DEF Accepted
      <3> QED BY <3>1, <2>2, <1>5, <1>3
              DEF CreateContactDto, Links, Staffed, Body, NoMembers, NoTax
    <2>3. CASE q.kind = "deal"
      <3>1. CreateDealDto(q) BY <2>3, <1>5, <1>1 DEF Accepted
      <3> QED BY <3>1, <2>3, <1>5, <1>3
              DEF CreateDealDto, Links, Staffed, Body, NoMembers, NoTax
    <2>4. CASE q.kind = "task"
      <3>1. CreateTaskDto(q) BY <2>4, <1>5, <1>1 DEF Accepted
      <3> QED BY <3>1, <2>4, <1>5, <1>3 DEF CreateTaskDto, Links, Staffed, Body, NoTax
    <2>5. CASE q.kind = "note"
      <3>1. CreateNoteDto(q) BY <2>5, <1>5, <1>1 DEF Accepted
      <3> QED BY <3>1, <2>5, <1>5, <1>3 DEF CreateNoteDto, Links, Staffed, Body, NoTax
    <2>6. CASE q.kind = "product"
      <3>1. CreateProductDto(q) BY <2>6, <1>5, <1>1 DEF Accepted
      <3> QED BY <3>1, <2>6, <1>5, <1>3
              DEF CreateProductDto, Links, Staffed, Body, NoMembers, NoTax
    <2>7. q.kind # "invoice" BY <1>5, <1>1 DEF Accepted
    <2> QED BY <1>2, <1>1, <2>1, <2>2, <2>3, <2>4, <2>5, <2>6, <2>7 DEF Kind
  <1>6. CASE q.op = "update"
    <2>0. q.target \in Id /\ (~q.columns => NoColumn(q)) BY <1>6, <1>1 DEF Accepted
    <2>1. CASE q.kind = "company"
      <3>1. UpdateCompanyDto(q) BY <2>1, <1>6, <1>1 DEF Accepted
      <3> QED BY <3>1, <2>0, <2>1, <1>6, <1>3 DEF UpdateCompanyDto, Links, Staffed, Body
    <2>2. CASE q.kind = "contact"
      <3>1. UpdateContactDto(q) BY <2>2, <1>6, <1>1 DEF Accepted
      <3> QED BY <3>1, <2>0, <2>2, <1>6, <1>3
              DEF UpdateContactDto, Links, Staffed, Body, NoMembers, NoTax
    <2>3. CASE q.kind = "deal"
      <3>1. UpdateDealDto(q) BY <2>3, <1>6, <1>1 DEF Accepted
      <3> QED BY <3>1, <2>0, <2>3, <1>6, <1>3
              DEF UpdateDealDto, Links, Staffed, Body, NoMembers, NoTax
    <2>4. CASE q.kind = "task"
      <3>1. UpdateTaskDto(q) BY <2>4, <1>6, <1>1 DEF Accepted
      <3> QED BY <3>1, <2>0, <2>4, <1>6, <1>3 DEF UpdateTaskDto, Links, Staffed, Body, NoTax
    <2>5. CASE q.kind = "note"
      <3>1. UpdateNoteDto(q) BY <2>5, <1>6, <1>1 DEF Accepted
      <3> QED BY <3>1, <2>0, <2>5, <1>6, <1>3 DEF UpdateNoteDto, Links, Staffed, Body, NoTax
    <2>6. CASE q.kind = "product"
      <3>1. UpdateProductDto(q) BY <2>6, <1>6, <1>1 DEF Accepted
      <3> QED BY <3>1, <2>0, <2>6, <1>6, <1>3
              DEF UpdateProductDto, Links, Staffed, Body, NoMembers, NoTax
    <2>7. q.kind # "invoice" BY <1>6, <1>1 DEF Accepted
    <2> QED BY <1>2, <1>1, <2>1, <2>2, <2>3, <2>4, <2>5, <2>6, <2>7 DEF Kind
  <1> QED BY <1>2, <1>4, <1>5, <1>6

-----------------------------------------------------------------------------
(* How a step changes its own request, and no other one.                   *)
SameRequest(r, q) ==
    /\ r.op = q.op /\ r.kind = q.kind /\ r.tenant = q.tenant /\ r.target = q.target
    /\ r.links = q.links /\ r.team = q.team /\ r.tax = q.tax /\ r.vat = q.vat
    /\ r.year = q.year /\ r.columns = q.columns
Others(j) ==
    /\ job' \in [Job -> IdleType \cup BusyType]
    /\ \A o \in Job \ {j} : job'[o] = job[o]
Quiet == UNCHANGED <<cast, row, nextValue, access>>

Ends(j) == Others(j) /\ job'[j].pc = "idle"

(* .. and of the replacements of members, no other one.                    *)
Swaps == [Job -> [found: SUBSET User, beside: BOOLEAN]]
KeepsSwaps(j) == swap' \in Swaps /\ \A o \in Job \ {j} : swap'[o] = swap[o]
Progresses(j) ==
    /\ Quiet /\ Others(j) /\ ~InTransaction(j)
    /\ job'[j].pc = "check" /\ WellChecked(job'[j], row, access)
    /\ \/ job'[j].code = Nil
       \/ Busy(j) /\ job'[j].code = job[j].code /\ job'[j].tenant = job[j].tenant

LEMMA BodySame ==
    ASSUME NEW q, NEW r, SameRequest(r, q), Body(q)
    PROVE  Body(r)
  BY DEF SameRequest, Body, NoColumn, NoTax

LEMMA VettedSame ==
    ASSUME NEW q, NEW r, SameRequest(r, q), NEW what, NEW rows, NEW accesses,
           VettedBy(q, what, rows, accesses)
    PROVE  VettedBy(r, what, rows, accesses)
  BY DEF SameRequest, VettedBy

(* A check that asks nothing has nothing to find.                          *)
LEMMA Unasked ==
    ASSUME NEW q, q.team \in Teams, NEW what, ~Asks(q, what), NEW rows, NEW accesses
    PROVE  VettedBy(q, what, rows, accesses)
  BY CrmConstants DEF Teams, Asks, VettedBy

LEMMA ReplyEffect ==
    ASSUME TypeOK, NEW j \in Job, NEW r \in {0, 200, 201, 400, 404, 409, 500}, Reply(j, r)
    PROVE  Ends(j)
  <1>1. Idle(r) \in IdleType BY DEF Idle, IdleType
  <1>2. job' = [job EXCEPT ![j] = Idle(r)] BY DEF Reply
  <1> QED BY <1>1, <1>2 DEF Ends, Others, TypeOK, Idle

(* The sequence of checks of a request under way.                          *)
LEMMA ChecksOfJob ==
    ASSUME TypeOK, NEW j \in Job, Busy(j)
    PROVE  /\ Len(ChecksOf(job[j].op, job[j].kind)) \in Nat
           /\ \A n \in 1 .. Len(ChecksOf(job[j].op, job[j].kind)) :
                ChecksOf(job[j].op, job[j].kind)[n] \in Kind \cup {"team", "tax"}
           /\ job[j].at \in Nat \ {0} /\ job[j].team \in Teams
  <1>1. job[j] \in BusyType BY BusyRecord
  <1>2. job[j].op \in {"create", "update", "remove"} /\ job[j].kind \in Kind
    BY <1>1 DEF BusyType
  <1>3. ChecksOf(job[j].op, job[j].kind) \in Seq(Kind \cup {"team", "tax"})
    BY <1>2, ChecksType
  <1> QED BY <1>1, <1>3 DEF BusyType

(* A check is passed.                                                      *)
LEMMA PassEffect ==
    ASSUME TypeOK, JobInv, NEW j \in Job, NEW what, Checking(j, what),
           VettedBy(job[j], what, row, access),
           NEW c \in BOOLEAN, c => job[j].tax \in Registered, Pass(j, c), Quiet
    PROVE  Progresses(j)
  <1> DEFINE q == job[j]
             all == ChecksOf(q.op, q.kind)
  <1>1. Busy(j) /\ q.pc = "check" /\ q.at <= Len(all) /\ all[q.at] = what
    BY DEF Checking, Checks
  <1>2. q \in BusyType BY <1>1, BusyRecord
  <1>3. WellChecked(q, row, access) BY <1>1 DEF JobInv
  <1>4. PICK n \in q.at + 1 .. Len(all) + 1 :
          NextCheck(q, q.at + 1, n) /\ job' = [job EXCEPT ![j].at = n, ![j].checked = c]
    BY DEF Pass, Checks
  <1>5. Len(all) \in Nat /\ q.at \in Nat \ {0} /\ q.team \in Teams
    BY <1>1, ChecksOfJob
  <1> DEFINE new == [q EXCEPT !.at = n, !.checked = c]
  <1>6. n \in Nat \ {0} /\ n > q.at /\ n <= Len(all) + 1 BY <1>4, <1>5
  <1>7. /\ new \in BusyType /\ SameRequest(new, q) /\ new.pc = "check" /\ new.at = n
        /\ new.checked = c /\ new.code = q.code
    BY <1>1, <1>2, <1>6 DEF BusyType, SameRequest
  <1>8. job' = [job EXCEPT ![j] = new] BY <1>4
  <1>9. Body(q) /\ (q.code # Nil => q.op = "create") BY <1>3 DEF WellChecked, Shape
  <1>10. \A m \in 1 .. Len(all) : m < n => VettedBy(q, all[m], row, access)
    <2> SUFFICES ASSUME NEW m \in 1 .. Len(all), m < n
                 PROVE  VettedBy(q, all[m], row, access)
      OBVIOUS
    <2>1. CASE m < q.at BY <2>1, <1>3 DEF WellChecked
    <2>2. CASE m = q.at BY <2>2, <1>1
    <2>3. CASE m > q.at
      <3>1. m \in q.at + 1 .. n - 1 BY <2>3, <1>5, <1>6
      <3>2. ~Asks(q, all[m]) BY <3>1, <1>4 DEF NextCheck
      <3> QED BY <3>2, <1>5, Unasked
    <2> QED BY <2>1, <2>2, <2>3, <1>5
  <1> HIDE DEF new
  <1>11. new.op = q.op /\ new.kind = q.kind /\ new.tenant = q.tenant /\ new.tax = q.tax
    BY <1>7 DEF SameRequest
  <1>12. Shape(new) BY <1>6, <1>7, <1>9, <1>11, BodySame DEF Shape
  <1>13. \A m \in 1 .. Len(all) : m < n => VettedBy(new, all[m], row, access)
    BY <1>7, <1>10, VettedSame
  <1>14. WellChecked(new, row, access)
    BY <1>7, <1>11, <1>12, <1>13 DEF WellChecked
  <1>15. job'[j] = new /\ Others(j) BY <1>7, <1>8 DEF TypeOK, Others
  <1>16. ~InTransaction(j) BY <1>1 DEF InTransaction
  <1> QED BY <1>1, <1>7, <1>11, <1>14, <1>15, <1>16 DEF Progresses

LEMMA StartEffect ==
    ASSUME TypeOK, NEW j \in Job, NEW q \in Requests, Start(j, q)
    PROVE  Progresses(j)
  <1> DEFINE all == ChecksOf(q.op, q.kind)
  <1>1. q \in BodyType /\ Body(q) BY AcceptedBody
  <1>2. PICK n \in 1 .. Len(all) + 1 :
          /\ NextCheck(q, 1, n)
          /\ job' = [job EXCEPT ![j] =
              [pc |-> "check", at |-> n, code |-> Nil, checked |-> FALSE,
               op |-> q.op, kind |-> q.kind, tenant |-> q.tenant, target |-> q.target,
               links |-> q.links, team |-> q.team, tax |-> q.tax, vat |-> q.vat,
               year |-> q.year, columns |-> q.columns]]
    BY DEF Start
  <1> DEFINE new == [pc |-> "check", at |-> n, code |-> Nil, checked |-> FALSE,
               op |-> q.op, kind |-> q.kind, tenant |-> q.tenant,
               target |-> q.target, links |-> q.links, team |-> q.team, tax |-> q.tax,
               vat |-> q.vat, year |-> q.year, columns |-> q.columns]
  <1>3. q.op \in {"create", "update", "remove"} /\ q.kind \in Kind /\ q.team \in Teams
    BY <1>1 DEF BodyType
  <1>4. Len(all) \in Nat BY <1>3, ChecksType
  <1>5. n \in Nat \ {0} /\ n <= Len(all) + 1 BY <1>2, <1>4
  <1>6. Nil \in Code BY DEF Code
  <1>7. /\ new \in BusyType /\ SameRequest(new, q) /\ new.pc = "check" /\ new.at = n
        /\ new.checked = FALSE /\ new.code = Nil
    BY <1>1, <1>5, <1>6 DEF BodyType, BusyType, SameRequest
  <1>8. job' = [job EXCEPT ![j] = new] BY <1>2
  <1> HIDE DEF new
  <1>9. new.op = q.op /\ new.kind = q.kind BY <1>7 DEF SameRequest
  <1>10. \A m \in 1 .. Len(all) : m < n => VettedBy(new, all[m], row, access)
    <2> SUFFICES ASSUME NEW m \in 1 .. Len(all), m < n
                 PROVE  VettedBy(new, all[m], row, access)
      OBVIOUS
    <2>1. m \in 1 .. n - 1 BY <1>4, <1>5
    <2>2. ~Asks(q, all[m]) BY <1>2, <2>1 DEF NextCheck
    <2> QED BY <1>3, <1>7, <2>2, Unasked, VettedSame
  <1>11. Shape(new) BY <1>1, <1>5, <1>7, <1>9, BodySame DEF Shape
  <1>12. WellChecked(new, row, access) BY <1>7, <1>9, <1>10, <1>11 DEF WellChecked
  <1>13. job'[j] = new /\ Others(j) BY <1>7, <1>8 DEF TypeOK, Others
  <1>14. ~Busy(j) /\ Quiet BY DEF Start, Quiet
  <1> QED BY <1>7, <1>12, <1>13, <1>14 DEF Progresses, InTransaction

LEMMA CheckLinkEffect ==
    ASSUME TypeOK, JobInv, NEW j \in Job, NEW l \in Kind, CheckLink(j, l)
    PROVE  Quiet /\ (Progresses(j) \/ Ends(j))
  <1> DEFINE q == job[j]
  <1>1. Checking(j, l) /\ Quiet BY DEF CheckLink, Quiet
  <1>2. Busy(j) /\ q \in BusyType /\ WellChecked(q, row, access)
    BY <1>1, BusyRecord DEF Checking, JobInv
  <1>3. CASE LiveOf(q.links[l], q.tenant) /\ KindOf[q.links[l]] = l
    <2>1. Pass(j, q.checked) BY <1>3 DEF CheckLink
    <2>2. VettedBy(q, l, row, access)
      BY <1>3 DEF VettedBy, LiveOf, Live, Kind
    <2>3. q.checked \in BOOLEAN BY <1>2 DEF BusyType
    <2>4. q.checked => q.tax \in Registered BY <1>2 DEF WellChecked, Shape
    <2> QED BY <1>1, <2>1, <2>2, <2>3, <2>4, PassEffect
  <1>4. CASE ~(LiveOf(q.links[l], q.tenant) /\ KindOf[q.links[l]] = l)
    <2>1. Reply(j, 400) BY <1>4 DEF CheckLink
    <2> QED BY <1>1, <2>1, ReplyEffect
  <1> QED BY <1>3, <1>4

(* As many active accesses as users means that every user has one.         *)
LEMMA AssertUsersEffect ==
    ASSUME TypeOK, JobInv, NEW j \in Job, AssertUsersBelongToTenant(j)
    PROVE  Quiet /\ (Progresses(j) \/ Ends(j))
  <1> DEFINE q == job[j]
             active == {u \in q.team : access[u][q.tenant] = "active"}
  <1>1. Checking(j, "team") /\ Quiet BY DEF AssertUsersBelongToTenant, Quiet
  <1>2. Busy(j) /\ q \in BusyType /\ WellChecked(q, row, access)
    BY <1>1, BusyRecord DEF Checking, JobInv
  <1>3. CASE Cardinality(active) = Cardinality(q.team)
    <2>1. Pass(j, q.checked) BY <1>3 DEF AssertUsersBelongToTenant
    <2>2. ASSUME q.team # Keep PROVE \A u \in q.team : access[u][q.tenant] # "none"
      <3>1. q.team \in SUBSET User BY <1>2, <2>2 DEF BusyType, Teams
      <3>2. IsFiniteSet(q.team) BY <3>1, CrmConstants, FS_Subset
      <3>3. active \in SUBSET q.team OBVIOUS
      <3>4. active = q.team BY <1>3, <3>2, <3>3, FS_Subset
      <3> QED BY <3>4
    <2>3. VettedBy(q, "team", row, access) BY <2>2 DEF VettedBy, Kind
    <2>4. q.checked \in BOOLEAN BY <1>2 DEF BusyType
    <2>5. q.checked => q.tax \in Registered BY <1>2 DEF WellChecked, Shape
    <2> QED BY <1>1, <2>1, <2>3, <2>4, <2>5, PassEffect
  <1>4. CASE Cardinality(active) # Cardinality(q.team)
    <2>1. Reply(j, 400) BY <1>4 DEF AssertUsersBelongToTenant
    <2> QED BY <1>1, <2>1, ReplyEffect
  <1> QED BY <1>3, <1>4

LEMMA ResolveTaxIdEffect ==
    ASSUME TypeOK, JobInv, NEW j \in Job, ResolveTaxId(j)
    PROVE  Quiet /\ (Progresses(j) \/ Ends(j))
  <1> DEFINE q == job[j]
  <1>1. Checking(j, "tax") /\ Quiet BY DEF ResolveTaxId, Quiet
  <1>2. PICK answer \in ValidateCui(q.tax) :
          \/ answer = "found"       /\ Pass(j, TRUE)
          \/ answer = "unavailable" /\ Pass(j, FALSE)
          \/ answer = "invalid"     /\ Reply(j, 400)
          \/ answer = "brokenBody"  /\ Reply(j, 500)
    BY DEF ResolveTaxId
  <1>3. CASE answer = "found" /\ Pass(j, TRUE)
    <2>1. q.tax \in Cui /\ q.tax \in Registered BY <1>3 DEF ValidateCui
    <2>2. VettedBy(q, "tax", row, access) BY <2>1, CrmConstants DEF VettedBy, Kind
    <2> QED BY <1>1, <1>3, <2>1, <2>2, PassEffect
  <1>4. CASE answer = "unavailable" /\ Pass(j, FALSE)
    <2>1. q.tax \in Cui BY <1>4 DEF ValidateCui
    <2>2. VettedBy(q, "tax", row, access) BY <2>1, CrmConstants DEF VettedBy, Kind
    <2> QED BY <1>1, <1>4, <2>2, PassEffect
  <1>5. CASE Reply(j, 400) \/ Reply(j, 500) BY <1>1, <1>5, ReplyEffect
  <1> QED BY <1>2, <1>3, <1>4, <1>5

-----------------------------------------------------------------------------
(* A code is allocated.                                                    *)
Numbers(j) ==
    /\ UNCHANGED <<cast, row, access>> /\ Others(j) /\ Busy(j) /\ ~InTransaction(j)
    /\ job[j].tenant \in Tenant /\ job'[j].tenant = job[j].tenant
    /\ job'[j].pc = "check" /\ WellChecked(job'[j], row, access)
    /\ \E s \in SeqName :
         /\ nextValue' = [nextValue EXCEPT ![job[j].tenant][s] = @ + 1]
         /\ job'[j].code = <<s, nextValue[job[j].tenant][s]>>

LEMMA NextFormattedEffect ==
    ASSUME TypeOK, JobInv, NEW j \in Job, NextFormatted(j)
    PROVE  Numbers(j)
  <1> DEFINE q == job[j]
             s == SeqOf(q.kind, q.year)
             t == q.tenant
  <1>1. /\ Checked(j) /\ q.op = "create" /\ q.kind \in Sequenced /\ q.code = Nil
        /\ nextValue' = [nextValue EXCEPT ![t][s] = @ + 1]
        /\ job' = [job EXCEPT ![j].code = <<s, nextValue'[t][s] - 1>>]
        /\ UNCHANGED <<cast, row, access>>
    BY DEF NextFormatted
  <1>2. Busy(j) /\ q.pc = "check" /\ q \in BusyType /\ WellChecked(q, row, access)
    BY <1>1, BusyRecord DEF Checked, JobInv
  <1>3. t \in Tenant BY <1>2 DEF BusyType
  <1>4. s \in SeqName
    <2>1. q.year \in (IF q.kind = "deal" THEN Year ELSE {Nil})
      BY <1>1, <1>2 DEF WellChecked, Shape, Body
    <2>2. CASE q.kind = "deal" BY <2>1, <2>2 DEF SeqOf, SeqName
    <2>3. CASE q.kind # "deal" BY <2>1, <2>3, <1>1 DEF SeqOf, SeqName
    <2> QED BY <2>2, <2>3
  <1> HIDE DEF s
  <1>5. nextValue[t][s] \in Nat \ {0} BY <1>3, <1>4 DEF TypeOK
  <1>6. nextValue'[t][s] = nextValue[t][s] + 1 BY <1>1, <1>3, <1>4 DEF TypeOK
  <1> DEFINE code == <<s, nextValue[t][s]>>
             new == [q EXCEPT !.code = code]
  <1>7. nextValue'[t][s] - 1 = nextValue[t][s] BY <1>5, <1>6
  <1>8. code \in Code BY <1>4, <1>5 DEF Code
  <1>9. job' = [job EXCEPT ![j] = new] BY <1>1, <1>7
  <1> HIDE DEF code
  <1>10. /\ new \in BusyType /\ SameRequest(new, q) /\ new.pc = "check"
         /\ new.at = q.at /\ new.checked = q.checked /\ new.code = code
    BY <1>2, <1>8 DEF BusyType, SameRequest
  <1> HIDE DEF new
  <1>11. new.op = q.op /\ new.kind = q.kind /\ new.tax = q.tax /\ new.tenant = q.tenant
    BY <1>10 DEF SameRequest
  <1>12. Shape(new) BY <1>1, <1>2, <1>10, <1>11, BodySame DEF WellChecked, Shape
  <1>13. WellChecked(new, row, access)
    BY <1>2, <1>10, <1>11, <1>12, VettedSame DEF WellChecked
  <1>14. job'[j] = new /\ Others(j) BY <1>9, <1>10 DEF TypeOK, Others
  <1>15. ~InTransaction(j) BY <1>2 DEF InTransaction
  <1> QED BY <1>1, <1>2, <1>3, <1>4, <1>10, <1>11, <1>13, <1>14, <1>15 DEF Numbers, code

-----------------------------------------------------------------------------
(* What a stored row must be like.                                         *)
LinksOk(r, rows) ==
    \A l \in Kind : r.links[l] # Nil =>
        /\ rows[r.links[l]].st = "live" /\ rows[r.links[l]].tenant = r.tenant
        /\ KindOf[r.links[l]] = l
TeamOk(r, accesses) == \A u \in r.team : accesses[u][r.tenant] # "none"
VatOk(r) ==
    r.checked /\ ~r.chosen => r.tax \in Registered /\ r.vat = (r.tax \in VatPayers)

LEMMA SoundRows ==
    ASSUME LinksLive, MembersOfTheFirm, VatFollowsRegistry, NEW i \in Ids, Live(i)
    PROVE  LinksOk(row[i], row) /\ TeamOk(row[i], access) /\ VatOk(row[i])
  <1>1. LinksOk(row[i], row) BY DEF LinksLive, LinksOk, Live, LiveOf
  <1>2. TeamOk(row[i], access) BY DEF MembersOfTheFirm, TeamOk
  <1>3. VatOk(row[i]) BY Zenon DEF VatFollowsRegistry, VatOk
  <1> QED BY <1>1, <1>2, <1>3

(* What the checks have established when a request writes.                 *)
LEMMA Established ==
    ASSUME TypeOK, JobInv, NEW j \in Job, Busy(j), job[j].op \in {"create", "update"},
           Checked(j) \/ job[j].pc # "check"
    PROVE  /\ \A l \in Kind : job[j].links[l] \in Id =>
                /\ row[job[j].links[l]].st # "unborn"
                /\ row[job[j].links[l]].tenant = job[j].tenant
                /\ KindOf[job[j].links[l]] = l
           /\ job[j].team # Keep =>
                \A u \in job[j].team : access[u][job[j].tenant] # "none"
           /\ job[j].tax # "malformed"
           /\ job[j].at = Len(ChecksOf(job[j].op, job[j].kind)) + 1
  <1> DEFINE q == job[j]
             all == ChecksOf(q.op, q.kind)
  <1>1. q \in BusyType /\ WellChecked(q, row, access) /\ Body(q)
    BY BusyRecord DEF JobInv, WellChecked, Shape
  <1>2. Len(all) \in Nat /\ q.at \in Nat BY ChecksOfJob
  <1>3. q.at = Len(all) + 1
    BY <1>1, <1>2 DEF Checked, Checks, WellChecked, Shape
  <1>4. \A n \in 1 .. Len(all) : VettedBy(q, all[n], row, access)
    BY <1>1, <1>2, <1>3 DEF WellChecked
  <1>5. q.kind \in Kind /\ q.kind # "invoice" BY <1>1 DEF BusyType, Body
  <1> HIDE DEF all
  <1>6. ASSUME NEW l \in Kind, q.links[l] \in Id
        PROVE  VettedBy(q, l, row, access)
    <2>1. l \in LinksOf(q.kind) BY <1>1, <1>6 DEF Body
    <2>2. PICK n \in 1 .. Len(all) : all[n] = l BY <2>1, <1>5, ChecksCover DEF all
    <2> QED BY <2>2, <1>4
  <1>7. q.team # Keep => VettedBy(q, "team", row, access)
    <2>1. q.team # Keep => q.kind \in Staffed BY <1>1 DEF Body
    <2>2. q.kind \in Staffed => \E n \in 1 .. Len(all) : all[n] = "team"
      BY <1>5, ChecksCover DEF all
    <2> QED BY <2>1, <2>2, <1>4
  <1>8. q.tax # Keep => VettedBy(q, "tax", row, access)
    <2>1. q.tax # Keep => q.kind = "company" BY <1>1 DEF Body
    <2>2. q.kind = "company" => \E n \in 1 .. Len(all) : all[n] = "tax"
      BY <1>5, ChecksCover DEF all
    <2> QED BY <2>1, <2>2, <1>4
  <1>9. q.tax # "malformed" BY <1>8, CrmConstants DEF VettedBy
  <1> QED BY <1>3, <1>6, <1>7, <1>9 DEF VettedBy, all

-----------------------------------------------------------------------------
(* A row is added.                                                         *)
Adds(i, new) ==
    /\ i \in Ids /\ row[i].st = "unborn" /\ row' = [row EXCEPT ![i] = new]
    /\ new \in RowType /\ new.st = "live" /\ new.tenant \in Tenant
    /\ LinksOk(new, row) /\ TeamOk(new, access) /\ VatOk(new)
Stores(j) ==
    /\ UNCHANGED <<cast, nextValue, access>> /\ Busy(j) /\ Ends(j) /\ ~InTransaction(j)
    /\ \E i \in Ids, new \in RowType :
         Adds(i, new) /\ new.code = job[j].code /\ new.tenant = job[j].tenant

LEMMA InsertEffect ==
    ASSUME TypeOK, JobInv, NEW j \in Job, Checked(j), job[j].op = "create",
           LinksExist(job[j]), NEW k \in Kind, NEW i \in Free(k), Insert(j, i)
    PROVE  \E new \in RowType :
             Adds(i, new) /\ new.code = job[j].code /\ new.tenant = job[j].tenant
  <1> DEFINE q == job[j]
             team == IF q.team = Keep THEN {} ELSE q.team
             tax == IF q.tax = Keep THEN Nil ELSE q.tax
             chosen == q.vat # Keep
             new == [st |-> "live", tenant |-> q.tenant, code |-> q.code, links |-> q.links,
                     team |-> team, tax |-> tax, vat |-> VatOf(q, TRUE),
                     checked |-> q.checked, chosen |-> chosen]
  <1>1. Busy(j) /\ q \in BusyType /\ WellChecked(q, row, access)
    BY BusyRecord DEF Checked, JobInv
  <1>2. /\ \A l \in Kind : q.links[l] \in Id =>
             row[q.links[l]].tenant = q.tenant /\ KindOf[q.links[l]] = l
        /\ q.team # Keep => \A u \in q.team : access[u][q.tenant] # "none"
        /\ q.tax # "malformed"
    BY <1>1, Established
  <1>3. i \in Ids /\ i \in Id /\ row[i].st = "unborn" BY DEF Free, Ids
  <1>4. row' = [row EXCEPT ![i] = new] BY DEF Insert
  <1>5. q.links \in [Kind -> Id \cup {Nil}]
    BY <1>1 DEF BusyType, WellChecked, Shape, Body
  <1>6. team \in SUBSET User BY <1>1 DEF BusyType, Teams
  <1>7. tax \in Cui \cup {Nil} BY <1>1, <1>2 DEF BusyType
  <1>8. VatOf(q, TRUE) \in BOOLEAN
    <2>1. q.vat = Keep \/ q.vat \in BOOLEAN BY <1>1 DEF BusyType
    <2> QED BY <2>1, VatType
  <1>9. chosen \in BOOLEAN OBVIOUS
  <1>10. q.tenant \in Tenant /\ q.code \in Code /\ q.checked \in BOOLEAN
    BY <1>1 DEF BusyType
  <1>11. VatOk(new)
    <2>1. ASSUME q.checked, q.vat = Keep
          PROVE  tax \in Registered /\ VatOf(q, TRUE) = (tax \in VatPayers)
      <3>1. q.tax \in Registered BY <2>1, <1>1 DEF WellChecked, Shape
      <3>2. tax = q.tax BY <3>1, CrmConstants
      <3>3. VatOf(q, TRUE) = (q.tax \in VatPayers) BY <2>1, Zenon DEF VatOf
      <3> QED BY <3>1, <3>2, <3>3
    <2> HIDE DEF q, tax
    <2>2. /\ new.checked = q.checked /\ new.chosen = chosen /\ new.tax = tax
          /\ new.vat = VatOf(q, TRUE)
      OBVIOUS
    <2> HIDE DEF new
    <2> QED BY <2>1, <2>2, Zenon DEF VatOk
  <1> HIDE DEF team, tax, chosen
  <1>12. new \in RowType
    BY <1>5, <1>6, <1>7, <1>8, <1>9, <1>10 DEF RowType
  <1>13. LinksOk(new, row)
    BY <1>2, <1>5 DEF LinksOk, LinksExist, Live
  <1>14. TeamOk(new, access)
    <2>1. \A u \in team : access[u][q.tenant] # "none" BY <1>2 DEF team
    <2> QED BY <2>1 DEF TeamOk
  <1>15. new.st = "live" /\ new.tenant = q.tenant /\ new.code = q.code OBVIOUS
  <1> HIDE DEF new
  <1> QED BY <1>3, <1>4, <1>10, <1>11, <1>12, <1>13, <1>14, <1>15 DEF Adds

LEMMA CreateEffect ==
    ASSUME TypeOK, JobInv, NEW j \in Job, NEW k \in Kind, NEW r1 \in {409, 500},
           NEW r2 \in {409, 500}, Create(j, k, r1, r2)
    PROVE  (Quiet /\ Ends(j)) \/ Stores(j)
  <1>1. Checked(j) /\ job[j].op = "create" /\ UNCHANGED <<cast, nextValue, access>>
    BY DEF Create
  <1>2. CASE CodeTaken(job[j])
    <2>1. Reply(j, r1) /\ UNCHANGED row BY <1>2 DEF Create
    <2> QED BY <1>1, <2>1, ReplyEffect DEF Quiet
  <1>3. CASE ~CodeTaken(job[j]) /\ ~LinksExist(job[j])
    <2>1. Reply(j, r2) /\ UNCHANGED row BY <1>3 DEF Create
    <2> QED BY <1>1, <2>1, ReplyEffect DEF Quiet
  <1>4. CASE ~CodeTaken(job[j]) /\ LinksExist(job[j])
    <2>1. Reply(j, 201) BY <1>4 DEF Create
    <2>2. PICK i \in Free(k) : Insert(j, i) BY <1>4 DEF Create
    <2>3. Ends(j) BY <2>1, ReplyEffect
    <2>4. Busy(j) /\ ~InTransaction(j) BY <1>1 DEF Checked, InTransaction
    <2>5. i \in Ids BY DEF Free
    <2> QED BY <1>1, <1>4, <2>2, <2>3, <2>4, <2>5, InsertEffect DEF Stores
  <1> QED BY <1>2, <1>3, <1>4

LEMMA CreateInvoiceEffect ==
    ASSUME TypeOK, NEW t \in Tenant, NEW i \in Free("invoice"),
           NEW c \in LiveRows("company"), NEW p \in LiveRows("product") \cup {Nil},
           CreateInvoice(i, t, c, p)
    PROVE  \E new \in RowType : Adds(i, new) /\ new.code = Nil
  <1> DEFINE links == [NoLinks EXCEPT !["company"] = c, !["product"] = p]
             new == [Unborn EXCEPT !.st = "live", !.tenant = t, !.links = links]
  <1>1. i \in Ids /\ row[i].st = "unborn" BY DEF Free
  <1>2. row' = [row EXCEPT ![i] = new] BY DEF CreateInvoice
  <1>3. c \in Id /\ KindOf[c] = "company" /\ Live(c) /\ row[c].tenant = t
    BY DEF CreateInvoice, LiveOf, LiveRows, Ids
  <1>4. p # Nil => p \in Id /\ KindOf[p] = "product" /\ Live(p) /\ row[p].tenant = t
    BY DEF CreateInvoice, LiveOf, LiveRows, Ids
  <1>5. /\ links \in [Kind -> Id \cup {Nil}] /\ links["company"] = c /\ links["product"] = p
        /\ \A l \in Kind \ {"company", "product"} : links[l] = Nil
    BY <1>3, <1>4 DEF NoLinks, Kind
  <1> HIDE DEF links
  <1>6. Nil \in Code BY DEF Code
  <1>7. /\ new.st = "live" /\ new.tenant = t /\ new.links = links /\ new.code = Nil
        /\ new.team = {} /\ new.checked = FALSE
    BY DEF Unborn
  <1>8. new \in RowType BY <1>5, <1>6 DEF Unborn, RowType
  <1> HIDE DEF new
  <1>9. LinksOk(new, row) BY <1>3, <1>4, <1>5, <1>7 DEF LinksOk, Live
  <1>10. TeamOk(new, access) /\ VatOk(new) BY <1>7 DEF TeamOk, VatOk
  <1> QED BY <1>1, <1>2, <1>7, <1>8, <1>9, <1>10 DEF Adds

-----------------------------------------------------------------------------
(* A row is written over by an update.                                     *)
Rewrites(i, new) ==
    /\ i \in Ids /\ Live(i) /\ row' = [row EXCEPT ![i] = new]
    /\ new \in RowType /\ new.st = "live"
    /\ new.tenant = row[i].tenant /\ new.code = row[i].code
    /\ LinksOk(new, row) /\ TeamOk(new, access) /\ VatOk(new)

(* The VAT status stays with the tax number it was reported for.           *)
LEMMA UpdatedVat ==
    ASSUME TypeOK, JobInv, NEW j \in Job, Busy(j), NEW i \in Id, VatOk(row[i]),
           NEW team
    PROVE  VatOk(Updated(job[j], i, team))
  <1> DEFINE q == job[j]
             old == row[i]
             new == Updated(q, i, team)
  <1>1. q \in BusyType /\ old \in RowType /\ (q.checked => q.tax \in Registered)
    BY BusyRecord DEF TypeOK, JobInv, WellChecked, Shape
  <1>2. /\ new.checked = Stored(q, i).checked /\ new.chosen = Stored(q, i).chosen
        /\ new.tax = Stored(q, i).tax /\ new.vat = Stored(q, i).vat
    BY <1>1 DEF Updated, RowType
  <1>3. /\ Stored(q, i).tax = Merged(q.tax, old.tax)
        /\ Stored(q, i).vat = VatOf(q, old.vat)
        /\ Stored(q, i).checked = (IF q.tax = Keep THEN old.checked ELSE q.checked)
        /\ Stored(q, i).chosen = (IF q.vat # Keep THEN TRUE ELSE ~q.checked /\ old.chosen)
    BY DEF Stored
  <1>4. Keep \notin Registered BY CrmConstants
  <1> HIDE DEF new, old, q
  <1>5. SUFFICES ASSUME new.checked, ~new.chosen
                 PROVE  new.tax \in Registered /\ new.vat = (new.tax \in VatPayers)
    BY Zenon DEF VatOk, new, q
  <1>6. q.vat = Keep /\ ~(~q.checked /\ old.chosen)
    BY <1>2, <1>3, <1>5, Zenon
  <1>7. CASE q.tax = Keep
    <2>1. old.checked BY <1>2, <1>3, <1>5, <1>7, Zenon
    <2>2. ~q.checked BY <1>1, <1>4, <1>7, Zenon DEF q
    <2>3. ~old.chosen BY <1>6, <2>2, Zenon
    <2>4. old.tax \in Registered /\ old.vat = (old.tax \in VatPayers)
      BY <2>1, <2>3, Zenon DEF VatOk, old
    <2>5. new.tax = old.tax BY <1>2, <1>3, <1>7, Zenon DEF Merged
    <2>6. new.vat = old.vat BY <1>2, <1>3, <1>6, <2>2, Zenon DEF VatOf
    <2> QED BY <2>4, <2>5, <2>6, Zenon
  <1>8. CASE q.tax # Keep
    <2>1. q.checked BY <1>2, <1>3, <1>5, <1>8, Zenon
    <2>2. q.tax \in Registered BY <1>1, <2>1, Zenon DEF q
    <2>3. new.tax = q.tax BY <1>2, <1>3, <1>8, Zenon DEF Merged
    <2>4. new.vat = (q.tax \in VatPayers) BY <1>2, <1>3, <1>6, <2>1, Zenon DEF VatOf
    <2> QED BY <2>2, <2>3, <2>4, Zenon
  <1> QED BY <1>7, <1>8

(* Request q of j, its checks passed, writes row i.                        *)
Writes(j, q, i, team, new) ==
    /\ Busy(j) /\ q = job[j] /\ q.op = "update" /\ (Checked(j) \/ q.pc # "check")
    /\ i \in Ids /\ i = q.target /\ Found(q) /\ LinksExist(q)
    /\ team \in SUBSET User
    /\ \A u \in team : u \in row[i].team \/ (q.team # Keep /\ u \in q.team)
    /\ new = Updated(q, i, team) /\ row' = [row EXCEPT ![i] = new]

LEMMA WriteEffect ==
    ASSUME TypeOK, JobInv, LinksLive, MembersOfTheFirm, VatFollowsRegistry,
           NEW j \in Job, NEW q, NEW i, NEW team, NEW new, Writes(j, q, i, team, new)
    PROVE  new \in RowType /\ Rewrites(i, new) /\ new.team = team
  <1> USE DEF Writes
  <1>1. i \in Id /\ i \in Ids /\ Live(i) /\ row[i].tenant = q.tenant /\ row[i].st = "live"
    BY DEF Ids, Found, LiveOf, Live
  <1>2. q \in BusyType /\ row[i] \in RowType BY <1>1, BusyRecord DEF TypeOK
  <1>3. /\ \A l \in Kind : q.links[l] \in Id =>
             row[q.links[l]].tenant = q.tenant /\ KindOf[q.links[l]] = l
        /\ q.team # Keep => \A u \in q.team : access[u][q.tenant] # "none"
        /\ q.tax # "malformed"
    BY Established
  <1>4. LinksOk(row[i], row) /\ TeamOk(row[i], access) /\ VatOk(row[i])
    BY <1>1, SoundRows
  <1>5. new \in RowType BY <1>1, <1>3, UpdatedType
  <1>6. VatOk(new) BY <1>1, <1>4, UpdatedVat
  <1>7. /\ new.st = "live" /\ new.tenant = row[i].tenant /\ new.code = row[i].code
        /\ new.team = team /\ new.links = MergedLinks(q, i)
    BY <1>1, <1>2 DEF Updated, RowType
  <1>8. \A l \in Kind : q.links[l] \in Id \cup {Nil, Keep}
    BY <1>2 DEF BusyType
  <1>9. LinksOk(new, row)
    <2> SUFFICES ASSUME NEW l \in Kind, new.links[l] # Nil
                 PROVE  /\ row[new.links[l]].st = "live"
                        /\ row[new.links[l]].tenant = new.tenant
                        /\ KindOf[new.links[l]] = l
      BY DEF LinksOk
    <2>1. new.links[l] = Merged(q.links[l], row[i].links[l]) BY <1>7 DEF MergedLinks
    <2>2. CASE q.links[l] = Keep
      <3>1. new.links[l] = row[i].links[l] /\ row[i].links[l] # Nil BY <2>1, <2>2 DEF Merged
      <3>2. /\ row[row[i].links[l]].st = "live" /\ row[row[i].links[l]].tenant = row[i].tenant
            /\ KindOf[row[i].links[l]] = l
        BY <3>1, <1>4, Zenon DEF LinksOk
      <3> DEFINE x == row[i].links[l]
      <3> HIDE DEF x
      <3>3. row[x].st = "live" /\ row[x].tenant = row[i].tenant /\ KindOf[x] = l
        BY <3>2 DEF x
      <3>4. new.links[l] = x BY <3>1 DEF x
      <3> QED BY <3>3, <3>4, <1>7
    <2>3. CASE q.links[l] # Keep
      <3>1. q.links[l] \in Id BY <2>1, <2>3, <1>8 DEF Merged
      <3>2. Live(q.links[l]) BY <3>1 DEF LinksExist
      <3> QED BY <2>1, <2>3, <3>1, <3>2, <1>1, <1>3, <1>7 DEF Merged, Live
    <2> QED BY <2>2, <2>3
  <1>10. TeamOk(new, access)
    <2>1. \A u \in row[i].team : access[u][q.tenant] # "none" BY <1>1, <1>4 DEF TeamOk
    <2> QED BY <2>1, <1>1, <1>3, <1>7 DEF TeamOk
  <1> QED BY <1>1, <1>5, <1>6, <1>7, <1>9, <1>10 DEF Rewrites

(* A request goes on to its next statement.                                *)
Moves(j, p) ==
    /\ Others(j) /\ Busy(j) /\ SameRequest(job'[j], job[j])
    /\ job'[j].pc = p /\ job'[j].code = job[j].code
    /\ WellChecked(job'[j], row, access)

LEMMA GoToEffect ==
    ASSUME TypeOK, JobInv, NEW j \in Job, Busy(j), job[j].op = "update",
           Checked(j) \/ job[j].pc # "check",
           NEW p \in {"clear", "delete", "fill", "reread"}, GoTo(j, p)
    PROVE  Moves(j, p)
  <1> DEFINE q == job[j]
             new == [q EXCEPT !.pc = p]
  <1>0. job' = [job EXCEPT ![j] = new] BY DEF GoTo
  <1>1. q \in BusyType /\ WellChecked(q, row, access)
    BY BusyRecord DEF JobInv
  <1>2. q.at = Len(ChecksOf(q.op, q.kind)) + 1 BY Established
  <1>3. /\ new \in BusyType /\ SameRequest(new, q) /\ new.pc = p /\ new.at = q.at
        /\ new.checked = q.checked /\ new.code = q.code
    BY <1>1 DEF BusyType, SameRequest
  <1>4. job'[j] = new /\ Others(j) BY <1>0, <1>3 DEF TypeOK, Others
  <1> HIDE DEF new
  <1>5. new.op = q.op /\ new.kind = q.kind /\ new.tax = q.tax BY <1>3 DEF SameRequest
  <1>6. Shape(new) BY <1>1, <1>3, <1>5, BodySame DEF WellChecked, Shape
  <1>7. WellChecked(new, row, access)
    BY <1>1, <1>2, <1>3, <1>5, <1>6, VettedSame DEF WellChecked
  <1> QED BY <1>3, <1>4, <1>7 DEF Moves

(* A row of its own firm is found, and it is a row of this behaviour.      *)
LEMMA FoundRow ==
    ASSUME TypeOK, RowsOwned, NEW j \in Job, Busy(j), job[j].op # "create", JobInv,
           Found(job[j])
    PROVE  job[j].target \in Ids
  <1>1. job[j].target \in Id BY DEF JobInv, WellChecked, Shape, Body
  <1> QED BY <1>1 DEF Found, LiveOf, Live, RowsOwned

(* One statement writes a row of a kind without members.                   *)
WritesOnce(j) ==
    /\ UNCHANGED <<cast, nextValue, access>> /\ Moves(j, "reread") /\ ~InTransaction(j)
    /\ job[j].pc = "check"
    /\ job[j].target \in Ids /\ Found(job[j]) /\ job[j].kind \notin Staffed
    /\ \E new \in RowType : Rewrites(job[j].target, new) /\ new.team = row[job[j].target].team

LEMMA UpdateRowEffect ==
    ASSUME TypeOK, JobInv, RowsOwned, LinksLive, MembersOfTheFirm, VatFollowsRegistry,
           NEW j \in Job, NEW k \in Kind \ Staffed, NEW r \in {409, 500}, UpdateRow(j, k, r)
    PROVE  (Quiet /\ Ends(j)) \/ WritesOnce(j)
  <1> DEFINE q == job[j]
             i == q.target
  <1>1. /\ Checked(j) /\ q.op = "update" /\ q.kind = k
        /\ UNCHANGED <<cast, nextValue, access>>
    BY DEF UpdateRow
  <1>2. Busy(j) /\ q.pc = "check" BY <1>1 DEF Checked
  <1>3. CASE ~Found(q)
    <2>1. Reply(j, 404) /\ UNCHANGED row BY <1>3 DEF UpdateRow
    <2> QED BY <1>1, <2>1, ReplyEffect DEF Quiet
  <1>4. CASE Found(q) /\ ~LinksExist(q)
    <2>1. Reply(j, r) /\ UNCHANGED row BY <1>4 DEF UpdateRow
    <2> QED BY <1>1, <2>1, ReplyEffect DEF Quiet
  <1>5. CASE Found(q) /\ LinksExist(q)
    <2> DEFINE team == row[i].team
               new == Updated(q, i, team)
    <2>1. /\ row' = [row EXCEPT ![i] = new]
          /\ GoTo(j, "reread")
      BY <1>5 DEF UpdateRow
    <2>2. i \in Ids BY <1>1, <1>2, <1>5, FoundRow
    <2>3. row[i] \in RowType BY <2>2 DEF TypeOK, Ids
    <2>4. team \in SUBSET User /\ team = row[i].team BY <2>3 DEF RowType
    <2>5. new = Updated(q, i, team) /\ q = job[j] /\ i = q.target OBVIOUS
    <2> HIDE DEF team, new, q, i
    <2>6. new \in RowType /\ Rewrites(i, new) /\ new.team = team
      <3>1. Writes(j, q, i, team, new)
        BY <1>1, <1>2, <1>5, <2>1, <2>2, <2>4, <2>5 DEF Writes
      <3> QED BY <3>1, WriteEffect
    <2>7. Moves(j, "reread") BY <1>1, <1>2, <2>1, GoToEffect DEF q
    <2>8. ~InTransaction(j) BY <1>2 DEF InTransaction, q
    <2> QED BY <1>1, <1>2, <1>5, <2>2, <2>4, <2>6, <2>7, <2>8 DEF WritesOnce, q, i
  <1> QED BY <1>3, <1>4, <1>5

(* The transaction that replaces members: it takes the lock of the row,    *)
(* if it has a column to set ..                                            *)
Opens(j) ==
    /\ Quiet /\ ~InTransaction(j) /\ (job[j].columns => ~Locked(job[j].target))
    /\ job[j].target \in Ids /\ Found(job[j]) /\ LinksExist(job[j])
    /\ job[j].kind \in Staffed
    /\ IF job[j].team = Keep THEN Moves(j, "fill") ELSE Moves(j, "clear")
    /\ swap' \in Swaps /\ Begin(j)

LEMMA BeginType ==
    ASSUME TypeOK, NEW j \in Job, Begin(j)
    PROVE  swap' \in Swaps
  <1> DEFINE met == \E p \in Job : Meets(j, p)
             Now(o) == IF o = j THEN [NoSwap EXCEPT !.beside = met]
                       ELSE IF Meets(j, o) THEN [swap[o] EXCEPT !.beside = TRUE] ELSE swap[o]
  <1>1. met \in BOOLEAN OBVIOUS
  <1>2. swap' = [o \in Job |-> Now(o)] BY DEF Begin
  <1> HIDE DEF met
  <1>3. ASSUME NEW o \in Job PROVE Now(o) \in [found: SUBSET User, beside: BOOLEAN]
    <2>1. swap[o] \in [found: SUBSET User, beside: BOOLEAN] BY DEF TypeOK
    <2>2. [NoSwap EXCEPT !.beside = met] \in [found: SUBSET User, beside: BOOLEAN]
      BY <1>1 DEF NoSwap
    <2>3. [swap[o] EXCEPT !.beside = TRUE] \in [found: SUBSET User, beside: BOOLEAN]
      BY <2>1
    <2> QED BY <2>1, <2>2, <2>3
  <1> HIDE DEF Now
  <1> QED BY <1>2, <1>3 DEF Swaps

LEMMA UpdateColumnsEffect ==
    ASSUME TypeOK, JobInv, RowsOwned, NEW j \in Job, NEW k \in Staffed, UpdateColumns(j, k)
    PROVE  (Quiet /\ Ends(j) /\ KeepsSwaps(j)) \/ Opens(j)
  <1> DEFINE q == job[j]
  <1>1. /\ Checked(j) /\ q.op = "update" /\ q.kind = k /\ Quiet
        /\ q.columns => ~Locked(q.target)
    BY DEF UpdateColumns, Quiet
  <1>2. Busy(j) /\ q.pc = "check" BY <1>1 DEF Checked
  <1>3. UNCHANGED swap => KeepsSwaps(j) BY DEF KeepsSwaps, TypeOK, Swaps
  <1>4. CASE ~Found(q)
    <2>1. Reply(j, 404) /\ UNCHANGED swap BY <1>4 DEF UpdateColumns
    <2> QED BY <1>1, <1>3, <2>1, ReplyEffect
  <1>5. CASE Found(q) /\ ~LinksExist(q)
    <2>1. Reply(j, 500) /\ UNCHANGED swap BY <1>5 DEF UpdateColumns
    <2> QED BY <1>1, <1>3, <2>1, ReplyEffect
  <1>6. CASE Found(q) /\ LinksExist(q)
    <2>1. GoTo(j, IF q.team = Keep THEN "fill" ELSE "clear") /\ Begin(j)
      BY <1>6 DEF UpdateColumns
    <2>2. q.target \in Ids BY <1>1, <1>2, <1>6, FoundRow
    <2>3. ~InTransaction(j) BY <1>2 DEF InTransaction
    <2>4. swap' \in Swaps BY <2>1, BeginType
    <2>5. CASE q.team = Keep
      <3>1. GoTo(j, "fill") BY <2>1, <2>5
      <3>2. Moves(j, "fill") BY <1>1, <1>2, <3>1, GoToEffect
      <3> QED BY <1>1, <1>6, <2>1, <2>2, <2>3, <2>4, <2>5, <3>2 DEF Opens
    <2>6. CASE q.team # Keep
      <3>1. GoTo(j, "clear") BY <2>1, <2>6
      <3>2. Moves(j, "clear") BY <1>1, <1>2, <3>1, GoToEffect
      <3> QED BY <1>1, <1>6, <2>1, <2>2, <2>3, <2>4, <2>6, <3>2 DEF Opens
    <2> QED BY <2>5, <2>6
  <1> QED BY <1>4, <1>5, <1>6

(* .. finds the members to delete ..                                       *)
Clears(j) ==
    /\ Quiet /\ Moves(j, "delete") /\ job[j].pc = "clear" /\ KeepsSwaps(j)
    /\ swap'[j].found = row[job[j].target].team /\ swap'[j].beside = swap[j].beside

LEMMA DeleteMembersEffect ==
    ASSUME TypeOK, JobInv, TransactionInv, NEW j \in Job, DeleteMembers(j)
    PROVE  Clears(j)
  <1> DEFINE q == job[j]
             team == row[q.target].team
  <1>1. /\ Busy(j) /\ q.pc = "clear" /\ Quiet /\ GoTo(j, "delete")
        /\ swap' = [swap EXCEPT ![j].found = team]
    BY DEF DeleteMembers, Quiet
  <1>2. InTransaction(j) BY <1>1 DEF InTransaction
  <1>3. q.target \in Ids BY <1>2 DEF TransactionInv
  <1>4. row[q.target] \in RowType BY <1>3 DEF Ids, TypeOK
  <1>5. team \in SUBSET User BY <1>4 DEF RowType
  <1>6. q.op = "update" BY <1>1 DEF JobInv, WellChecked
  <1>7. Moves(j, "delete") BY <1>1, <1>6, GoToEffect
  <1>8. swap \in Swaps BY DEF TypeOK, Swaps
  <1> HIDE DEF team
  <1>9. KeepsSwaps(j) /\ swap'[j].found = team /\ swap'[j].beside = swap[j].beside
    BY <1>1, <1>5, <1>8 DEF KeepsSwaps, Swaps
  <1> QED BY <1>1, <1>7, <1>9 DEF Clears, team

(* .. has deleted them ..                                                  *)
Deletes(j) ==
    /\ Quiet /\ Moves(j, "fill") /\ job[j].pc = "delete" /\ KeepsSwaps(j)
    /\ swap'[j] = swap[j]

LEMMA MembersDeletedEffect ==
    ASSUME TypeOK, JobInv, NEW j \in Job, MembersDeleted(j)
    PROVE  Deletes(j)
  <1>1. Busy(j) /\ job[j].pc = "delete" /\ Quiet /\ GoTo(j, "fill") /\ swap' = swap
    BY DEF MembersDeleted, Quiet
  <1>2. job[j].op = "update" BY <1>1 DEF JobInv, WellChecked
  <1>3. Moves(j, "fill") BY <1>1, <1>2, GoToEffect
  <1> QED BY <1>1, <1>3 DEF Deletes, KeepsSwaps, TypeOK, Swaps

(* .. and adds the new ones and commits, on the row or on what was it.     *)
PassesOn(j) ==
    /\ swap' \in Swaps
    /\ \A o \in Job \ {j} :
         /\ swap'[o].beside = swap[o].beside
         /\ swap'[o].found # swap[o].found =>
              Replaces(j) /\ Replaces(o) /\ job[o].target = job[j].target
Commits(j) ==
    /\ UNCHANGED <<cast, nextValue, access>> /\ Moves(j, "reread") /\ InTransaction(j)
    /\ PassesOn(j)
    /\ \E new \in RowType :
         /\ Rewrites(job[j].target, new)
         /\ job[j].team = Keep => new.team = row[job[j].target].team
         /\ job[j].team # Keep => job[j].team \subseteq new.team
         /\ job[j].team # Keep /\ ~swap[j].beside => new.team = job[j].team
Misses(j) == Quiet /\ Moves(j, "reread") /\ InTransaction(j) /\ PassesOn(j)

LEMMA CommitMembersEffect ==
    ASSUME TypeOK, JobInv, TransactionInv, RowsOwned, LinksLive, MembersOfTheFirm,
           VatFollowsRegistry, NEW j \in Job, CommitMembers(j)
    PROVE  (Quiet /\ Ends(j) /\ KeepsSwaps(j)) \/ Commits(j) \/ Misses(j)
  <1> DEFINE q == job[j]
             i == q.target
             added == IF q.team = Keep THEN {} ELSE q.team
             kept == IF q.team = Keep THEN row[i].team ELSE row[i].team \ swap[j].found
             refused == added # {} /\ (~Live(i) \/ added \cap kept # {})
             team == kept \cup added
  <1>1. Busy(j) /\ q.pc = "fill" /\ UNCHANGED <<cast, nextValue, access>>
    BY DEF CommitMembers
  <1>2. InTransaction(j) BY <1>1 DEF InTransaction
  <1>3. /\ i \in Ids /\ row[i].tenant = q.tenant /\ KindOf[i] = q.kind
        /\ q.columns => LinksExist(q)
    BY <1>2 DEF TransactionInv
  <1>4. row[i] \in RowType /\ q \in BusyType BY <1>1, <1>3, BusyRecord DEF Ids, TypeOK
  <1>5. q.op = "update" /\ Body(q) BY <1>1 DEF JobInv, WellChecked, Shape
  <1>6. swap \in Swaps BY DEF TypeOK, Swaps
  <1>7. CASE refused
    <2>1. Reply(j, 500) /\ swap' = [swap EXCEPT ![j] = NoSwap] /\ row' = row
      BY <1>7 DEF CommitMembers
    <2>2. KeepsSwaps(j) BY <1>6, <2>1 DEF KeepsSwaps, Swaps, NoSwap
    <2> QED BY <1>1, <2>1, <2>2, ReplyEffect DEF Quiet
  <1>8. CASE ~refused
    <2>1. /\ row' = IF Live(i) THEN [row EXCEPT ![i] = Updated(q, i, team)] ELSE row
          /\ swap' = [o \in Job |->
                IF o = j THEN NoSwap
                ELSE IF Replaces(j) /\ Replaces(o) /\ job[o].target = i
                THEN [swap[o] EXCEPT !.found = @ \ swap[j].found]
                ELSE swap[o]]
          /\ GoTo(j, "reread")
      BY <1>8 DEF CommitMembers
    <2>2. Moves(j, "reread") BY <1>1, <1>5, <2>1, GoToEffect
    <2>3. PassesOn(j)
      <3>1. \A o \in Job : swap[o] \in [found: SUBSET User, beside: BOOLEAN]
        BY <1>6 DEF Swaps
      <3>2. swap' \in Swaps BY <2>1, <3>1 DEF Swaps, NoSwap
      <3>3. ASSUME NEW o \in Job \ {j}
            PROVE  /\ swap'[o].beside = swap[o].beside
                   /\ swap'[o].found # swap[o].found =>
                        Replaces(j) /\ Replaces(o) /\ job[o].target = job[j].target
        BY <2>1, <3>1
      <3> QED BY <3>2, <3>3 DEF PassesOn
    <2>4. CASE ~Live(i)
      <3>1. row' = row BY <2>1, <2>4
      <3> QED BY <1>1, <1>2, <2>2, <2>3, <3>1 DEF Misses, Quiet
    <2>5. CASE Live(i)
      <3>1. /\ q.team # Keep => q.team \in SUBSET User /\ added = q.team
            /\ q.team = Keep => team = row[i].team
        BY <1>4 DEF BusyType, Teams
      <3>2. /\ team \in SUBSET User
            /\ \A u \in team : u \in row[i].team \/ (q.team # Keep /\ u \in q.team)
            /\ q.team # Keep => q.team \subseteq team
        BY <1>4, <3>1 DEF RowType
      <3>3. q.team # Keep /\ ~swap[j].beside => team = q.team
        <4>1. q.team # Keep /\ ~swap[j].beside => swap[j].found = row[i].team
          BY <1>1, <1>2 DEF TransactionInv
        <4> QED BY <3>1, <4>1
      <3>4. LinksExist(q)
        <4>1. ~q.columns => \A l \in Kind : q.links[l] = Keep BY <1>5 DEF Body, NoColumn
        <4> QED BY <1>3, <4>1, CrmConstants DEF LinksExist
      <3>5. Found(q) BY <1>3, <2>5 DEF Found, LiveOf
      <3> DEFINE new == Updated(q, i, team)
      <3>6. /\ new = Updated(q, i, team) /\ row' = [row EXCEPT ![i] = new]
            /\ q = job[j] /\ i = q.target
        BY <2>1, <2>5
      <3> HIDE DEF team, kept, added, refused, new, q, i
      <3>7. new \in RowType /\ Rewrites(i, new) /\ new.team = team
        <4>1. Writes(j, q, i, team, new)
          BY <1>1, <1>3, <1>5, <3>2, <3>4, <3>5, <3>6 DEF Writes
        <4> QED BY <4>1, WriteEffect
      <3> QED BY <1>1, <1>2, <2>2, <2>3, <3>1, <3>2, <3>3, <3>7 DEF Commits, q, i
    <2> QED BY <2>4, <2>5
  <1> QED BY <1>7, <1>8

LEMMA FindOneEffect ==
    ASSUME TypeOK, NEW j \in Job, FindOne(j)
    PROVE  Quiet /\ Ends(j)
  <1>1. Reply(j, 200) \/ Reply(j, 404) BY DEF FindOne
  <1> QED BY <1>1, ReplyEffect DEF FindOne, Quiet

-----------------------------------------------------------------------------
(* A row is deleted, and the columns that refer to it are cleared.         *)
Removes(j) ==
    /\ UNCHANGED <<cast, nextValue, access>> /\ Busy(j) /\ Ends(j) /\ ~InTransaction(j)
    /\ job[j].target \in Ids /\ Found(job[j]) /\ row' = Deleted(job[j].target)
    /\ ~Locked(job[j].target) /\ ~KeyShared(job[j].target)
    /\ \A c \in Referring(job[j].target) : ~Locked(c)
    /\ row[job[j].target].team = {}

LEMMA RemoveEffect ==
    ASSUME TypeOK, JobInv, RowsOwned, NEW j \in Job, NEW k \in Kind, NEW r \in {409, 500},
           Remove(j, k, r)
    PROVE  (Quiet /\ Ends(j)) \/ Removes(j)
  <1> DEFINE q == job[j]
             i == q.target
  <1>1. /\ Checked(j) /\ q.op = "remove" /\ q.kind = k
        /\ ~Locked(i) /\ ~KeyShared(i) /\ \A c \in Referring(i) : ~Locked(c)
        /\ UNCHANGED <<cast, nextValue, access>>
    BY DEF Remove
  <1>2. Busy(j) /\ q.pc = "check" BY <1>1 DEF Checked
  <1>3. CASE ~Found(q)
    <2>1. Reply(j, 404) /\ UNCHANGED row BY <1>3 DEF Remove
    <2> QED BY <1>1, <2>1, ReplyEffect DEF Quiet
  <1>4. CASE Found(q) /\ Refused(i)
    <2>1. Reply(j, r) /\ UNCHANGED row BY <1>4 DEF Remove
    <2> QED BY <1>1, <2>1, ReplyEffect DEF Quiet
  <1>5. CASE Found(q) /\ ~Refused(i)
    <2>1. row' = Deleted(i) /\ Reply(j, 200) BY <1>5 DEF Remove
    <2>2. i \in Ids BY <1>1, <1>2, <1>5, FoundRow
    <2>3. Ends(j) /\ ~InTransaction(j) BY <1>2, <2>1, ReplyEffect DEF InTransaction
    <2>4. row[i].team = {} BY <1>5 DEF Refused, MembersRestrict
    <2> QED BY <1>1, <1>2, <1>5, <2>1, <2>2, <2>3, <2>4 DEF Removes
  <1> QED BY <1>3, <1>4, <1>5

(* What is left of a row after another one is deleted.                     *)
LEMMA DeletedRow ==
    ASSUME TypeOK, NEW i \in Ids, row[i].tenant \in Tenant, row' = Deleted(i), NEW c \in Id
    PROVE  /\ c = i => /\ row'[c] \in RowType /\ row'[c].st = "gone" /\ row'[c].tenant = row[i].tenant
                       /\ row'[c].code = row[i].code /\ row'[c].team = {}
           /\ c # i => /\ row'[c] \in RowType
                       /\ row'[c].st = row[c].st /\ row'[c].tenant = row[c].tenant
                       /\ row'[c].code = row[c].code /\ row'[c].team = row[c].team
                       /\ row'[c].tax = row[c].tax /\ row'[c].vat = row[c].vat
                       /\ row'[c].checked = row[c].checked /\ row'[c].chosen = row[c].chosen
                       /\ \A l \in Kind : row'[c].links[l] \in {row[c].links[l], Nil}
                       /\ c \in Ids /\ Live(c) => \A l \in Kind : row'[c].links[l] # i
           /\ c # i /\ c \notin Referring(i) => row'[c] = row[c]
  <1>1. i \in Id /\ i # Nil BY CrmConstants DEF Ids
  <1>2. row[i] \in RowType /\ row[c] \in RowType BY <1>1 DEF TypeOK
  <1>3. CASE c = i
    <2>1. row'[c] = [Unborn EXCEPT !.st = "gone", !.tenant = row[i].tenant, !.code = row[i].code]
      BY <1>3, <1>1 DEF Deleted
    <2>2. row[i].code \in Code BY <1>2 DEF RowType
    <2>3. NoLinks \in [Kind -> Id \cup {Nil}] BY DEF NoLinks
    <2> DEFINE t == row[i].tenant
               code == row[i].code
    <2> HIDE DEF t, code
    <2>4. row'[c] = [Unborn EXCEPT !.st = "gone", !.tenant = t, !.code = code]
      BY <2>1 DEF t, code
    <2>5. t \in Tenant /\ code \in Code BY <2>2 DEF t, code
    <2>6. /\ row'[c] \in RowType /\ row'[c].st = "gone" /\ row'[c].tenant = t
          /\ row'[c].code = code /\ row'[c].team = {}
      BY <2>3, <2>4, <2>5 DEF Unborn, RowType
    <2> QED BY <1>3, <2>6 DEF t, code
  <1>4. CASE c # i /\ c \in Referring(i)
    <2> DEFINE old == row[c]
               links == [l \in Kind |-> IF old.links[l] = i THEN Nil ELSE old.links[l]]
    <2>1. row'[c] = [old EXCEPT !.links = links]
      BY <1>4, <1>1 DEF Deleted, WithoutLinksTo
    <2>2. old.links \in [Kind -> Id \cup {Nil}] BY <1>2 DEF RowType
    <2>3. links \in [Kind -> Id \cup {Nil}] BY <2>2
    <2>4. \A l \in Kind : links[l] \in {old.links[l], Nil} /\ links[l] # i BY <1>1
    <2> HIDE DEF links
    <2>5. row'[c] \in RowType /\ row'[c].links = links
      BY <1>2, <2>1, <2>3 DEF RowType
    <2>6. /\ row'[c].st = old.st /\ row'[c].tenant = old.tenant /\ row'[c].code = old.code
          /\ row'[c].team = old.team /\ row'[c].tax = old.tax /\ row'[c].vat = old.vat
          /\ row'[c].checked = old.checked /\ row'[c].chosen = old.chosen
      BY <1>2, <2>1 DEF RowType
    <2> QED BY <1>4, <2>4, <2>5, <2>6
  <1>5. CASE c # i /\ c \notin Referring(i)
    <2>1. row'[c] = row[c] BY <1>5, <1>1 DEF Deleted
    <2>2. c \in Ids /\ Live(c) => \A l \in Kind : row[c].links[l] # i
      BY <1>5 DEF Referring
    <2> QED BY <1>2, <1>5, <2>1, <2>2
  <1> QED BY <1>3, <1>4, <1>5

(* Access is suspended, restored or granted, never forgotten.              *)
LEMMA SetAccessEffect ==
    ASSUME TypeOK, NEW v \in User, NEW w \in Tenant, SetAccess(v, w)
    PROVE  /\ UNCHANGED <<cast, row, nextValue, job, swap>>
           /\ access' \in [User -> [Tenant -> {"none", "active", "inactive"}]]
           /\ \A u \in User, t \in Tenant : access[u][t] # "none" => access'[u][t] # "none"
  <1> DEFINE a == IF access[v][w] = "active" THEN "inactive" ELSE "active"
  <1>1. access' = [access EXCEPT ![v][w] = a] BY DEF SetAccess
  <1>2. a \in {"active", "inactive"} OBVIOUS
  <1> HIDE DEF a
  <1> QED BY <1>1, <1>2 DEF SetAccess, TypeOK

-----------------------------------------------------------------------------
(* PostgreSQL ends one of two transactions that wait for each other.       *)
LEMMA DeadlockEffect ==
    ASSUME TypeOK, NEW j \in Job, NEW o \in Job, Deadlock(j, o)
    PROVE  \E victim \in Job : Quiet /\ Ends(victim) /\ KeepsSwaps(victim)
  <1>1. PICK victim \in {j, o} : Reply(victim, 500) /\ swap' = [swap EXCEPT ![victim] = NoSwap]
    BY DEF Deadlock
  <1>2. victim \in Job OBVIOUS
  <1>3. Ends(victim) BY <1>1, <1>2, ReplyEffect
  <1>4. KeepsSwaps(victim) BY <1>1, <1>2 DEF KeepsSwaps, TypeOK, Swaps, NoSwap
  <1> QED BY <1>2, <1>3, <1>4 DEF Deadlock, Quiet

-----------------------------------------------------------------------------
(* Every step is one of these.                                             *)
Ordinary(j) ==
    /\ KeepsSwaps(j)
    /\ \/ Quiet /\ Ends(j)
       \/ Progresses(j)
       \/ Numbers(j)
       \/ Stores(j)
       \/ WritesOnce(j)
       \/ Removes(j)
Outcome(j) ==
    \/ Ordinary(j)
    \/ Opens(j)
    \/ Clears(j)
    \/ Deletes(j)
    \/ Commits(j)
    \/ Misses(j)
AccessChanges ==
    /\ UNCHANGED <<cast, row, nextValue, job, swap>>
    /\ access' \in [User -> [Tenant -> {"none", "active", "inactive"}]]
    /\ \A u \in User, t \in Tenant : access[u][t] # "none" => access'[u][t] # "none"
InvoiceAdded ==
    /\ UNCHANGED <<cast, nextValue, access, job, swap>>
    /\ \E i \in Ids, new \in RowType : Adds(i, new) /\ new.code = Nil

LEMMA StepOutcome ==
    ASSUME CrmInv, Next
    PROVE  (\E j \in Job : Outcome(j)) \/ AccessChanges \/ InvoiceAdded
  <1>0. /\ TypeOK /\ JobInv /\ TransactionInv /\ RowsOwned /\ LinksLive
        /\ MembersOfTheFirm /\ VatFollowsRegistry
    BY DEF CrmInv
  <1>k. ASSUME swap' = swap, NEW j \in Job PROVE KeepsSwaps(j)
    BY <1>0, <1>k DEF KeepsSwaps, TypeOK, Swaps
  <1>1. ASSUME NEW j \in Job, NEW q \in Requests, Start(j, q) PROVE Outcome(j)
    <2>1. swap' = swap BY <1>1 DEF Start
    <2> QED BY <1>0, <1>k, <1>1, <2>1, StartEffect DEF Outcome, Ordinary
  <1>2. ASSUME NEW j \in Job, NEW l \in Kind, CheckLink(j, l) PROVE Outcome(j)
    <2>1. swap' = swap BY <1>2 DEF CheckLink
    <2> QED BY <1>0, <1>k, <1>2, <2>1, CheckLinkEffect DEF Outcome, Ordinary
  <1>3. ASSUME NEW j \in Job,
               AssertUsersBelongToTenant(j) \/ ResolveTaxId(j) \/ NextFormatted(j)
        PROVE  Outcome(j)
    <2>1. swap' = swap BY <1>3 DEF AssertUsersBelongToTenant, ResolveTaxId, NextFormatted
    <2> QED BY <1>0, <1>k, <1>3, <2>1, AssertUsersEffect, ResolveTaxIdEffect,
               NextFormattedEffect DEF Outcome, Ordinary
  <1>4. ASSUME NEW j \in Job,
               \/ CreateCompany(j) \/ CreateContact(j) \/ CreateDeal(j)
               \/ CreateTask(j) \/ CreateNote(j) \/ CreateProduct(j)
        PROVE  Outcome(j)
    <2>1. PICK k \in Kind, r1 \in {409, 500}, r2 \in {409, 500} : Create(j, k, r1, r2)
      BY <1>4 DEF CreateCompany, CreateContact, CreateDeal, CreateTask, CreateNote,
                  CreateProduct, Kind
    <2>2. swap' = swap BY <2>1 DEF Create
    <2> QED BY <1>0, <1>k, <2>1, <2>2, CreateEffect DEF Outcome, Ordinary
  <1>5. ASSUME NEW j \in Job, UpdateContact(j) \/ UpdateDeal(j) \/ UpdateProduct(j)
        PROVE  Outcome(j)
    <2>1. PICK k \in Kind \ Staffed, r \in {409, 500} : UpdateRow(j, k, r)
      BY <1>5 DEF UpdateContact, UpdateDeal, UpdateProduct, Kind, Staffed
    <2>2. swap' = swap BY <2>1 DEF UpdateRow
    <2> QED BY <1>0, <1>k, <2>1, <2>2, UpdateRowEffect DEF Outcome, Ordinary
  <1>6. ASSUME NEW j \in Job, UpdateCompany(j) \/ UpdateTask(j) \/ UpdateNote(j)
        PROVE  Outcome(j)
    <2>1. PICK k \in Staffed : UpdateColumns(j, k)
      BY <1>6 DEF UpdateCompany, UpdateTask, UpdateNote, Staffed
    <2> QED BY <1>0, <2>1, UpdateColumnsEffect DEF Outcome, Ordinary
  <1>7. ASSUME NEW j \in Job, DeleteMembers(j) \/ MembersDeleted(j) \/ CommitMembers(j)
        PROVE  Outcome(j)
    BY <1>0, <1>7, DeleteMembersEffect, MembersDeletedEffect, CommitMembersEffect
       DEF Outcome, Ordinary
  <1>8. ASSUME NEW j \in Job, FindOne(j) PROVE Outcome(j)
    <2>1. swap' = swap BY <1>8 DEF FindOne
    <2> QED BY <1>0, <1>k, <1>8, <2>1, FindOneEffect DEF Outcome, Ordinary
  <1>9. ASSUME NEW j \in Job,
               \/ RemoveCompany(j) \/ RemoveContact(j) \/ RemoveDeal(j)
               \/ RemoveTask(j) \/ RemoveNote(j) \/ RemoveProduct(j)
        PROVE  Outcome(j)
    <2>1. PICK k \in Kind, r \in {409, 500} : Remove(j, k, r)
      BY <1>9 DEF RemoveCompany, RemoveContact, RemoveDeal, RemoveTask, RemoveNote,
                  RemoveProduct, Kind
    <2>2. swap' = swap BY <2>1 DEF Remove
    <2> QED BY <1>0, <1>k, <2>1, <2>2, RemoveEffect DEF Outcome, Ordinary
  <1>10. ASSUME NEW j \in Job, NEW o \in Job, Deadlock(j, o) PROVE \E v \in Job : Outcome(v)
    BY <1>0, <1>10, DeadlockEffect DEF Outcome, Ordinary
  <1>11. ASSUME NEW u \in User, NEW t \in Tenant, SetAccess(u, t) PROVE AccessChanges
    BY <1>0, <1>11, SetAccessEffect DEF AccessChanges
  <1>12. ASSUME NEW t \in Tenant, NEW i \in Free("invoice"), NEW c \in LiveRows("company"),
                NEW p \in LiveRows("product") \cup {Nil}, CreateInvoice(i, t, c, p)
         PROVE  InvoiceAdded
    <2>1. \E new \in RowType : Adds(i, new) /\ new.code = Nil
      BY <1>0, <1>12, CreateInvoiceEffect
    <2>2. i \in Ids BY DEF Free
    <2> QED BY <1>12, <2>1, <2>2 DEF InvoiceAdded, CreateInvoice
  <1> QED BY <1>1, <1>2, <1>3, <1>4, <1>5, <1>6, <1>7, <1>8, <1>9, <1>10, <1>11, <1>12 DEF Next

-----------------------------------------------------------------------------
(* What every step has in common.                                          *)
RowCase ==
    \/ row' = row
    \/ \E i \in Ids, new \in RowType : Adds(i, new)
    \/ \E i \in Ids, new \in RowType : Rewrites(i, new)
    \/ \E i \in Ids : Live(i) /\ row[i].tenant \in Tenant /\ row' = Deleted(i)
AccessKept ==
    /\ access' \in [User -> [Tenant -> {"none", "active", "inactive"}]]
    /\ \A u \in User, t \in Tenant : access[u][t] # "none" => access'[u][t] # "none"
JobCase(o) == job'[o] = job[o] \/ job'[o].pc = "idle" \/ WellChecked(job'[o], row, access)
Common ==
    /\ cast' = cast /\ Ids' = Ids /\ RowCase /\ AccessKept
    /\ job' \in [Job -> IdleType \cup BusyType] /\ \A o \in Job : JobCase(o)

LEMMA OutcomeCommon ==
    ASSUME TypeOK, RowsOwned, NEW j \in Job, Outcome(j)
    PROVE  Common
  <1>1. AccessKept /\ cast' = cast
    <2>1. UNCHANGED <<cast, access>>
      BY DEF Outcome, Ordinary, Quiet, Progresses, Numbers, Stores, WritesOnce, Opens, Clears, Deletes, Misses, Commits,
             Removes
    <2> QED BY <2>1 DEF TypeOK, AccessKept
  <1>2. Others(j) /\ JobCase(j)
    <2>1. CASE (Quiet /\ Ends(j)) \/ Stores(j) \/ Removes(j)
      BY <2>1 DEF Stores, Removes, Ends, JobCase
    <2>2. CASE Progresses(j) \/ Numbers(j) BY <2>2 DEF Progresses, Numbers, JobCase
    <2>3. CASE \/ WritesOnce(j) \/ Opens(j) \/ Clears(j) \/ Deletes(j) \/ Misses(j)
               \/ Commits(j)
      BY <2>3 DEF WritesOnce, Opens, Clears, Deletes, Misses, Commits, Moves, JobCase
    <2> QED BY <2>1, <2>2, <2>3 DEF Outcome, Ordinary
  <1>3. \A o \in Job : JobCase(o) BY <1>2 DEF Others, JobCase
  <1>4. RowCase
    <2>1. CASE (Quiet /\ Ends(j)) \/ Progresses(j) \/ Numbers(j) \/ Opens(j) \/ Clears(j)
             \/ Deletes(j) \/ Misses(j)
      BY <2>1 DEF Quiet, Progresses, Numbers, Opens, Clears, Deletes, Misses, RowCase
    <2>2. CASE Stores(j) BY <2>2 DEF Stores, RowCase
    <2>3. CASE WritesOnce(j) \/ Commits(j)
      <3>1. \E new \in RowType : Rewrites(job[j].target, new)
        BY <2>3 DEF WritesOnce, Commits
      <3>2. job[j].target \in Ids BY <3>1 DEF Rewrites
      <3> QED BY <3>1, <3>2 DEF RowCase
    <2>4. CASE Removes(j)
      <3>1. job[j].target \in Ids /\ Live(job[j].target) /\ row' = Deleted(job[j].target)
        BY <2>4 DEF Removes, Found, LiveOf
      <3>2. row[job[j].target].tenant \in Tenant
        BY <3>1 DEF RowsOwned, Live, Ids
      <3> QED BY <3>1, <3>2 DEF RowCase
    <2> QED BY <2>1, <2>2, <2>3, <2>4 DEF Outcome, Ordinary
  <1> QED BY <1>1, <1>2, <1>3, <1>4 DEF Common, Others, Ids

LEMMA StepCommon ==
    ASSUME CrmInv, Next
    PROVE  Common
  <1>1. TypeOK /\ RowsOwned BY DEF CrmInv
  <1>2. ASSUME NEW j \in Job, Outcome(j) PROVE Common
    BY <1>1, <1>2, OutcomeCommon
  <1>3. ASSUME AccessChanges PROVE Common
    BY <1>1, <1>3 DEF AccessChanges, Common, RowCase, AccessKept, JobCase, TypeOK, Ids
  <1>4. ASSUME InvoiceAdded PROVE Common
    <2>1. UNCHANGED <<cast, nextValue, access, job>> /\ RowCase
      BY <1>4 DEF InvoiceAdded, RowCase
    <2> QED BY <1>1, <2>1 DEF Common, AccessKept, JobCase, TypeOK, Ids
  <1> QED BY <1>2, <1>3, <1>4, StepOutcome

(* A row once stored is never forgotten, and never changes firm.           *)
LEMMA RowsKept ==
    ASSUME TypeOK, RowCase, NEW i \in Id
    PROVE  /\ row'[i] \in RowType
           /\ i \notin Ids => row'[i] = row[i]
           /\ row[i].st # "unborn" => row'[i].st # "unborn" /\ row'[i].tenant = row[i].tenant
  <1>1. row \in [Id -> RowType] BY DEF TypeOK
  <1>2. CASE row' = row BY <1>1, <1>2
  <1>3. ASSUME NEW k \in Ids, NEW new \in RowType, Adds(k, new)
        PROVE  /\ row'[i] \in RowType
               /\ i \notin Ids => row'[i] = row[i]
               /\ row[i].st # "unborn" => row'[i] = row[i]
    <2>1. row' = [row EXCEPT ![k] = new] /\ row[k].st = "unborn" BY <1>3 DEF Adds
    <2>2. CASE i = k BY <1>1, <2>1, <2>2
    <2>3. CASE i # k BY <1>1, <2>1, <2>3
    <2> QED BY <2>2, <2>3
  <1>4. ASSUME NEW k \in Ids, NEW new \in RowType, Rewrites(k, new)
        PROVE  /\ row'[i] \in RowType
               /\ i \notin Ids => row'[i] = row[i]
               /\ row[i].st # "unborn" => row'[i].st # "unborn" /\ row'[i].tenant = row[i].tenant
    <2>1. row' = [row EXCEPT ![k] = new] /\ new.st = "live" /\ new.tenant = row[k].tenant
      BY <1>4 DEF Rewrites
    <2>2. CASE i = k
      <3>1. row'[i] = new BY <1>1, <2>1, <2>2
      <3> QED BY <2>1, <2>2, <3>1
    <2>3. CASE i # k BY <1>1, <2>1, <2>3
    <2> QED BY <2>2, <2>3
  <1>5. ASSUME NEW k \in Ids, row[k].tenant \in Tenant, row' = Deleted(k)
        PROVE  /\ row'[i] \in RowType
               /\ i \notin Ids => row'[i] = row[i]
               /\ row[i].st # "unborn" => row'[i].st # "unborn" /\ row'[i].tenant = row[i].tenant
    <2>1. i \notin Ids => i \notin Referring(k) /\ i # k BY DEF Referring
    <2> QED BY <1>5, <2>1, DeletedRow
  <1> QED BY <1>2, <1>3, <1>4, <1>5 DEF RowCase

-----------------------------------------------------------------------------
(* The parts of the invariant, one by one.                                 *)
LEMMA NextValueType ==
    ASSUME CrmInv, Next
    PROVE  nextValue' \in [Tenant -> [SeqName -> Nat \ {0}]]
  <1>1. nextValue \in [Tenant -> [SeqName -> Nat \ {0}]] BY DEF CrmInv, TypeOK
  <1>2. ASSUME NEW j \in Job, Numbers(j)
        PROVE  nextValue' \in [Tenant -> [SeqName -> Nat \ {0}]]
    <2>1. PICK s \in SeqName : nextValue' = [nextValue EXCEPT ![job[j].tenant][s] = @ + 1]
      BY <1>2 DEF Numbers
    <2>2. job[j].tenant \in Tenant BY <1>2 DEF Numbers
    <2> QED BY <1>1, <2>1, <2>2
  <1>3. ASSUME NEW j \in Job, Outcome(j), ~Numbers(j) PROVE nextValue' = nextValue
    BY <1>3 DEF Outcome, Ordinary, Quiet, Progresses, Stores, WritesOnce, Opens, Clears, Deletes, Misses, Commits, Removes
  <1>4. AccessChanges \/ InvoiceAdded => nextValue' = nextValue
    BY DEF AccessChanges, InvoiceAdded
  <1> QED BY <1>1, <1>2, <1>3, <1>4, StepOutcome

LEMMA SwapType ==
    ASSUME CrmInv, Next
    PROVE  swap' \in Swaps
  <1>1. swap \in Swaps BY DEF CrmInv, TypeOK, Swaps
  <1>2. ASSUME NEW j \in Job, Outcome(j) PROVE swap' \in Swaps
    BY <1>2 DEF Outcome, Ordinary, KeepsSwaps, Opens, Clears, Deletes, Commits, Misses, PassesOn
  <1>3. AccessChanges \/ InvoiceAdded => swap' = swap
    BY DEF AccessChanges, InvoiceAdded
  <1> QED BY <1>1, <1>2, <1>3, StepOutcome

LEMMA TypeStep ==
    ASSUME CrmInv, Next
    PROVE  TypeOK'
  <1>1. TypeOK BY DEF CrmInv
  <1>2. Common BY StepCommon
  <1>3. cast' \in Casts BY <1>1, <1>2 DEF Common, TypeOK
  <1>4. \A i \in Id : row'[i] \in RowType /\ (i \notin Ids => row'[i] = row[i])
    BY <1>1, <1>2, RowsKept DEF Common
  <1>5. \A i \in Id \ cast' : row'[i] = Unborn
    BY <1>1, <1>2, <1>4 DEF Common, TypeOK, Ids
  <1>6. row' \in [Id -> RowType]
    <2>1. \E f : row' = [i \in Id |-> f[i]]
      <3>1. row \in [Id -> RowType] BY <1>1 DEF TypeOK
      <3>2. CASE row' = row BY <3>1, <3>2
      <3>3. CASE \E i \in Ids, new \in RowType : Adds(i, new) BY <3>1, <3>3 DEF Adds
      <3>4. CASE \E i \in Ids, new \in RowType : Rewrites(i, new) BY <3>1, <3>4 DEF Rewrites
      <3>5. CASE \E i \in Ids : row' = Deleted(i) BY <3>5 DEF Deleted
      <3> QED BY <1>2, <3>2, <3>3, <3>4, <3>5 DEF Common, RowCase
    <2> QED BY <1>4, <2>1
  <1>7. nextValue' \in [Tenant -> [SeqName -> Nat \ {0}]] BY NextValueType
  <1>8. swap' \in Swaps BY SwapType
  <1> QED BY <1>2, <1>3, <1>5, <1>6, <1>7, <1>8 DEF Common, AccessKept, TypeOK, Swaps

LEMMA RowsOwnedStep ==
    ASSUME CrmInv, Next
    PROVE  RowsOwned'
  <1>1. TypeOK /\ RowsOwned BY DEF CrmInv
  <1>2. Common BY StepCommon
  <1> SUFFICES ASSUME NEW i \in Id, row'[i].st # "unborn"
               PROVE  row'[i].tenant \in Tenant /\ i \in Ids
    BY <1>2 DEF RowsOwned, Common
  <1>3. CASE row[i].st # "unborn"
    BY <1>1, <1>2, <1>3, RowsKept DEF RowsOwned, Common
  <1>4. CASE row[i].st = "unborn"
    <2>1. row \in [Id -> RowType] BY <1>1 DEF TypeOK
    <2>2. row' # row BY <1>4
    <2>3. ASSUME NEW k \in Ids, NEW new \in RowType, Adds(k, new)
          PROVE  row'[i].tenant \in Tenant /\ i \in Ids
      <3>1. row' = [row EXCEPT ![k] = new] /\ new.tenant \in Tenant BY <2>3 DEF Adds
      <3>2. i = k BY <1>4, <2>1, <3>1
      <3>3. row'[i] = new BY <2>1, <3>1, <3>2
      <3> QED BY <3>1, <3>2, <3>3
    <2>4. ASSUME NEW k \in Ids, NEW new \in RowType, Rewrites(k, new) PROVE FALSE
      <3>1. row' = [row EXCEPT ![k] = new] /\ row[k].st = "live"
        BY <2>4 DEF Rewrites, Live
      <3> QED BY <1>4, <2>1, <3>1
    <2>5. ASSUME NEW k \in Ids, Live(k), row[k].tenant \in Tenant, row' = Deleted(k) PROVE FALSE
      <3>1. i # k BY <1>4, <2>5 DEF Live
      <3> QED BY <1>1, <1>4, <2>5, <3>1, DeletedRow
    <2> QED BY <1>2, <2>2, <2>3, <2>4, <2>5 DEF Common, RowCase
  <1> QED BY <1>3, <1>4

(* What is stored stays as it must be: a row written now refers to rows    *)
(* that live now, and a row deleted takes the columns that name it along.  *)
RowsSound ==
    \A i \in Ids : Live(i) => LinksOk(row[i], row) /\ TeamOk(row[i], access) /\ VatOk(row[i])

LEMMA SoundnessIs ==
    ASSUME TypeOK, RowsOwned
    PROVE  LinksLive /\ MembersOfTheFirm /\ VatFollowsRegistry <=> RowsSound
  <1>1. ASSUME LinksLive, MembersOfTheFirm, VatFollowsRegistry PROVE RowsSound
    BY <1>1, SoundRows DEF RowsSound
  <1>2. ASSUME RowsSound PROVE LinksLive
    BY <1>2 DEF RowsSound, LinksLive, LinksOk, Live, LiveOf
  <1>3. ASSUME RowsSound PROVE MembersOfTheFirm
    BY <1>3 DEF RowsSound, MembersOfTheFirm, TeamOk
  <1>4. ASSUME RowsSound PROVE VatFollowsRegistry
    BY <1>4, Zenon DEF RowsSound, VatFollowsRegistry, VatOk
  <1> QED BY <1>1, <1>2, <1>3, <1>4

LEMMA TeamKept ==
    ASSUME AccessKept, NEW r \in RowType, r.tenant \in Tenant, TeamOk(r, access)
    PROVE  TeamOk(r, access')
  BY DEF AccessKept, TeamOk, RowType

LEMMA RowsSoundStep ==
    ASSUME CrmInv, Next
    PROVE  RowsSound'
  <1>1. TypeOK /\ RowsOwned /\ RowsSound BY SoundnessIs DEF CrmInv
  <1>2. Common /\ AccessKept BY StepCommon DEF Common
  <1>3. TypeOK' /\ RowsOwned' BY TypeStep, RowsOwnedStep
  <1>4. row \in [Id -> RowType] /\ row' \in [Id -> RowType] BY <1>1, <1>3 DEF TypeOK
  <1> SUFFICES ASSUME NEW i \in Ids, row'[i].st = "live"
               PROVE  LinksOk(row'[i], row') /\ TeamOk(row'[i], access') /\ VatOk(row'[i])
    BY <1>2 DEF RowsSound, Common, Live
  <1>5. i \in Id /\ row'[i] \in RowType /\ row'[i].tenant \in Tenant
    BY <1>3, <1>4 DEF RowsOwned, Ids
  <1>6. SUFFICES LinksOk(row'[i], row') /\ TeamOk(row'[i], access) /\ VatOk(row'[i])
    BY <1>2, <1>5, TeamKept
  <1>7. CASE row' = row
    BY <1>1, <1>7 DEF RowsSound, Live
  <1>8. ASSUME NEW k \in Ids, NEW new \in RowType, Adds(k, new) \/ Rewrites(k, new)
        PROVE  LinksOk(row'[i], row') /\ TeamOk(row'[i], access) /\ VatOk(row'[i])
    <2>1. /\ row' = [row EXCEPT ![k] = new] /\ k \in Id /\ new.st = "live"
          /\ LinksOk(new, row) /\ TeamOk(new, access) /\ VatOk(new)
      BY <1>8 DEF Adds, Rewrites, Ids
    <2>2. row'[k] = new /\ \A c \in Id \ {k} : row'[c] = row[c] BY <1>4, <2>1
    <2>3. row[k].st = "live" => new.tenant = row[k].tenant
      BY <1>8 DEF Adds, Rewrites
    <2>4. LinksOk(row'[i], row) /\ TeamOk(row'[i], access) /\ VatOk(row'[i])
      <3>1. CASE i = k BY <2>1, <2>2, <3>1
      <3>2. CASE i # k BY <1>1, <1>5, <2>2, <3>2 DEF RowsSound, Live
      <3> QED BY <3>1, <3>2
    <2>5. \A c \in Id : row[c].st = "live" => row'[c].st = "live" /\ row'[c].tenant = row[c].tenant
      <3> SUFFICES ASSUME NEW c \in Id, row[c].st = "live"
                   PROVE  row'[c].st = "live" /\ row'[c].tenant = row[c].tenant
        OBVIOUS
      <3>1. CASE c = k BY <2>1, <2>2, <2>3, <3>1
      <3>2. CASE c # k BY <2>2, <3>2
      <3> QED BY <3>1, <3>2
    <2>6. LinksOk(row'[i], row')
      <3> DEFINE links == row'[i].links
                 t == row'[i].tenant
      <3>1. links \in [Kind -> Id \cup {Nil}] BY <1>5 DEF RowType
      <3>2. \A l \in Kind : links[l] # Nil =>
              row[links[l]].st = "live" /\ row[links[l]].tenant = t /\ KindOf[links[l]] = l
        BY <2>4 DEF LinksOk
      <3> HIDE DEF links, t
      <3>3. \A l \in Kind : links[l] # Nil =>
              row'[links[l]].st = "live" /\ row'[links[l]].tenant = t /\ KindOf[links[l]] = l
        BY <2>5, <3>1, <3>2
      <3> QED BY <3>3 DEF LinksOk, links, t
    <2> QED BY <2>4, <2>6
  <1>9. ASSUME NEW k \in Ids, Live(k), row[k].tenant \in Tenant, row' = Deleted(k)
        PROVE  LinksOk(row'[i], row') /\ TeamOk(row'[i], access) /\ VatOk(row'[i])
    <2>1. k \in Id /\ i # k BY <1>1, <1>9, <1>5, DeletedRow DEF Ids
    <2>2. /\ row'[i].tenant = row[i].tenant /\ row'[i].team = row[i].team
          /\ row'[i].tax = row[i].tax /\ row'[i].vat = row[i].vat
          /\ row'[i].checked = row[i].checked /\ row'[i].chosen = row[i].chosen
          /\ row[i].st = "live"
          /\ \A l \in Kind : row'[i].links[l] \in {row[i].links[l], Nil}
          /\ \A l \in Kind : row'[i].links[l] # k
      BY <1>1, <1>5, <1>9, <2>1, DeletedRow DEF Live
    <2>3. LinksOk(row[i], row) /\ TeamOk(row[i], access) /\ VatOk(row[i])
      BY <1>1, <2>2 DEF RowsSound, Live
    <2>4. TeamOk(row'[i], access) BY <2>2, <2>3 DEF TeamOk
    <2>5. VatOk(row'[i]) BY <2>2, <2>3, Zenon DEF VatOk
    <2>6. \A c \in Id \ {k} : row'[c].st = row[c].st /\ row'[c].tenant = row[c].tenant
      BY <1>1, <1>9, DeletedRow
    <2>7. LinksOk(row'[i], row')
      <3> DEFINE old == row[i].links
                 new == row'[i].links
                 t == row[i].tenant
      <3>1. new \in [Kind -> Id \cup {Nil}] BY <1>5 DEF RowType
      <3>2. \A l \in Kind : old[l] # Nil =>
              row[old[l]].st = "live" /\ row[old[l]].tenant = t /\ KindOf[old[l]] = l
        BY <2>3 DEF LinksOk
      <3>3. \A l \in Kind : new[l] \in {old[l], Nil} /\ new[l] # k BY <2>2
      <3> HIDE DEF old, new, t
      <3>4. \A l \in Kind : new[l] # Nil =>
              row'[new[l]].st = "live" /\ row'[new[l]].tenant = t /\ KindOf[new[l]] = l
        BY <2>6, <3>1, <3>2, <3>3
      <3>5. row'[i].tenant = t BY <2>2 DEF t
      <3> QED BY <3>4, <3>5 DEF LinksOk, new
    <2> QED BY <2>4, <2>5, <2>7
  <1> QED BY <1>2, <1>7, <1>8, <1>9 DEF Common, RowCase

(* What a check has established stays true until the request writes.       *)
LEMMA CheckedStays ==
    ASSUME TypeOK, RowCase, AccessKept, NEW q \in BusyType, WellChecked(q, row, access)
    PROVE  WellChecked(q, row', access')
  <1> DEFINE all == ChecksOf(q.op, q.kind)
  <1>1. ASSUME NEW what, VettedBy(q, what, row, access)
        PROVE  VettedBy(q, what, row', access')
    <2>1. what = "team" /\ q.team # Keep => \A u \in q.team : access'[u][q.tenant] # "none"
      <3>1. q.tenant \in Tenant /\ (q.team # Keep => q.team \in SUBSET User)
        BY DEF BusyType, Teams
      <3> QED BY <1>1, <3>1 DEF VettedBy, AccessKept
    <2>2. what = "tax" => q.tax # "malformed" BY <1>1 DEF VettedBy
    <2>3. ASSUME what \in Kind, q.links[what] \in Id
          PROVE  /\ row'[q.links[what]].st # "unborn" /\ row'[q.links[what]].tenant = q.tenant
                 /\ KindOf[q.links[what]] = what
      <3> DEFINE i == q.links[what]
      <3>1. row[i].st # "unborn" /\ row[i].tenant = q.tenant /\ KindOf[i] = what /\ i \in Id
        BY <1>1, <2>3 DEF VettedBy
      <3> HIDE DEF i
      <3>2. row'[i].st # "unborn" /\ row'[i].tenant = q.tenant BY <3>1, RowsKept
      <3> QED BY <3>1, <3>2 DEF i
    <2> QED BY <2>1, <2>2, <2>3 DEF VettedBy
  <1>2. \A n \in 1 .. Len(all) : n < q.at => VettedBy(q, all[n], row', access')
    BY <1>1 DEF WellChecked
  <1> QED BY <1>2 DEF WellChecked

LEMMA JobStep ==
    ASSUME CrmInv, Next
    PROVE  JobInv'
  <1>1. TypeOK /\ JobInv BY DEF CrmInv
  <1>2. Common BY StepCommon
  <1>3. TypeOK' BY TypeStep
  <1> SUFFICES ASSUME NEW o \in Job, job'[o].pc # "idle"
               PROVE  WellChecked(job'[o], row', access')
    BY DEF JobInv, Busy
  <1>4. job'[o] \in BusyType BY <1>3 DEF TypeOK, IdleType
  <1>5. WellChecked(job'[o], row, access)
    BY <1>1, <1>2 DEF Common, JobCase, JobInv, Busy
  <1> QED BY <1>1, <1>2, <1>4, <1>5, CheckedStays DEF Common

(* A transaction that sets a column is left alone: the others may not      *)
(* write or delete its row or delete a row that it refers to.  The members *)
(* of a row change by the commit of a replacement only.                    *)
TransactionOk(q, w, rows) ==
    /\ q.kind \in Staffed /\ q.target \in Ids
    /\ rows[q.target].st # "unborn" /\ rows[q.target].tenant = q.tenant
    /\ KindOf[q.target] = q.kind
    /\ q.columns => /\ rows[q.target].st = "live"
                    /\ \A l \in Kind : q.links[l] \in Id => rows[q.links[l]].st = "live"
    /\ q.pc \in {"clear", "delete"} => q.team # Keep
    /\ q.pc \in {"delete", "fill"} /\ q.team # Keep /\ ~w.beside =>
         w.found = rows[q.target].team

LEMMA TransactionKept ==
    ASSUME TypeOK, JobInv, TransactionInv, RowsOwned,
           NEW o \in Job, InTransaction(o), NEW j \in Job \ {o}, Outcome(j)
    PROVE  /\ job[o].columns =>
                /\ row'[job[o].target].st = "live"
                /\ \A l \in Kind : job[o].links[l] \in Id => row'[job[o].links[l]].st = "live"
           /\ \/ row'[job[o].target].team = row[job[o].target].team
              \/ Replaces(j) /\ job[j].target = job[o].target
  <1> DEFINE q == job[o]
             i == q.target
             links == q.links
  <1>1. /\ q.kind \in Staffed /\ KindOf[i] = q.kind /\ i \in Ids /\ i \in Id
        /\ row[i].st # "unborn"
        /\ q.columns => /\ row[i].st = "live"
                        /\ \A l \in Kind : links[l] \in Id => row[links[l]].st = "live"
    BY DEF TransactionInv, Live, LinksExist, Ids
  <1>2. row \in [Id -> RowType] BY DEF TypeOK
  <1> SUFFICES /\ q.columns => /\ row'[i].st = "live"
                               /\ \A l \in Kind : links[l] \in Id => row'[links[l]].st = "live"
               /\ row'[i].team = row[i].team \/ (Replaces(j) /\ job[j].target = i)
    OBVIOUS
  <1> HIDE DEF i, links
  <1>3. CASE row' = row BY <1>1, <1>3
  <1>4. ASSUME NEW k \in Ids, NEW new \in RowType, row' = [row EXCEPT ![k] = new],
               new.st = "live", k # i \/ new.team = row[k].team \/ (Replaces(j) /\ job[j].target = k)
        PROVE  /\ q.columns => /\ row'[i].st = "live"
                               /\ \A l \in Kind : links[l] \in Id => row'[links[l]].st = "live"
               /\ row'[i].team = row[i].team \/ (Replaces(j) /\ job[j].target = i)
    <2>0. k \in Id BY DEF Ids
    <2>1. row'[k] = new /\ \A c \in Id \ {k} : row'[c] = row[c] BY <1>2, <1>4, <2>0
    <2>2. \A c \in Id : row[c].st = "live" => row'[c].st = "live" BY <1>4, <2>1
    <2>3. row'[i].team = row[i].team \/ (Replaces(j) /\ job[j].target = i)
      BY <1>1, <1>4, <2>1
    <2> QED BY <1>1, <2>2, <2>3
  <1>5. CASE Stores(j)
    <2>1. PICK k \in Ids, new \in RowType : Adds(k, new) BY <1>5 DEF Stores
    <2>2. row' = [row EXCEPT ![k] = new] /\ new.st = "live" /\ row[k].st = "unborn"
      BY <2>1 DEF Adds
    <2>3. k # i BY <2>2, <1>1
    <2> QED BY <1>4, <2>2, <2>3
  <1>6. CASE WritesOnce(j) \/ Commits(j)
    <2> DEFINE k == job[j].target
    <2>1. PICK new \in RowType :
            /\ Rewrites(k, new)
            /\ new.team = row[k].team \/ (Commits(j) /\ job[j].team # Keep)
      BY <1>6 DEF WritesOnce, Commits
    <2>2. row' = [row EXCEPT ![k] = new] /\ new.st = "live" /\ k \in Ids
      BY <2>1 DEF Rewrites
    <2>3. Commits(j) /\ job[j].team # Keep => Replaces(j) BY DEF Commits, Replaces
    <2> HIDE DEF k
    <2>4. new.team = row[k].team \/ (Replaces(j) /\ job[j].target = k)
      BY <2>1, <2>3 DEF k
    <2> QED BY <1>4, <2>2, <2>4
  <1>7. CASE Removes(j)
    <2> DEFINE k == job[j].target
    <2>1. /\ k \in Ids /\ Live(k) /\ row' = Deleted(k) /\ row[k].team = {}
          /\ ~Locked(k) /\ ~KeyShared(k)
      BY <1>7 DEF Removes, Found, LiveOf
    <2>2. row[k].tenant \in Tenant /\ k \in Id BY <2>1 DEF RowsOwned, Live, Ids
    <2> HIDE DEF k
    <2>3. row'[i].team = row[i].team
      <3>1. CASE i = k BY <2>1, <2>2, <3>1, DeletedRow
      <3>2. CASE i # k BY <1>1, <2>1, <2>2, <3>2, DeletedRow
      <3> QED BY <3>1, <3>2
    <2>4. ASSUME q.columns
          PROVE  /\ row'[i].st = "live"
                 /\ \A l \in Kind : links[l] \in Id => row'[links[l]].st = "live"
      <3>1. Locked(i) BY <2>4 DEF Locked, i
      <3>2. i # k BY <2>1, <3>1
      <3>3. \A l \in Kind : links[l] # k BY <2>1 DEF KeyShared, links
      <3>4. \A c \in Id : c # k => row'[c].st = row[c].st
        BY <2>1, <2>2, DeletedRow
      <3> QED BY <1>1, <2>4, <3>2, <3>3, <3>4
    <2> QED BY <2>3, <2>4
  <1>8. CASE \/ (Quiet /\ Ends(j)) \/ Progresses(j) \/ Numbers(j) \/ Opens(j) \/ Clears(j)
             \/ Deletes(j) \/ Misses(j)
    BY <1>3, <1>8 DEF Quiet, Progresses, Numbers, Opens, Clears, Deletes, Misses
  <1> QED BY <1>5, <1>6, <1>7, <1>8 DEF Outcome, Ordinary

LEMMA OthersKept ==
    ASSUME NEW j \in Job, Outcome(j), NEW o \in Job \ {j}
    PROVE  job'[o] = job[o]
  BY DEF Outcome, Ordinary, Quiet, Ends, Progresses, Numbers, Stores, WritesOnce, Opens, Clears,
         Deletes, Misses, Commits, Removes, Moves, Others

(* What a step leaves of the replacement that another request makes.       *)
LEMMA SwapKept ==
    ASSUME NEW j \in Job, Outcome(j), NEW o \in Job \ {j}, TypeOK
    PROVE  /\ swap[o].beside => swap'[o].beside
           /\ swap'[o].found # swap[o].found =>
                Replaces(j) /\ Replaces(o) /\ job[o].target = job[j].target
  <1>1. CASE Ordinary(j) \/ Clears(j) \/ Deletes(j)
    BY <1>1 DEF Ordinary, Clears, Deletes, KeepsSwaps
  <1>2. CASE Opens(j)
    <2>1. swap'[o] = IF Meets(j, o) THEN [swap[o] EXCEPT !.beside = TRUE] ELSE swap[o]
      BY <1>2 DEF Opens, Begin
    <2>2. swap[o] \in [found: SUBSET User, beside: BOOLEAN] BY DEF TypeOK
    <2> QED BY <2>1, <2>2
  <1>3. CASE Commits(j) \/ Misses(j)
    BY <1>3 DEF Commits, Misses, PassesOn
  <1> QED BY <1>1, <1>2, <1>3 DEF Outcome

(* Two transactions on one row: one of them holds no lock, and both know.  *)
PairOk(q, w, r, v) ==
    q.target = r.target =>
        /\ ~q.columns \/ ~r.columns
        /\ q.team # Keep /\ r.team # Keep => w.beside /\ v.beside

LEMMA InvariantIs ==
    TransactionInv <=>
        \A o \in Job : InTransaction(o) =>
            /\ TransactionOk(job[o], swap[o], row)
            /\ \A p \in Job \ {o} :
                 InTransaction(p) => PairOk(job[o], swap[o], job[p], swap[p])
  <1>1. ASSUME TransactionInv, NEW o \in Job, InTransaction(o)
        PROVE  TransactionOk(job[o], swap[o], row)
    BY <1>1 DEF TransactionInv, TransactionOk, LinksExist, Live
  <1>2. ASSUME TransactionInv, NEW o \in Job, InTransaction(o), NEW p \in Job \ {o},
               InTransaction(p), job[o].target = job[p].target
        PROVE  /\ ~job[o].columns \/ ~job[p].columns
               /\ job[o].team # Keep /\ job[p].team # Keep => swap[o].beside /\ swap[p].beside
    <2>1. /\ ~job[o].columns \/ ~job[p].columns
          /\ Replaces(o) /\ Replaces(p) => swap[o].beside
      BY <1>2 DEF TransactionInv
    <2>2. o \in Job \ {p} OBVIOUS
    <2>3. Replaces(p) /\ Replaces(o) => swap[p].beside
      BY <1>2, <2>2 DEF TransactionInv
    <2> QED BY <1>2, <2>1, <2>3 DEF Replaces
  <1>3. ASSUME \A o \in Job : InTransaction(o) =>
                 /\ TransactionOk(job[o], swap[o], row)
                 /\ \A p \in Job \ {o} :
                      InTransaction(p) => PairOk(job[o], swap[o], job[p], swap[p])
        PROVE  TransactionInv
    BY <1>3 DEF TransactionInv, TransactionOk, PairOk, LinksExist, Live, Replaces
  <1> QED BY <1>1, <1>2, <1>3 DEF PairOk

(* The step of a request that is in a transaction afterwards.              *)
LEMMA TransactionEnters ==
    ASSUME TypeOK, JobInv, TransactionInv, NEW j \in Job, Outcome(j),
           job'[j].pc \in {"clear", "delete", "fill"}
    PROVE  /\ row' = row /\ SameRequest(job'[j], job[j])
           /\ TransactionOk(job'[j], swap'[j], row)
           /\ \A o \in Job \ {j} : InTransaction(o) =>
                /\ PairOk(job'[j], swap'[j], job[o], swap'[o])
                /\ PairOk(job[o], swap'[o], job'[j], swap'[j])
  <1> DEFINE q == job[j]
             r == job'[j]
             w == swap'[j]
  <1>1. CASE Opens(j)
    <2>1. /\ q.kind \in Staffed /\ q.target \in Ids /\ Live(q.target)
          /\ row[q.target].tenant = q.tenant /\ KindOf[q.target] = q.kind /\ LinksExist(q)
          /\ row' = row
      BY <1>1 DEF Opens, Found, LiveOf, Quiet
    <2>2. SameRequest(r, q) /\ (r.pc = IF q.team = Keep THEN "fill" ELSE "clear")
      BY <1>1 DEF Opens, Moves
    <2>3. ASSUME NEW o \in Job \ {j}, InTransaction(o), job[o].target = q.target
          PROVE  /\ ~q.columns \/ ~job[o].columns
                 /\ q.team # Keep /\ job[o].team # Keep => w.beside /\ swap'[o].beside
      <3>1. ~q.columns \/ ~job[o].columns BY <1>1, <2>3 DEF Opens, Locked
      <3>2. ASSUME q.team # Keep, job[o].team # Keep PROVE w.beside /\ swap'[o].beside
        <4>1. Meets(j, o) BY <2>3, <3>1, <3>2 DEF Meets, Replaces
        <4> DEFINE met == \E p \in Job : Meets(j, p)
        <4>2. met BY <4>1
        <4>3. /\ swap'[j] = [NoSwap EXCEPT !.beside = met]
              /\ swap'[o] = [swap[o] EXCEPT !.beside = TRUE]
          BY <1>1, <4>1 DEF Opens, Begin
        <4>4. swap[o] \in [found: SUBSET User, beside: BOOLEAN] BY DEF TypeOK
        <4> HIDE DEF met
        <4> QED BY <4>2, <4>3, <4>4 DEF NoSwap
      <3> QED BY <3>1, <3>2
    <2>4. q.team # Keep => r.pc = "clear" BY <2>2
    <2> HIDE DEF q, r, w
    <2>5. TransactionOk(r, w, row)
      BY <2>1, <2>2, <2>4 DEF SameRequest, TransactionOk, LinksExist, Live
    <2>6. ASSUME NEW o \in Job \ {j}, InTransaction(o)
          PROVE  PairOk(r, w, job[o], swap'[o]) /\ PairOk(job[o], swap'[o], r, w)
      BY <2>2, <2>3, <2>6 DEF SameRequest, PairOk
    <2> QED BY <2>1, <2>2, <2>5, <2>6 DEF q, r, w
  <1>2. CASE Clears(j) \/ Deletes(j)
    <2>1. /\ InTransaction(j) /\ row' = row /\ SameRequest(r, q) /\ KeepsSwaps(j)
          /\ w.beside = swap[j].beside
      BY <1>2 DEF Clears, Deletes, Moves, Quiet, InTransaction
    <2>2. /\ TransactionOk(q, swap[j], row)
          /\ \A o \in Job \ {j} : InTransaction(o) => PairOk(q, swap[j], job[o], swap[o])
      BY <2>1, InvariantIs
    <2>3. /\ r.pc \in {"delete", "fill"} /\ q.team # Keep
          /\ ~w.beside => w.found = row[q.target].team
      <3>1. CASE Clears(j) BY <2>2, <3>1 DEF Clears, Moves, TransactionOk
      <3>2. CASE Deletes(j)
        <4>1. /\ r.pc = "fill" /\ q.pc = "delete" /\ w = swap[j]
          BY <3>2 DEF Deletes, Moves
        <4> QED BY <2>2, <4>1 DEF TransactionOk
      <3> QED BY <1>2, <3>1, <3>2
    <2>4. \A o \in Job \ {j} : swap'[o] = swap[o] BY <2>1 DEF KeepsSwaps
    <2> HIDE DEF q, r, w
    <2>5. TransactionOk(r, w, row)
      BY <2>1, <2>2, <2>3 DEF SameRequest, TransactionOk
    <2>6. ASSUME NEW o \in Job \ {j}, InTransaction(o)
          PROVE  PairOk(r, w, job[o], swap'[o]) /\ PairOk(job[o], swap'[o], r, w)
      BY <2>1, <2>2, <2>4, <2>6 DEF SameRequest, PairOk
    <2> QED BY <2>1, <2>5, <2>6 DEF q, r, w
  <1>3. CASE Ordinary(j) \/ Commits(j) \/ Misses(j)
    BY <1>3 DEF Ordinary, Ends, Progresses, Numbers, Stores, WritesOnce, Commits, Misses, Removes,
                Moves
  <1> QED BY <1>1, <1>2, <1>3 DEF Outcome

LEMMA TransactionStep ==
    ASSUME CrmInv, Next
    PROVE  TransactionInv'
  <1> DEFINE In(o) == job'[o].pc \in {"clear", "delete", "fill"}
  <1>1. TypeOK /\ JobInv /\ TransactionInv /\ RowsOwned BY DEF CrmInv
  <1>2. Ids' = Ids /\ RowCase BY StepCommon DEF Common
  <1>3. \A o \in Job : InTransaction(o) => TransactionOk(job[o], swap[o], row) /\ job[o].target \in Id
    BY <1>1, InvariantIs DEF TransactionOk, Ids
  <1>4. \A o \in Job : InTransaction(o) =>
           /\ row'[job[o].target].st # "unborn"
           /\ row'[job[o].target].tenant = row[job[o].target].tenant
    BY <1>1, <1>2, <1>3, RowsKept DEF TransactionOk
  <1>5. SUFFICES \A o \in Job : In(o) =>
                   /\ TransactionOk(job'[o], swap'[o], row')
                   /\ \A p \in Job \ {o} : In(p) => PairOk(job'[o], swap'[o], job'[p], swap'[p])
    <2>1. (TransactionInv <=>
             \A o \in Job : InTransaction(o) =>
                 /\ TransactionOk(job[o], swap[o], row)
                 /\ \A p \in Job \ {o} :
                      InTransaction(p) => PairOk(job[o], swap[o], job[p], swap[p]))'
      BY InvariantIs, PTL
    <2> QED BY <1>2, <2>1 DEF InTransaction, Busy, TransactionOk, PairOk
  <1>6. ASSUME AccessChanges \/ InvoiceAdded, NEW o \in Job, In(o)
        PROVE  /\ TransactionOk(job'[o], swap'[o], row')
               /\ \A p \in Job \ {o} : In(p) => PairOk(job'[o], swap'[o], job'[p], swap'[p])
    <2>1. job' = job /\ swap' = swap BY <1>6 DEF AccessChanges, InvoiceAdded
    <2>2. InTransaction(o) BY <1>6, <2>1 DEF InTransaction, Busy
    <2>3. \A c \in Id : row[c].st # "unborn" => row'[c] = row[c]
      <3>1. row \in [Id -> RowType] BY <1>1 DEF TypeOK
      <3>2. CASE AccessChanges BY <3>2 DEF AccessChanges
      <3>3. CASE InvoiceAdded
        <4>1. PICK i \in Ids, new \in RowType : Adds(i, new) BY <3>3 DEF InvoiceAdded
        <4> QED BY <3>1, <4>1 DEF Adds
      <3> QED BY <1>6, <3>2, <3>3
    <2>4. TransactionOk(job[o], swap[o], row) /\ job[o].target \in Id BY <1>3, <2>2
    <2>5. row'[job[o].target] = row[job[o].target] BY <2>3, <2>4 DEF TransactionOk
    <2>6. job[o].columns =>
            \A l \in Kind : job[o].links[l] \in Id => row'[job[o].links[l]].st = "live"
      BY <2>3, <2>4 DEF TransactionOk
    <2>7. TransactionOk(job[o], swap[o], row') BY <2>4, <2>5, <2>6 DEF TransactionOk
    <2>8. \A p \in Job \ {o} : In(p) => PairOk(job[o], swap[o], job[p], swap[p])
      BY <1>1, <2>1, <2>2, InvariantIs DEF InTransaction, Busy
    <2> QED BY <2>1, <2>7, <2>8
  <1>7. ASSUME NEW j \in Job, Outcome(j), NEW o \in Job, In(o)
        PROVE  /\ TransactionOk(job'[o], swap'[o], row')
               /\ \A p \in Job \ {o} : In(p) => PairOk(job'[o], swap'[o], job'[p], swap'[p])
    <2>1. \A p \in Job \ {j} : job'[p] = job[p] BY <1>7, OthersKept
    <2>2. \A p \in Job \ {j} : In(p) => InTransaction(p)
      BY <2>1 DEF InTransaction, Busy
    <2>3. CASE o = j
      <3>1. /\ row' = row /\ TransactionOk(job'[j], swap'[j], row)
            /\ \A p \in Job \ {j} : InTransaction(p) => PairOk(job'[j], swap'[j], job[p], swap'[p])
        BY <1>1, <1>7, <2>3, TransactionEnters
      <3> QED BY <2>1, <2>2, <2>3, <3>1
    <2>4. CASE o # j
      <3>1. InTransaction(o) /\ job'[o] = job[o] BY <1>7, <2>1, <2>2, <2>4
      <3>2. TransactionOk(job[o], swap[o], row) /\ job[o].target \in Id BY <1>3, <3>1
      <3>3. /\ job[o].columns =>
                 /\ row'[job[o].target].st = "live"
                 /\ \A l \in Kind : job[o].links[l] \in Id => row'[job[o].links[l]].st = "live"
            /\ \/ row'[job[o].target].team = row[job[o].target].team
               \/ Replaces(j) /\ job[j].target = job[o].target
        BY <1>1, <1>7, <2>4, <3>1, TransactionKept
      <3>4. /\ swap[o].beside => swap'[o].beside
            /\ swap'[o].found # swap[o].found =>
                 Replaces(j) /\ Replaces(o) /\ job[o].target = job[j].target
        BY <1>1, <1>7, <2>4, SwapKept
      <3>5. Replaces(j) /\ Replaces(o) /\ job[o].target = job[j].target => swap[o].beside
        BY <1>1, <2>4 DEF TransactionInv, Replaces
      <3>6. job[o].team # Keep => Replaces(o) BY <3>1 DEF Replaces
      <3>7. /\ row'[job[o].target].st # "unborn"
            /\ row'[job[o].target].tenant = row[job[o].target].tenant
        BY <1>4, <3>1
      <3>8. job[o].pc \in {"delete", "fill"} /\ job[o].team # Keep /\ ~swap'[o].beside =>
              swap'[o].found = row'[job[o].target].team
        BY <3>2, <3>3, <3>4, <3>5, <3>6 DEF TransactionOk
      <3>9. TransactionOk(job[o], swap'[o], row')
        BY <3>2, <3>3, <3>7, <3>8 DEF TransactionOk
      <3>10. ASSUME NEW p \in Job \ {o}, In(p)
             PROVE  PairOk(job'[o], swap'[o], job'[p], swap'[p])
        <4>1. CASE p # j
          <5>1. InTransaction(p) /\ job'[p] = job[p] BY <2>1, <2>2, <3>10, <4>1
          <5>2. PairOk(job[o], swap[o], job[p], swap[p]) BY <1>1, <3>1, <5>1, InvariantIs
          <5>3. swap[p].beside => swap'[p].beside BY <1>1, <1>7, <4>1, SwapKept
          <5> QED BY <3>1, <3>4, <5>1, <5>2, <5>3 DEF PairOk
        <4>2. CASE p = j
          <5>1. PairOk(job[o], swap'[o], job'[j], swap'[j])
            BY <1>1, <1>7, <2>4, <3>1, <3>10, <4>2, TransactionEnters
          <5> QED BY <3>1, <4>2, <5>1
        <4> QED BY <4>1, <4>2
      <3> QED BY <3>1, <3>9, <3>10
    <2> QED BY <2>3, <2>4
  <1> QED BY <1>6, <1>7, StepOutcome

(* Codes.  Most steps hand out no code and store none.                     *)
CodesKept ==
    /\ nextValue' = nextValue /\ Ids' = Ids
    /\ \A i \in Id : \/ row'[i].code = Nil
                     \/ row'[i].code = row[i].code /\ row'[i].tenant = row[i].tenant
    /\ \A o \in Job : \/ job'[o].pc = "idle" \/ job'[o].code = Nil
                      \/ Busy(o) /\ job'[o].code = job[o].code /\ job'[o].tenant = job[o].tenant

LEMMA KeptCodes ==
    ASSUME CodesBehind, CodesUnique, CodesKept
    PROVE  CodesBehind' /\ CodesUnique'
  <1>0. /\ nextValue' = nextValue /\ Ids' = Ids /\ \A i \in Ids : i \in Id
        /\ \A i \in Id : row'[i].code # Nil =>
             row'[i].code = row[i].code /\ row'[i].tenant = row[i].tenant
        /\ \A o \in Job : job'[o].pc # "idle" /\ job'[o].code # Nil =>
             Busy(o) /\ job'[o].code = job[o].code /\ job'[o].tenant = job[o].tenant
    BY DEF CodesKept, Ids
  <1>1. ASSUME NEW i \in Ids, row'[i].code # Nil
        PROVE  /\ row'[i].tenant \in Tenant
               /\ row'[i].code[2] < nextValue'[row'[i].tenant][row'[i].code[1]]
    <2>1. row'[i].code = row[i].code /\ row'[i].tenant = row[i].tenant BY <1>0, <1>1
    <2>2. /\ row[i].tenant \in Tenant
          /\ row[i].code[2] < nextValue[row[i].tenant][row[i].code[1]]
      BY <1>1, <2>1 DEF CodesBehind
    <2> QED BY <1>0, <2>1, <2>2
  <1>2. ASSUME NEW o \in Job, job'[o].pc # "idle", job'[o].code # Nil
        PROVE  job'[o].code[2] < nextValue'[job'[o].tenant][job'[o].code[1]]
    <2>1. Busy(o) /\ job'[o].code = job[o].code /\ job'[o].tenant = job[o].tenant
      BY <1>0, <1>2
    <2>2. job[o].code[2] < nextValue[job[o].tenant][job[o].code[1]]
      BY <1>2, <2>1 DEF CodesBehind
    <2> QED BY <1>0, <2>1, <2>2
  <1>3. ASSUME NEW i \in Ids, NEW k \in Ids, i # k, row'[i].code # Nil,
               row'[i].tenant = row'[k].tenant
        PROVE  row'[i].code # row'[k].code
    BY <1>0, <1>3 DEF CodesUnique
  <1>4. ASSUME NEW o \in Job, job'[o].pc # "idle", job'[o].code # Nil, NEW i \in Ids,
               row'[i].tenant = job'[o].tenant
        PROVE  row'[i].code # job'[o].code
    BY <1>0, <1>4 DEF CodesUnique
  <1>5. ASSUME NEW o \in Job, job'[o].pc # "idle", job'[o].code # Nil, NEW p \in Job \ {o},
               job'[p].pc # "idle", job'[p].tenant = job'[o].tenant
        PROVE  job'[p].code # job'[o].code
    BY <1>0, <1>5 DEF CodesUnique
  <1>6. CodesBehind' BY <1>0, <1>1, <1>2 DEF CodesBehind, Busy
  <1>7. CodesUnique' BY <1>0, <1>3, <1>4, <1>5 DEF CodesUnique, Busy
  <1> QED BY <1>6, <1>7

(* A number is handed out once: it is not below the counter before, and it *)
(* is below it afterwards.                                                 *)
LEMMA NumberCodes ==
    ASSUME TypeOK, CodesBehind, CodesUnique, NEW j \in Job, Numbers(j)
    PROVE  CodesBehind' /\ CodesUnique'
  <1> DEFINE t == job[j].tenant
  <1>1. PICK s \in SeqName :
          /\ nextValue' = [nextValue EXCEPT ![t][s] = @ + 1]
          /\ job'[j].code = <<s, nextValue[t][s]>>
    BY DEF Numbers
  <1> DEFINE n == nextValue[t][s]
  <1>2. /\ row' = row /\ Ids' = Ids /\ t \in Tenant /\ job'[j].tenant = t
        /\ \A o \in Job \ {j} : job'[o] = job[o]
    BY DEF Numbers, Others, Ids
  <1>3. nextValue \in [Tenant -> [SeqName -> Nat \ {0}]] BY DEF TypeOK
  <1>4. n \in Nat /\ nextValue'[t][s] = n + 1 BY <1>1, <1>2, <1>3
  <1>5. \A v \in Tenant, x \in SeqName :
          nextValue'[v][x] \in Nat /\ nextValue[v][x] \in Nat /\ nextValue[v][x] <= nextValue'[v][x]
    BY <1>1, <1>2, <1>3
  <1>6. /\ \A i \in Ids : i \in Id /\ row[i] \in RowType
        /\ \A o \in Job : Busy(o) => job[o] \in BusyType
    BY BusyRecord DEF TypeOK, Ids
  <1>7. \A c \in Code : c # Nil => c[1] \in SeqName /\ c[2] \in Nat
    BY DEF Code
  <1>8. \A i \in Ids : row[i].code \in Code BY <1>6 DEF RowType
  <1>9. \A o \in Job : Busy(o) => job[o].code \in Code /\ job[o].tenant \in Tenant
    BY <1>6 DEF BusyType
  <1> HIDE DEF t, n
  <1>10. job'[j].code = <<s, n>> /\ job'[j].code[1] = s /\ job'[j].code[2] = n
    BY <1>1 DEF n
  <1>11. \A i \in Ids : row[i].code # Nil =>
           /\ row[i].tenant \in Tenant /\ row[i].code[1] \in SeqName /\ row[i].code[2] \in Nat
           /\ row[i].code[2] < nextValue[row[i].tenant][row[i].code[1]]
    BY <1>7, <1>8 DEF CodesBehind
  <1>12. \A o \in Job : Busy(o) /\ job[o].code # Nil =>
           /\ job[o].tenant \in Tenant /\ job[o].code[1] \in SeqName /\ job[o].code[2] \in Nat
           /\ job[o].code[2] < nextValue[job[o].tenant][job[o].code[1]]
    BY <1>7, <1>9 DEF CodesBehind
  <1>13. nextValue[t][s] = n BY DEF n
  <1>14. \A i \in Ids : row[i].code # Nil =>
           row[i].code[2] < nextValue'[row[i].tenant][row[i].code[1]]
    <2> SUFFICES ASSUME NEW i \in Ids, row[i].code # Nil
                 PROVE  row[i].code[2] < nextValue'[row[i].tenant][row[i].code[1]]
      OBVIOUS
    <2> DEFINE a == row[i].code[2]
               v == row[i].tenant
               x == row[i].code[1]
    <2>1. v \in Tenant /\ x \in SeqName /\ a \in Nat /\ a < nextValue[v][x] BY <1>11
    <2> HIDE DEF a, v, x
    <2>2. a < nextValue'[v][x] BY <2>1, <1>5
    <2> QED BY <2>2 DEF a, v, x
  <1>15. \A o \in Job \ {j} : Busy(o) /\ job[o].code # Nil =>
           job[o].code[2] < nextValue'[job[o].tenant][job[o].code[1]]
    <2> SUFFICES ASSUME NEW o \in Job \ {j}, Busy(o), job[o].code # Nil
                 PROVE  job[o].code[2] < nextValue'[job[o].tenant][job[o].code[1]]
      OBVIOUS
    <2> DEFINE a == job[o].code[2]
               v == job[o].tenant
               x == job[o].code[1]
    <2>1. v \in Tenant /\ x \in SeqName /\ a \in Nat /\ a < nextValue[v][x] BY <1>12
    <2> HIDE DEF a, v, x
    <2>2. a < nextValue'[v][x] BY <2>1, <1>5
    <2> QED BY <2>2 DEF a, v, x
  <1> DEFINE fresh == <<s, n>>
  <1>f. fresh = <<s, n>> /\ fresh[1] = s /\ fresh[2] = n OBVIOUS
  <1> HIDE DEF fresh
  <1>16. ASSUME fresh # Nil, NEW i \in Ids, row[i].tenant = t PROVE row[i].code # fresh
    <2> SUFFICES ASSUME row[i].code = fresh PROVE FALSE
      OBVIOUS
    <2>1. row[i].code[2] < nextValue[t][row[i].code[1]] BY <1>11, <1>16
    <2>2. n < nextValue[t][s] BY <2>1, <1>f
    <2> QED BY <2>2, <1>4, <1>13
  <1>17. ASSUME fresh # Nil, NEW o \in Job, Busy(o), job[o].tenant = t
         PROVE  job[o].code # fresh
    <2> SUFFICES ASSUME job[o].code = fresh PROVE FALSE
      OBVIOUS
    <2>1. job[o].code[2] < nextValue[t][job[o].code[1]] BY <1>12, <1>17
    <2>2. n < nextValue[t][s] BY <2>1, <1>f
    <2> QED BY <2>2, <1>4, <1>13
  <1>18. CodesBehind'
    <2>1. n < nextValue'[t][s] BY <1>4
    <2>2. ASSUME NEW o \in Job, job'[o].pc # "idle", job'[o].code # Nil
          PROVE  job'[o].code[2] < nextValue'[job'[o].tenant][job'[o].code[1]]
      <3>1. CASE o = j BY <1>2, <1>10, <2>1, <3>1
      <3>2. CASE o # j BY <1>2, <1>15, <2>2, <3>2 DEF Busy
      <3> QED BY <3>1, <3>2
    <2>3. \A i \in Ids : row'[i].code # Nil =>
            /\ row'[i].tenant \in Tenant
            /\ row'[i].code[2] < nextValue'[row'[i].tenant][row'[i].code[1]]
      BY <1>2, <1>11, <1>14
    <2> QED BY <1>2, <2>2, <2>3 DEF CodesBehind, Busy
  <1>19. CodesUnique'
    <2>1. ASSUME NEW o \in Job, job'[o].pc # "idle", job'[o].code # Nil, NEW i \in Ids,
                 row[i].tenant = job'[o].tenant
          PROVE  row[i].code # job'[o].code
      <3>1. CASE o = j BY <1>2, <1>10, <1>f, <1>16, <2>1, <3>1
      <3>2. CASE o # j BY <1>2, <2>1, <3>2 DEF CodesUnique, Busy
      <3> QED BY <3>1, <3>2
    <2>2. ASSUME NEW o \in Job, job'[o].pc # "idle", job'[o].code # Nil, NEW p \in Job \ {o},
                 job'[p].pc # "idle", job'[p].tenant = job'[o].tenant
          PROVE  job'[p].code # job'[o].code
      <3>1. CASE o = j BY <1>2, <1>10, <1>f, <1>17, <2>2, <3>1 DEF Busy
      <3>2. CASE p = j BY <1>2, <1>10, <1>f, <1>17, <2>2, <3>2 DEF Busy
      <3>3. CASE o # j /\ p # j BY <1>2, <2>2, <3>3 DEF CodesUnique, Busy
      <3> QED BY <3>1, <3>2, <3>3
    <2>3. \A i, k \in Ids : i # k /\ row[i].code # Nil /\ row[i].tenant = row[k].tenant
                            => row[i].code # row[k].code
      BY DEF CodesUnique
    <2> QED BY <1>2, <2>1, <2>2, <2>3 DEF CodesUnique, Busy
  <1> QED BY <1>18, <1>19

(* The row that is inserted takes its code over from the request.          *)
LEMMA StoreCodes ==
    ASSUME TypeOK, CodesBehind, CodesUnique, NEW j \in Job, Stores(j)
    PROVE  CodesBehind' /\ CodesUnique'
  <1>1. PICK k \in Ids, new \in RowType :
          Adds(k, new) /\ new.code = job[j].code /\ new.tenant = job[j].tenant
    BY DEF Stores
  <1>2. /\ nextValue' = nextValue /\ Ids' = Ids /\ Busy(j) /\ job'[j].pc = "idle"
        /\ \A o \in Job \ {j} : job'[o] = job[o]
    BY DEF Stores, Ends, Others, Ids
  <1>3. row' = [row EXCEPT ![k] = new] /\ new.tenant \in Tenant BY <1>1 DEF Adds
  <1>4. \A i \in Ids : i \in Id BY DEF Ids
  <1>5. row'[k] = new /\ \A i \in Ids \ {k} : row'[i] = row[i]
    BY <1>3, <1>4 DEF TypeOK
  <1> DEFINE c == job[j].code
             t == job[j].tenant
  <1>6. row'[k].code = c /\ row'[k].tenant = t /\ t \in Tenant BY <1>1, <1>3, <1>5
  <1>7. c # Nil => /\ c[2] < nextValue[t][c[1]]
                   /\ \A i \in Ids : row[i].tenant = t => row[i].code # c
                   /\ \A o \in Job \ {j} : Busy(o) /\ job[o].tenant = t => job[o].code # c
    BY <1>2 DEF CodesBehind, CodesUnique
  <1> HIDE DEF c, t
  <1>8. ASSUME NEW i \in Ids, row'[i].code # Nil
        PROVE  /\ row'[i].tenant \in Tenant
               /\ row'[i].code[2] < nextValue'[row'[i].tenant][row'[i].code[1]]
    <2>1. CASE i = k BY <1>2, <1>6, <1>7, <1>8, <2>1
    <2>2. CASE i # k BY <1>2, <1>5, <1>8, <2>2 DEF CodesBehind
    <2> QED BY <2>1, <2>2
  <1>9. CodesBehind' BY <1>2, <1>8 DEF CodesBehind, Busy
  <1>10. ASSUME NEW i \in Ids, NEW x \in Ids, i # x, row'[i].code # Nil,
                row'[i].tenant = row'[x].tenant
         PROVE  row'[i].code # row'[x].code
    <2>1. CASE i = k BY <1>5, <1>6, <1>7, <1>10, <2>1
    <2>2. CASE x = k BY <1>5, <1>6, <1>7, <1>10, <2>2
    <2>3. CASE i # k /\ x # k BY <1>5, <1>10, <2>3 DEF CodesUnique
    <2> QED BY <2>1, <2>2, <2>3
  <1>11. ASSUME NEW o \in Job \ {j}, Busy(o), job[o].code # Nil, NEW i \in Ids,
                row'[i].tenant = job[o].tenant
         PROVE  row'[i].code # job[o].code
    <2>1. CASE i = k BY <1>6, <1>7, <1>11, <2>1
    <2>2. CASE i # k BY <1>5, <1>11, <2>2 DEF CodesUnique
    <2> QED BY <2>1, <2>2
  <1>12. CodesUnique' BY <1>2, <1>10, <1>11 DEF CodesUnique, Busy
  <1> QED BY <1>9, <1>12

LEMMA CodesStep ==
    ASSUME CrmInv, Next
    PROVE  CodesBehind' /\ CodesUnique'
  <1>1. TypeOK /\ RowsOwned /\ CodesBehind /\ CodesUnique BY DEF CrmInv
  <1>2. Ids' = Ids BY StepCommon DEF Common
  <1>3. row \in [Id -> RowType] /\ \A i \in Ids : i \in Id BY <1>1 DEF TypeOK, Ids
  <1>4. ASSUME NEW j \in Job, Outcome(j), ~Numbers(j), ~Stores(j) PROVE CodesKept
    <2>1. nextValue' = nextValue
      BY <1>4 DEF Outcome, Ordinary, Quiet, Progresses, WritesOnce, Opens, Clears, Deletes, Misses, Commits, Removes
    <2>2. \A o \in Job \ {j} : job'[o] = job[o] BY <1>4, OthersKept
    <2>3. \/ job'[j].pc = "idle" \/ job'[j].code = Nil
          \/ Busy(j) /\ job'[j].code = job[j].code /\ job'[j].tenant = job[j].tenant
      BY <1>4 DEF Outcome, Ordinary, Ends, Progresses, WritesOnce, Opens, Clears, Deletes, Misses, Commits, Removes,
                  Moves, SameRequest
    <2>4. \A i \in Id : row'[i].code = row[i].code /\ row'[i].tenant = row[i].tenant
      <3>1. CASE WritesOnce(j) \/ Commits(j)
        <4>1. PICK new \in RowType : Rewrites(job[j].target, new)
          BY <3>1 DEF WritesOnce, Commits
        <4> DEFINE k == job[j].target
        <4>2. /\ row' = [row EXCEPT ![k] = new] /\ k \in Ids
              /\ new.code = row[k].code /\ new.tenant = row[k].tenant
          BY <4>1 DEF Rewrites
        <4> HIDE DEF k
        <4> SUFFICES ASSUME NEW i \in Id
                     PROVE  row'[i].code = row[i].code /\ row'[i].tenant = row[i].tenant
          OBVIOUS
        <4>3. CASE i = k
          <5>1. row'[i] = new BY <1>3, <4>2, <4>3
          <5> QED BY <4>2, <4>3, <5>1
        <4>4. CASE i # k BY <1>3, <4>2, <4>4
        <4> QED BY <4>3, <4>4
      <3>2. CASE Removes(j)
        <4> DEFINE k == job[j].target
        <4>1. k \in Ids /\ Live(k) /\ row' = Deleted(k) BY <3>2 DEF Removes, Found, LiveOf
        <4>2. row[k].tenant \in Tenant BY <4>1, <1>1, <1>3 DEF RowsOwned, Live
        <4> HIDE DEF k
        <4> QED BY <1>1, <4>1, <4>2, DeletedRow
      <3>3. CASE (Quiet /\ Ends(j)) \/ Progresses(j) \/ Opens(j) \/ Clears(j)
             \/ Deletes(j) \/ Misses(j)
        <4>1. row' = row BY <3>3 DEF Quiet, Progresses, Opens, Clears, Deletes, Misses
        <4> QED BY <4>1
      <3> QED BY <1>4, <3>1, <3>2, <3>3 DEF Outcome, Ordinary
    <2> QED BY <1>2, <2>1, <2>2, <2>3, <2>4 DEF CodesKept, Busy
  <1>5. ASSUME AccessChanges PROVE CodesKept
    BY <1>2, <1>5 DEF AccessChanges, CodesKept, Busy
  <1>6. ASSUME InvoiceAdded PROVE CodesKept
    <2>1. PICK k \in Ids, new \in RowType : Adds(k, new) /\ new.code = Nil
      BY <1>6 DEF InvoiceAdded
    <2>2. row' = [row EXCEPT ![k] = new] BY <2>1 DEF Adds
    <2>3. \A i \in Id : row'[i].code = Nil \/ row'[i] = row[i]
      BY <1>3, <2>1, <2>2
    <2>4. nextValue' = nextValue /\ job' = job BY <1>6 DEF InvoiceAdded
    <2> QED BY <1>2, <2>3, <2>4 DEF CodesKept, Busy
  <1> QED BY <1>1, <1>4, <1>5, <1>6, KeptCodes, NumberCodes, StoreCodes, StepOutcome

-----------------------------------------------------------------------------
(* The theorems.                                                           *)
LEMMA CrmInit ==
    ASSUME Init
    PROVE  CrmInv
  <1>1. \A i \in Id : row[i] = Unborn BY DEF Init
  <1>2. \A j \in Job : job[j].pc = "idle" BY DEF Init, Idle
  <1>3. TypeOK
    <2>1. NoLinks \in [Kind -> Id \cup {Nil}] /\ Nil \in Code BY DEF NoLinks, Code
    <2>2. Unborn \in RowType BY <2>1 DEF Unborn, RowType
    <2>3. row \in [Id -> RowType] BY <2>2 DEF Init
    <2>4. nextValue \in [Tenant -> [SeqName -> Nat \ {0}]] BY DEF Init
    <2>5. access \in [User -> [Tenant -> {"none", "active", "inactive"}]]
      BY CrmConstants DEF Init
    <2>6. Idle(0) \in IdleType BY DEF Idle, IdleType
    <2>7. job \in [Job -> IdleType \cup BusyType] BY <2>6 DEF Init
    <2>8. swap \in [Job -> [found: SUBSET User, beside: BOOLEAN]] BY DEF Init, NoSwap
    <2> QED BY <1>1, <2>3, <2>4, <2>5, <2>7, <2>8 DEF Init, TypeOK
  <1>4. JobInv /\ TransactionInv BY <1>2 DEF JobInv, TransactionInv, InTransaction, Busy
  <1>5. \A i \in Id : row[i].st = "unborn" /\ row[i].code = Nil BY <1>1 DEF Unborn
  <1>6. \A i \in Ids : i \in Id BY DEF Ids
  <1>7. CodesBehind /\ CodesUnique BY <1>2, <1>5, <1>6 DEF CodesBehind, CodesUnique, Busy
  <1>8. RowsOwned BY <1>5 DEF RowsOwned
  <1>9. RowsSound BY <1>5, <1>6 DEF RowsSound, Live
  <1> QED BY <1>3, <1>4, <1>7, <1>8, <1>9, SoundnessIs DEF CrmInv

LEMMA CrmStep ==
    ASSUME CrmInv, [Next]_vars
    PROVE  CrmInv'
  <1>1. CASE Next
    <2>1. TypeOK' /\ JobInv' /\ TransactionInv' /\ RowsOwned'
      BY <1>1, TypeStep, JobStep, TransactionStep, RowsOwnedStep
    <2>2. CodesBehind' /\ CodesUnique' BY <1>1, CodesStep
    <2>3. RowsSound' BY <1>1, RowsSoundStep
    <2>4. (TypeOK /\ RowsOwned => (LinksLive /\ MembersOfTheFirm /\ VatFollowsRegistry
                                     <=> RowsSound))'
      BY SoundnessIs, PTL
    <2>5. LinksLive' /\ MembersOfTheFirm' /\ VatFollowsRegistry'
      BY <2>1, <2>3, <2>4
    <2> QED BY <2>1, <2>2, <2>5 DEF CrmInv
  <1>2. CASE UNCHANGED vars
    <2> USE <1>2 DEF vars, CrmInv
    <2>1. TypeOK' BY DEF TypeOK
    <2>2. JobInv' BY DEF JobInv, Busy
    <2>3. TransactionInv'
      BY DEF TransactionInv, Replaces, InTransaction, Busy, Live, LinksExist, Ids
    <2>4. CodesBehind' BY DEF CodesBehind, Busy, Ids
    <2>5. CodesUnique' BY DEF CodesUnique, Busy, Ids
    <2>6. RowsOwned' BY DEF RowsOwned, Ids
    <2>7. LinksLive' BY DEF LinksLive, Live, LiveOf, Ids
    <2>8. MembersOfTheFirm' BY DEF MembersOfTheFirm, Live, Ids
    <2>9. VatFollowsRegistry' BY DEF VatFollowsRegistry, Live, Ids
    <2> QED BY <2>1, <2>2, <2>3, <2>4, <2>5, <2>6, <2>7, <2>8, <2>9
  <1> QED BY <1>1, <1>2

(* The invariant holds whatever the requests, the rows, the answers of     *)
(* ANAF and the order in which the statements of the requests run.         *)
THEOREM CrmInvariant == Spec => []CrmInv
  BY CrmInit, CrmStep, PTL DEF Spec

(* A stored link names a live row of the same firm and of the right kind.  *)
THEOREM LinksStayLive == Spec => []LinksLive
  <1>1. CrmInv => LinksLive BY DEF CrmInv
  <1> QED BY <1>1, CrmInvariant, PTL

(* No code is given to two rows of a firm, deleted rows included.          *)
THEOREM CodesStayUnique == Spec => []CodesUnique
  <1>1. CrmInv => CodesUnique BY DEF CrmInv
  <1> QED BY <1>1, CrmInvariant, PTL

(* Members of a row have, or had, access to its firm.                      *)
THEOREM MembersBelong == Spec => []MembersOfTheFirm
  <1>1. CrmInv => MembersOfTheFirm BY DEF CrmInv
  <1> QED BY <1>1, CrmInvariant, PTL

(* A VAT status that ANAF reported stays with the tax number it is about.  *)
THEOREM VatStatusFollows == Spec => []VatFollowsRegistry
  <1>1. CrmInv => VatFollowsRegistry BY DEF CrmInv
  <1> QED BY <1>1, CrmInvariant, PTL

(* The members of a row become the set that one request asked for, and no  *)
(* others stay: unless another replacement met it without a lock, it has   *)
(* deleted all there were.                                                 *)
THEOREM TeamsReplaced == Spec => TeamReplacedAsSet
  <1> DEFINE By(j, i) == /\ Replaces(j) /\ job[j].target = i
                         /\ job[j].team \subseteq row'[i].team
                         /\ swap[j].beside \/ row'[i].team = job[j].team
             A == \A i \in Ids : Live(i) /\ row'[i].st = "live" /\ row'[i].team # row[i].team =>
                     \E j \in Job : By(j, i)
  <1>1. ASSUME CrmInv, Next PROVE A
    <2> SUFFICES ASSUME NEW i \in Ids, row[i].st = "live", row'[i].st = "live",
                        row'[i].team # row[i].team
                 PROVE  \E j \in Job : By(j, i)
      BY DEF Live
    <2>1. TypeOK /\ RowsOwned BY <1>1 DEF CrmInv
    <2>2. row \in [Id -> RowType] /\ i \in Id BY <2>1 DEF TypeOK, Ids
    <2>3. \A k \in Ids, new \in RowType : Adds(k, new) => row'[i] = row[i]
      BY <2>2 DEF Adds
    <2>4. PICK j \in Job : Outcome(j)
      <3>1. ~AccessChanges BY DEF AccessChanges
      <3>2. ~InvoiceAdded BY <2>3 DEF InvoiceAdded
      <3> QED BY <1>1, <3>1, <3>2, StepOutcome
    <2>5. row' # row OBVIOUS
    <2>6. CASE Stores(j) BY <2>3, <2>6 DEF Stores
    <2>7. CASE WritesOnce(j) \/ Commits(j)
      <3> DEFINE k == job[j].target
      <3>1. PICK new \in RowType :
              /\ Rewrites(k, new)
              /\ \/ new.team = row[k].team
                 \/ /\ Replaces(j) /\ job[j].team \subseteq new.team
                    /\ swap[j].beside \/ new.team = job[j].team
        BY <2>7 DEF WritesOnce, Commits, Replaces
      <3>2. row' = [row EXCEPT ![k] = new] BY <3>1 DEF Rewrites
      <3> HIDE DEF k
      <3>3. i = k /\ row'[i] = new BY <2>2, <3>2
      <3>4. By(j, i) BY <3>1, <3>3 DEF k
      <3> QED BY <3>4
    <2>8. CASE Removes(j)
      <3> DEFINE k == job[j].target
      <3>1. k \in Ids /\ Live(k) /\ row' = Deleted(k) BY <2>8 DEF Removes, Found, LiveOf
      <3>2. row[k].tenant \in Tenant BY <2>1, <3>1 DEF RowsOwned, Live, Ids
      <3> HIDE DEF k
      <3>3. row'[i].st = "gone" \/ row'[i].team = row[i].team
        BY <2>1, <2>2, <3>1, <3>2, DeletedRow
      <3> QED BY <3>3
    <2>9. CASE \/ (Quiet /\ Ends(j)) \/ Progresses(j) \/ Numbers(j) \/ Opens(j) \/ Clears(j)
               \/ Deletes(j) \/ Misses(j)
      BY <2>5, <2>9 DEF Quiet, Progresses, Numbers, Opens, Clears, Deletes, Misses
    <2> QED BY <2>4, <2>6, <2>7, <2>8, <2>9 DEF Outcome, Ordinary
  <1>2. CrmInv /\ [Next]_vars => [A]_vars
    BY <1>1
  <1>3. Spec => [][A]_vars
    BY <1>2, CrmInvariant, PTL DEF Spec
  <1> QED BY <1>3 DEF TeamReplacedAsSet

(* A row changes only by a request of its own firm: the writes look it up  *)
(* by firm, and the columns that a deletion clears are of the same firm.   *)
THEOREM TenantsApart == Spec => TenantIsolation
  <1> DEFINE A == \A i \in Ids : Live(i) /\ row'[i] # row[i] =>
                     \E j \in Job : Busy(j) /\ job'[j] # job[j] /\ job[j].tenant = row[i].tenant
  <1>1. ASSUME CrmInv, Next PROVE A
    <2> SUFFICES ASSUME NEW i \in Ids, row[i].st = "live", row'[i] # row[i]
                 PROVE  \E j \in Job : /\ Busy(j) /\ job'[j] # job[j]
                                       /\ job[j].tenant = row[i].tenant
      BY DEF Live
    <2>1. TypeOK /\ RowsOwned /\ LinksLive BY <1>1 DEF CrmInv
    <2>2. row \in [Id -> RowType] /\ i \in Id BY <2>1 DEF TypeOK, Ids
    <2>3. \A k \in Ids, new \in RowType : Adds(k, new) => row'[i] = row[i]
      BY <2>2 DEF Adds
    <2>4. PICK j \in Job : Outcome(j)
      <3>1. ~AccessChanges BY DEF AccessChanges
      <3>2. ~InvoiceAdded BY <2>3 DEF InvoiceAdded
      <3> QED BY <1>1, <3>1, <3>2, StepOutcome
    <2>5. row' # row OBVIOUS
    <2>6. CASE Stores(j) BY <2>3, <2>6 DEF Stores
    <2>7. CASE WritesOnce(j) \/ Commits(j)
      <3> DEFINE k == job[j].target
      <3>1. PICK new \in RowType : Rewrites(k, new) BY <2>7 DEF WritesOnce, Commits
      <3>2. row' = [row EXCEPT ![k] = new] /\ new.tenant = row[k].tenant
        BY <3>1 DEF Rewrites
      <3> HIDE DEF k
      <3>3. i = k BY <2>2, <3>2
      <3>4. Busy(j) /\ job'[j] # job[j]
        BY <2>7 DEF WritesOnce, Commits, Moves, InTransaction
      <3>5. job[j].tenant = row[k].tenant
        <4>1. CASE WritesOnce(j) BY <4>1 DEF WritesOnce, Found, LiveOf, k
        <4>2. CASE Commits(j)
          <5>1. row[job[j].target].tenant = job[j].tenant
            BY <1>1, <4>2 DEF Commits, CrmInv, TransactionInv
          <5> QED BY <5>1 DEF k
        <4> QED BY <2>7, <4>1, <4>2
      <3> QED BY <3>3, <3>4, <3>5
    <2>8. CASE Removes(j)
      <3> DEFINE k == job[j].target
      <3>1. /\ k \in Ids /\ Live(k) /\ row' = Deleted(k) /\ job[j].tenant = row[k].tenant
            /\ Busy(j) /\ job'[j] # job[j]
        BY <2>8 DEF Removes, Found, LiveOf, Ends, Busy
      <3>2. row[k].tenant \in Tenant /\ k \in Id BY <2>1, <3>1 DEF RowsOwned, Live, Ids
      <3>3. k # Nil BY <3>2, CrmConstants
      <3> HIDE DEF k
      <3>4. i = k \/ i \in Referring(k) BY <2>1, <2>2, <3>1, <3>2, DeletedRow
      <3>5. i \in Referring(k) => row[i].tenant = row[k].tenant
        BY <2>1, <3>3 DEF Referring, LinksLive, LiveOf
      <3> QED BY <3>1, <3>4, <3>5
    <2>9. CASE (Quiet /\ Ends(j)) \/ Progresses(j) \/ Numbers(j) \/ Opens(j) \/ Clears(j)
             \/ Deletes(j) \/ Misses(j)
      BY <2>5, <2>9 DEF Quiet, Progresses, Numbers, Opens, Clears, Deletes, Misses
    <2> QED BY <2>4, <2>6, <2>7, <2>8, <2>9 DEF Outcome, Ordinary
  <1>2. CrmInv /\ [Next]_vars => [A]_vars
    BY <1>1
  <1>3. Spec => [][A]_vars
    BY <1>2, CrmInvariant, PTL DEF Spec
  <1> QED BY <1>3 DEF TenantIsolation
=============================================================================
