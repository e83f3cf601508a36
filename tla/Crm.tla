-------------------------------- MODULE Crm --------------------------------
(***************************************************************************)
(* The business records of a firm: companies, contacts, deals, tasks,      *)
(* notes (src/src/modules/crm) and products (src/src/modules/invoicing),   *)
(* with the code sequence and the ANAF adapter they call.                  *)
(*                                                                         *)
(* Every operation has one shape, which the steps below keep:              *)
(*   1. the links named by the request are checked one after the other,    *)
(*      each by a query of its own (count .. where id and tenantId), the   *)
(*      tax number by a call to ANAF, the members by a count of accesses;  *)
(*   2. a creation of a coded kind allocates its code (one statement);     *)
(*   3. the write: one INSERT, one UPDATE, or, where members are replaced, *)
(*      a transaction of three statements, which holds the lock of the row *)
(*      if its first statement has a column to set;                        *)
(*   4. an update reads the row back.                                      *)
(* Nothing holds between the steps: other requests run between any two.    *)
(* What PostgreSQL itself refuses or changes (foreign keys) happens inside *)
(* the write.                                                              *)
(***************************************************************************)
EXTENDS Naturals, Sequences, FiniteSets

CONSTANTS
    Id,          \* the row ids (uuid) of all kinds
    KindOf,      \* the kind of row each id will name
    Casts,       \* bound: the rows, and the users whose access changes, of a behaviour
    Job,         \* the requests the server runs at the same time
    User, Tenant,
    Cui,         \* normalised tax numbers
    Registered,  \* the tax numbers ANAF knows
    VatPayers,   \* ... and the ones it reports as VAT payers
    Year,        \* years of the dealDate
    Nil, Keep,   \* JSON null / no value, and a key left out of a PATCH
    MaxCode,     \* bound: codes allocated per sequence
    Requests,    \* bound: the requests that are made
    Accesses,    \* bound: the accesses there are at first
    Changing     \* bound: the accesses that change later

VARIABLES
    cast,        \* what this behaviour is about (never changes)
    row,         \* the tables: one record per id
    nextValue,   \* code_sequences.next_value, 1 where there is no row yet
    access,      \* user_tenant_access: "none", "active" or "inactive"
    job,         \* the requests under way
    swap         \* of their replacements of members: the rows that the DELETE found, and
                 \* (history) whether another replacement met it without a lock between them

vars == <<cast, row, nextValue, access, job, swap>>

Kind == {"company", "contact", "deal", "task", "note", "product", "invoice"}
Sequenced == {"company", "contact", "deal", "product"}
Staffed == {"company", "task", "note"}          \* kinds with members

ASSUME CrmConstants ==
    /\ KindOf \in [Id -> Kind] /\ Casts \subseteq SUBSET (Id \cup User)
    /\ Registered \subseteq Cui /\ VatPayers \subseteq Registered
    /\ Nil \notin Id \cup Cui /\ Keep \notin Id \cup Cui /\ Nil # Keep
    /\ "malformed" \notin Cui \cup {Nil, Keep}
    /\ MaxCode \in Nat \ {0} /\ IsFiniteSet(User)
    /\ Accesses \subseteq [User -> [Tenant -> {"none", "active", "inactive"}]]

-----------------------------------------------------------------------------
(* The schema: which columns refer to which kind, and what the foreign key *)
(* does when the row referred to is deleted.                               *)

ContactLinks == {"company"}
DealLinks    == {"contact", "company", "invoice"}
TaskLinks    == {"company", "contact", "deal"}
NoteLinks    == {"company", "contact", "deal"}
InvoiceLinks == {"company", "product"}

LinksOf(k) == CASE k = "contact" -> ContactLinks
                [] k = "deal"    -> DealLinks
                [] k = "task"    -> TaskLinks
                [] k = "note"    -> NoteLinks
                [] k = "invoice" -> InvoiceLinks
                [] OTHER         -> {}

(* ON DELETE RESTRICT for the columns of invoices, SET NULL for the CRM's. *)
Restricting(k) == k = "invoice"

(* The members of a row (company_team_members, task_assignees,             *)
(* note_assignees) refer to it with ON DELETE RESTRICT.                    *)
MembersRestrict == TRUE

(* code_sequences has one row per firm and entity type; deals have one     *)
(* sequence per year.                                                      *)
SeqName == ((Sequenced \ {"deal"}) \X {Nil}) \cup ({"deal"} \X Year)
SeqOf(k, y) == IF k = "deal" THEN <<k, y>> ELSE <<k, Nil>>

-----------------------------------------------------------------------------
(* The bodies the controllers accept.  A creation cannot send null for a   *)
(* link; an update may leave it out (Keep) or clear it (Nil).              *)

Teams == {Keep} \cup SUBSET User
BodyType == [op: {"create", "update", "remove"}, kind: Kind, tenant: Tenant,
             target: Id \cup {Nil}, links: [Kind -> Id \cup {Nil, Keep}], team: Teams,
             tax: Cui \cup {Nil, Keep, "malformed"}, vat: {Keep} \cup BOOLEAN,
             year: Year \cup {Nil},
             columns: BOOLEAN]    \* a PATCH with a column of the row itself, modelled or not

Links(q, k, absent) ==
    \A l \in Kind : q.links[l] \in absent \/ (l \in LinksOf(k) /\ q.links[l] \in Id)
NoMembers(q) == q.team = Keep
NoTax(q) == q.tax = Keep /\ q.vat = Keep

CreateCompanyDto(q) == Links(q, "company", {Nil}) /\ q.tax # Nil /\ q.year = Nil
UpdateCompanyDto(q) == Links(q, "company", {Keep}) /\ q.year = Nil
CreateContactDto(q) == Links(q, "contact", {Nil}) /\ NoMembers(q) /\ NoTax(q) /\ q.year = Nil
UpdateContactDto(q) == Links(q, "contact", {Keep, Nil}) /\ NoMembers(q) /\ NoTax(q)
CreateDealDto(q)    == Links(q, "deal", {Nil}) /\ NoMembers(q) /\ NoTax(q) /\ q.year \in Year
UpdateDealDto(q)    == Links(q, "deal", {Keep, Nil}) /\ NoMembers(q) /\ NoTax(q)
CreateTaskDto(q)    == Links(q, "task", {Nil}) /\ NoTax(q) /\ q.year = Nil
UpdateTaskDto(q)    == Links(q, "task", {Keep, Nil}) /\ NoTax(q)
CreateNoteDto(q)    == Links(q, "note", {Nil}) /\ NoTax(q) /\ q.year = Nil
UpdateNoteDto(q)    == Links(q, "note", {Keep, Nil}) /\ NoTax(q)
CreateProductDto(q) == Links(q, "product", {Nil}) /\ NoMembers(q) /\ NoTax(q) /\ q.year = Nil
UpdateProductDto(q) == Links(q, "product", {Keep}) /\ NoMembers(q) /\ NoTax(q)
NoColumn(q)         == (\A l \in Kind : q.links[l] = Keep) /\ NoTax(q)
RemoveParams(q)     == q.kind # "invoice" /\ Links(q, "company", {Keep}) /\ NoMembers(q) /\ NoTax(q)

Accepted(q) ==
    /\ q \in BodyType
    /\ q.op # "create" => q.target \in Id
    /\ q.op = "update" /\ ~q.columns => NoColumn(q)
    /\ q.op = "create" =>
         CASE q.kind = "company" -> CreateCompanyDto(q)
           [] q.kind = "contact" -> CreateContactDto(q)
           [] q.kind = "deal"    -> CreateDealDto(q)
           [] q.kind = "task"    -> CreateTaskDto(q)
           [] q.kind = "note"    -> CreateNoteDto(q)
           [] q.kind = "product" -> CreateProductDto(q)
           [] OTHER              -> FALSE
    /\ q.op = "update" =>
         CASE q.kind = "company" -> UpdateCompanyDto(q)
           [] q.kind = "contact" -> UpdateContactDto(q)
           [] q.kind = "deal"    -> UpdateDealDto(q)
           [] q.kind = "task"    -> UpdateTaskDto(q)
           [] q.kind = "note"    -> UpdateNoteDto(q)
           [] q.kind = "product" -> UpdateProductDto(q)
           [] OTHER              -> FALSE
    /\ q.op = "remove" => RemoveParams(q)

ASSUME RequestsAreAccepted == \A q \in Requests : Accepted(q)

-----------------------------------------------------------------------------
(* The checks of each handler, in the order in which it makes them.        *)

CompanyCreateChecks == <<"team", "tax">>
CompanyUpdateChecks == <<"tax", "team">>
ContactChecks       == <<"company">>
DealChecks          == <<"invoice", "contact", "company">>
TaskChecks          == <<"company", "contact", "deal", "team">>
NoteChecks          == <<"company", "contact", "deal", "team">>

ChecksOf(op, k) == CASE op = "create" /\ k = "company" -> CompanyCreateChecks
                     [] op = "update" /\ k = "company" -> CompanyUpdateChecks
                     [] op # "remove" /\ k = "contact" -> ContactChecks
                     [] op # "remove" /\ k = "deal"    -> DealChecks
                     [] op # "remove" /\ k = "task"    -> TaskChecks
                     [] op # "remove" /\ k = "note"    -> NoteChecks
                     [] OTHER                          -> <<>>

-----------------------------------------------------------------------------
(* Rows and jobs.                                                          *)

NoLinks == [l \in Kind |-> Nil]
Unborn == [st |-> "unborn", tenant |-> Nil, code |-> Nil, links |-> NoLinks, team |-> {},
           tax |-> Nil, vat |-> TRUE, checked |-> FALSE, chosen |-> FALSE]

Live(i)          == row[i].st = "live"
LiveOf(i, t)     == Live(i) /\ row[i].tenant = t
Ids == cast \cap Id
Free(k)          == {i \in Ids : KindOf[i] = k /\ row[i].st = "unborn"}
LiveRows(k)      == {i \in Ids : KindOf[i] = k /\ Live(i)}
(* Mutant of Found: the row is looked up without the firm. *)
FoundAnywhere(q) == Live(q.target) /\ KindOf[q.target] = q.kind
Found(q)         == LiveOf(q.target, q.tenant) /\ KindOf[q.target] = q.kind

Idle(reply) == [pc |-> "idle", reply |-> reply]
Busy(j) == job[j].pc # "idle"
Reply(j, r) == job' = [job EXCEPT ![j] = Idle(r)]
GoTo(j, pc) == job' = [job EXCEPT ![j].pc = pc]

(* A transaction that replaces members keeps the row it updated, and, by   *)
(* the foreign-key checks it made, the rows it refers to.  Without a       *)
(* column to set there is no UPDATE, and nothing is kept.                  *)
InTransaction(j) == Busy(j) /\ job[j].pc \in {"clear", "delete", "fill"}
Locked(i)    == \E j \in Job : InTransaction(j) /\ job[j].target = i /\ job[j].columns
KeyShared(i) == \E j \in Job : InTransaction(j) /\ \E l \in Kind : job[j].links[l] = i

(* Two replacements of the members of one row that run together, because   *)
(* one of them has no column to set.                                       *)
NoSwap == [found |-> {}, beside |-> FALSE]
Replaces(j) == InTransaction(j) /\ job[j].team # Keep
Meets(j, o) ==
    /\ o # j /\ job[j].team # Keep /\ Replaces(o) /\ job[o].target = job[j].target
    /\ ~job[j].columns \/ ~job[o].columns
Begin(j) ==
    swap' = [o \in Job |-> IF o = j THEN [NoSwap EXCEPT !.beside = \E p \in Job : Meets(j, p)]
                           ELSE IF Meets(j, o) THEN [swap[o] EXCEPT !.beside = TRUE]
                           ELSE swap[o]]

(* The transaction o has deleted members of row i and not committed yet.   *)
Holds(o, i) == Replaces(o) /\ job[o].pc = "fill" /\ job[o].target = i

(* The value a column takes: what the request gives, or what it had.       *)
Merged(new, old) == IF new = Keep THEN old ELSE new
MergedLinks(q, i) == [l \in Kind |-> Merged(q.links[l], row[i].links[l])]

(* The foreign keys of a write are satisfied.                              *)
LinksExist(q) == \A l \in Kind : q.links[l] \in Id => Live(q.links[l])

(* Mutant of VatOf: what ANAF answered is dropped. *)
VatOfClient(q, old) == IF q.vat # Keep THEN q.vat ELSE old

(* The firm's VAT status of a company: the client's word, else ANAF's,     *)
(* else (creation only) the default.                                       *)
VatOf(q, old) == IF q.vat # Keep THEN q.vat
                 ELSE IF q.checked THEN q.tax \in VatPayers ELSE old
Stored(q, i) ==    \* the tax columns of row i after the write of request q
    [tax |-> Merged(q.tax, row[i].tax), vat |-> VatOf(q, row[i].vat),
     checked |-> IF q.tax = Keep THEN row[i].checked ELSE q.checked,
     chosen |-> IF q.vat # Keep THEN TRUE ELSE ~q.checked /\ row[i].chosen]

(* Progress through the checks.                                            *)
Checks(j) == ChecksOf(job[j].op, job[j].kind)
Checking(j, what) ==
    Busy(j) /\ job[j].pc = "check" /\ job[j].at <= Len(Checks(j)) /\ Checks(j)[job[j].at] = what
Checked(j) == Busy(j) /\ job[j].pc = "check" /\ job[j].at > Len(Checks(j))

(* The next check that asks something; a check of a field that the request *)
(* leaves out makes no query.                                              *)
Asks(q, what) == \/ what = "team" /\ q.team \notin {Keep, {}}
                 \/ what = "tax" /\ q.tax \notin {Keep, Nil}
                 \/ what \in Kind /\ q.links[what] \in Id
NextCheck(q, from, n) ==
    LET all == ChecksOf(q.op, q.kind)
    IN /\ n <= Len(all) => Asks(q, all[n])
       /\ \A m \in from .. n - 1 : ~Asks(q, all[m])
Pass(j, checked) ==
    \E n \in job[j].at + 1 .. Len(Checks(j)) + 1 :
        /\ NextCheck(job[j], job[j].at + 1, n)
        /\ job' = [job EXCEPT ![j].at = n, ![j].checked = checked]

-----------------------------------------------------------------------------
Init ==
    /\ cast \in Casts
    /\ row = [i \in Id |-> Unborn]
    /\ nextValue = [t \in Tenant |-> [s \in SeqName |-> 1]]
    /\ access \in Accesses
    /\ job = [j \in Job |-> Idle(0)]
    /\ swap = [j \in Job |-> NoSwap]

(* A request passes the guards and enters its handler.                     *)
Start(j, q) ==
    /\ ~Busy(j)
    /\ \A i \in Id : (i = q.target \/ \E l \in Kind : i = q.links[l]) => row[i].st # "unborn"
    /\ q.op = "create" => Free(q.kind) # {}
    /\ \E n \in 1 .. Len(ChecksOf(q.op, q.kind)) + 1 :
         /\ NextCheck(q, 1, n)
         /\ job' = [job EXCEPT ![j] =
              [pc |-> "check", at |-> n, code |-> Nil, checked |-> FALSE,
               op |-> q.op, kind |-> q.kind, tenant |-> q.tenant, target |-> q.target,
               links |-> q.links, team |-> q.team, tax |-> q.tax, vat |-> q.vat,
               year |-> q.year, columns |-> q.columns]]
    /\ UNCHANGED <<cast, row, nextValue, access, swap>>

(* Mutant of CheckLink: the row named may belong to any firm. *)
CheckLinkAnywhere(j, l) ==
    /\ Checking(j, l)
    /\ IF Live(job[j].links[l]) THEN Pass(j, job[j].checked) ELSE Reply(j, 400)
    /\ UNCHANGED <<cast, row, nextValue, access, swap>>

(* The row named by the request exists and belongs to the caller's firm.   *)
CheckLink(j, l) ==
    /\ Checking(j, l)
    /\ IF LiveOf(job[j].links[l], job[j].tenant) /\ KindOf[job[j].links[l]] = l
       THEN Pass(j, job[j].checked) ELSE Reply(j, 400)
    /\ UNCHANGED <<cast, row, nextValue, access, swap>>

(* Mutant of AssertUsersBelongToTenant: the users need only exist. *)
AssertUsersExist(j) ==
    /\ Checking(j, "team")
    /\ Pass(j, job[j].checked)
    /\ UNCHANGED <<cast, row, nextValue, access, swap>>

(* As many active accesses to the firm as users named.                     *)
AssertUsersBelongToTenant(j) ==
    /\ Checking(j, "team")
    /\ LET q == job[j]
           active == {u \in q.team : access[u][q.tenant] = "active"}
       IN IF Cardinality(active) = Cardinality(q.team) THEN Pass(j, q.checked)
          ELSE Reply(j, 400)
    /\ UNCHANGED <<cast, row, nextValue, access, swap>>

(* The adapter's answers: a malformed number is refused without a call;    *)
(* a call finds the number or not, or fails (no connection, time limit,    *)
(* not ok, cod other than 200), or ends with a body that cannot be read.   *)
ValidateCui(cui) ==
    IF cui \notin Cui THEN {"invalid"}
    ELSE {IF cui \in Registered THEN "found" ELSE "invalid", "unavailable", "brokenBody"}

ResolveTaxId(j) ==
    /\ Checking(j, "tax")
    /\ \E answer \in ValidateCui(job[j].tax) :
         \/ answer = "found"       /\ Pass(j, TRUE)
         \/ answer = "unavailable" /\ Pass(j, FALSE)    \* accepted unverified
         \/ answer = "invalid"     /\ Reply(j, 400)
         \/ answer = "brokenBody"  /\ Reply(j, 500)
    /\ UNCHANGED <<cast, row, nextValue, access, swap>>

(* Mutant of NextFormatted: one more than the greatest code stored. *)
NextAfterMax(j) ==
    LET q == job[j]
        s == SeqOf(q.kind, q.year)
        taken == {row[i].code[2] : i \in {r \in Ids : LiveOf(r, q.tenant) /\ row[r].code # Nil
                                                     /\ row[r].code[1] = s}}
    IN /\ Checked(j) /\ q.op = "create" /\ q.kind \in Sequenced /\ q.code = Nil
       /\ \E n \in 1 .. MaxCode :
            /\ \A m \in 1 .. MaxCode : m < n <=> m \in taken
            /\ job' = [job EXCEPT ![j].code = <<s, n>>]
       /\ UNCHANGED <<cast, row, nextValue, access, swap>>

(* INSERT .. ON CONFLICT DO UPDATE: one atomic statement; the code is the  *)
(* prefix of the sequence with the number allocated.                       *)
NextFormatted(j) ==
    LET q == job[j]
        s == SeqOf(q.kind, q.year)
    IN /\ Checked(j) /\ q.op = "create" /\ q.kind \in Sequenced /\ q.code = Nil
       /\ nextValue[q.tenant][s] <= MaxCode
       /\ nextValue' = [nextValue EXCEPT ![q.tenant][s] = @ + 1]
       /\ job' = [job EXCEPT ![j].code = <<s, nextValue'[q.tenant][s] - 1>>]
       /\ UNCHANGED <<cast, row, access, swap>>

-----------------------------------------------------------------------------
(* Creation.                                                               *)

CodeTaken(q) ==
    q.code # Nil /\ \E i \in Ids : LiveOf(i, q.tenant) /\ row[i].code = q.code

Insert(j, i) ==
    row' = [row EXCEPT ![i] =
              [st |-> "live", tenant |-> job[j].tenant,
               code |-> job[j].code, links |-> job[j].links,
               team |-> IF job[j].team = Keep THEN {} ELSE job[j].team,
               tax |-> IF job[j].tax = Keep THEN Nil ELSE job[j].tax,
               vat |-> VatOf(job[j], TRUE), checked |-> job[j].checked,
               chosen |-> job[j].vat # Keep]]

(* The INSERT of a create method: refused by the unique code, or by a      *)
(* foreign key, or done.                                                   *)
Create(j, k, onUnique, onForeignKey) ==
    LET q == job[j]
    IN /\ Checked(j) /\ q.op = "create" /\ q.kind = k
       /\ k \in Sequenced => q.code # Nil
       /\ IF CodeTaken(q) THEN Reply(j, onUnique) /\ UNCHANGED row
          ELSE IF ~LinksExist(q) THEN Reply(j, onForeignKey) /\ UNCHANGED row
          ELSE /\ \E i \in Free(k) : Insert(j, i)
               /\ Reply(j, 201)
       /\ UNCHANGED <<cast, nextValue, access, swap>>

CreateCompany(j) == Create(j, "company", 409, 500)
CreateContact(j) == Create(j, "contact", 500, 409)
CreateDeal(j)    == Create(j, "deal", 500, 409)
CreateTask(j)    == Create(j, "task", 500, 500)
CreateNote(j)    == Create(j, "note", 500, 500)
CreateProduct(j) == Create(j, "product", 409, 500)

-----------------------------------------------------------------------------
(* Update.                                                                 *)

Updated(q, i, team) ==
    [row[i] EXCEPT !.links = MergedLinks(q, i), !.team = team, !.tax = Stored(q, i).tax,
                   !.vat = Stored(q, i).vat, !.checked = Stored(q, i).checked,
                   !.chosen = Stored(q, i).chosen]

(* updateMany .. where id and tenantId: nothing matched, a foreign key     *)
(* refused, or the row updated; then the row is read back.                 *)
UpdateRow(j, k, onForeignKey) ==
    LET q == job[j]
    IN /\ Checked(j) /\ q.op = "update" /\ q.kind = k
       /\ IF ~Found(q) THEN Reply(j, 404) /\ UNCHANGED row
          ELSE IF ~LinksExist(q) THEN Reply(j, onForeignKey) /\ UNCHANGED row
          ELSE /\ row' = [row EXCEPT ![q.target] = Updated(q, q.target, @.team)]
               /\ GoTo(j, "reread")
       /\ UNCHANGED <<cast, nextValue, access, swap>>

UpdateContact(j) == UpdateRow(j, "contact", 409)
UpdateDeal(j)    == UpdateRow(j, "deal", 409)
UpdateProduct(j) == UpdateRow(j, "product", 500)

(* Mutant of UpdateColumns: the row is read, not updated. *)
ReadRow(j, k) ==
    LET q == job[j]
    IN /\ Checked(j) /\ q.op = "update" /\ q.kind = k
       /\ IF ~Found(q) THEN Reply(j, 404) /\ UNCHANGED swap
          ELSE GoTo(j, IF q.team = Keep THEN "fill" ELSE "clear") /\ Begin(j)
       /\ UNCHANGED <<cast, row, nextValue, access>>

(* The transaction of a kind with members begins with updateMany.  If the  *)
(* body sets a column, the UPDATE takes the row's lock (the columns are    *)
(* written when the transaction commits); if it names members only, Prisma *)
(* has nothing to write and counts the rows that match ..                  *)
UpdateColumns(j, k) ==
    LET q == job[j]
    IN /\ Checked(j) /\ q.op = "update" /\ q.kind = k
       /\ q.columns => ~Locked(q.target)
       /\ IF ~Found(q) THEN Reply(j, 404) /\ UNCHANGED swap
          ELSE IF ~LinksExist(q) THEN Reply(j, 500) /\ UNCHANGED swap
          ELSE GoTo(j, IF q.team = Keep THEN "fill" ELSE "clear") /\ Begin(j)
       /\ UNCHANGED <<cast, row, nextValue, access>>

UpdateCompany(j) == UpdateColumns(j, "company")
UpdateTask(j)    == UpdateColumns(j, "task")
UpdateNote(j)    == UpdateColumns(j, "note")

(* .. deleteMany finds the members that are committed ..                   *)
DeleteMembers(j) ==
    /\ Busy(j) /\ job[j].pc = "clear"
    /\ swap' = [swap EXCEPT ![j].found = row[job[j].target].team]
    /\ GoTo(j, "delete")
    /\ UNCHANGED <<cast, row, nextValue, access>>

(* .. and waits for a transaction that is deleting one of them ..          *)
MembersDeleted(j) ==
    /\ Busy(j) /\ job[j].pc = "delete"
    /\ \A o \in Job \ {j} : Holds(o, job[j].target) => swap[o].found \cap swap[j].found = {}
    /\ GoTo(j, "fill")
    /\ UNCHANGED <<cast, row, nextValue, access, swap>>

(* .. and createMany adds the new ones, once no transaction is deleting    *)
(* the same.  The primary key refuses a member that is there, the foreign  *)
(* key a row that is not.  The commit shows it all; a DELETE that waited   *)
(* finds its members gone and does not see the new ones.                   *)
CommitMembers(j) ==
    LET q == job[j]
        i == q.target
        added == IF q.team = Keep THEN {} ELSE q.team
        kept == IF q.team = Keep THEN row[i].team ELSE row[i].team \ swap[j].found
    IN /\ Busy(j) /\ q.pc = "fill"
       /\ \A o \in Job \ {j} : Holds(o, i) => swap[o].found \cap added = {}
       /\ IF added # {} /\ (~Live(i) \/ added \cap kept # {})
          THEN Reply(j, 500) /\ swap' = [swap EXCEPT ![j] = NoSwap] /\ UNCHANGED row
          ELSE /\ row' = IF Live(i) THEN [row EXCEPT ![i] = Updated(q, i, kept \cup added)] ELSE row
               /\ swap' = [o \in Job |->
                     IF o = j THEN NoSwap
                     ELSE IF Replaces(j) /\ Replaces(o) /\ job[o].target = i
                     THEN [swap[o] EXCEPT !.found = @ \ swap[j].found]
                     ELSE swap[o]]
               /\ GoTo(j, "reread")
       /\ UNCHANGED <<cast, nextValue, access>>

(* findOne at the end of every update.                                     *)
FindOne(j) ==
    /\ Busy(j) /\ job[j].pc = "reread"
    /\ Reply(j, IF Found(job[j]) THEN 200 ELSE 404)
    /\ UNCHANGED <<cast, row, nextValue, access, swap>>

-----------------------------------------------------------------------------
(* Removal: one DELETE.  The foreign keys refuse it (members, invoices),   *)
(* or clear the columns that refer to the row in the same statement.       *)

Referring(i) == {c \in Ids : Live(c) /\ \E l \in Kind : row[c].links[l] = i}
Refused(i) == \/ MembersRestrict /\ row[i].team # {}
              \/ \E c \in Referring(i) : Restricting(KindOf[c])
WithoutLinksTo(r, i) == [r EXCEPT !.links = [l \in Kind |-> IF @[l] = i THEN Nil ELSE @[l]]]
(* Mutant of Deleted: the columns that refer to the row are left. *)
DeletedAlone(i) == [c \in Id |-> IF c = i THEN [Unborn EXCEPT !.st = "gone", !.tenant = row[i].tenant,
                                                              !.code = row[i].code]
                                 ELSE row[c]]

Deleted(i) == [c \in Id |-> IF c = i THEN [Unborn EXCEPT !.st = "gone", !.tenant = row[i].tenant,
                                                         !.code = row[i].code]
                            ELSE IF c \in Referring(i) THEN WithoutLinksTo(row[c], i)
                            ELSE row[c]]

Remove(j, k, onForeignKey) ==
    LET q == job[j]
        i == q.target
    IN /\ Checked(j) /\ q.op = "remove" /\ q.kind = k
       /\ ~Locked(i) /\ ~KeyShared(i) /\ \A c \in Referring(i) : ~Locked(c)
       /\ \A o \in Job : Holds(o, i) => swap[o].found = {}
       /\ IF ~Found(q) THEN Reply(j, 404) /\ UNCHANGED row
          ELSE IF Refused(i) THEN Reply(j, onForeignKey) /\ UNCHANGED row
          ELSE row' = Deleted(i) /\ Reply(j, 200)
       /\ UNCHANGED <<cast, nextValue, access, swap>>

RemoveCompany(j) == Remove(j, "company", 409)
RemoveContact(j) == Remove(j, "contact", 500)
RemoveDeal(j)    == Remove(j, "deal", 500)
RemoveTask(j)    == Remove(j, "task", 500)
RemoveNote(j)    == Remove(j, "note", 500)
RemoveProduct(j) == Remove(j, "product", 409)

(* A DELETE that has locked the row waits for the members that another     *)
(* transaction is deleting, whose createMany waits for the row: PostgreSQL *)
(* ends one of the two.                                                    *)
Deadlock(j, o) ==
    /\ Checked(j) /\ job[j].op = "remove" /\ Found(job[j])
    /\ Holds(o, job[j].target) /\ ~job[o].columns /\ job[o].team # {} /\ swap[o].found # {}
    /\ \E victim \in {j, o} : Reply(victim, 500) /\ swap' = [swap EXCEPT ![victim] = NoSwap]
    /\ UNCHANGED <<cast, row, nextValue, access>>

-----------------------------------------------------------------------------
(* The neighbours.  User administration grants, suspends and restores the  *)
(* access of a user to a firm; the invoicing engine adds invoices, which   *)
(* are never deleted.                                                      *)

SetAccess(u, t) ==
    /\ u \in cast /\ <<u, t>> \in Changing
    /\ access' = [access EXCEPT ![u][t] = IF @ = "active" THEN "inactive" ELSE "active"]
    /\ UNCHANGED <<cast, row, nextValue, job, swap>>

CreateInvoice(i, t, company, product) ==
    /\ LiveOf(company, t)
    /\ product # Nil => LiveOf(product, t)
    /\ row' = [row EXCEPT ![i] = [Unborn EXCEPT !.st = "live", !.tenant = t,
                 !.links = [NoLinks EXCEPT !["company"] = company, !["product"] = product]]]
    /\ UNCHANGED <<cast, nextValue, access, job, swap>>

Next ==
    \/ \E j \in Job :
         \/ \E q \in Requests : Start(j, q)
         \/ \E l \in Kind : CheckLink(j, l)
         \/ AssertUsersBelongToTenant(j) \/ ResolveTaxId(j) \/ NextFormatted(j)
         \/ CreateCompany(j) \/ CreateContact(j) \/ CreateDeal(j)
         \/ CreateTask(j) \/ CreateNote(j) \/ CreateProduct(j)
         \/ UpdateCompany(j) \/ UpdateContact(j) \/ UpdateDeal(j)
         \/ UpdateTask(j) \/ UpdateNote(j) \/ UpdateProduct(j)
         \/ DeleteMembers(j) \/ MembersDeleted(j) \/ CommitMembers(j) \/ FindOne(j)
         \/ RemoveCompany(j) \/ RemoveContact(j) \/ RemoveDeal(j)
         \/ RemoveTask(j) \/ RemoveNote(j) \/ RemoveProduct(j)
         \/ \E o \in Job : Deadlock(j, o)
    \/ \E u \in User, t \in Tenant : SetAccess(u, t)
    \/ \E t \in Tenant, i \in Free("invoice"), c \in LiveRows("company"),
         p \in LiveRows("product") \cup {Nil} : CreateInvoice(i, t, c, p)

Spec == Init /\ [][Next]_vars

-----------------------------------------------------------------------------
(* Properties.                                                             *)

Code == {Nil} \cup (SeqName \X (Nat \ {0}))
RowType == [st: {"unborn", "live", "gone"}, tenant: Tenant \cup {Nil}, code: Code,
            links: [Kind -> Id \cup {Nil}], team: SUBSET User,
            tax: Cui \cup {Nil}, vat: BOOLEAN, checked: BOOLEAN, chosen: BOOLEAN]
IdleType == [pc: {"idle"}, reply: {0, 200, 201, 400, 404, 409, 500}]
BusyType == [pc: {"check", "clear", "delete", "fill", "reread"}, at: Nat \ {0}, code: Code,
             checked: BOOLEAN, columns: BOOLEAN, op: {"create", "update", "remove"},
             kind: Kind, tenant: Tenant, target: Id \cup {Nil},
             links: [Kind -> Id \cup {Nil, Keep}], team: Teams,
             tax: Cui \cup {Nil, Keep, "malformed"}, vat: {Keep} \cup BOOLEAN,
             year: Year \cup {Nil}]

(* The tables and the requests under way keep their types.                 *)
TypeOK ==
    /\ cast \in Casts
    /\ row \in [Id -> RowType] /\ \A i \in Id \ cast : row[i] = Unborn
    /\ nextValue \in [Tenant -> [SeqName -> Nat \ {0}]]
    /\ access \in [User -> [Tenant -> {"none", "active", "inactive"}]]
    /\ job \in [Job -> IdleType \cup BusyType]
    /\ swap \in [Job -> [found: SUBSET User, beside: BOOLEAN]]

(* A link of a stored row names a row that exists, is of the kind the      *)
(* column stands for and belongs to the same firm, although the check, the *)
(* write and a deletion of the row named are separate statements of        *)
(* separate requests (assertLinksBelongToTenant and the foreign keys).     *)
LinksLive ==
    \A i \in Ids, l \in Kind :
        Live(i) /\ row[i].links[l] # Nil =>
            /\ LiveOf(row[i].links[l], row[i].tenant)
            /\ KindOf[row[i].links[l]] = l

(* No two rows of a kind and firm ever have the same code, deleted rows    *)
(* included, and no code that a request has allocated and not stored yet   *)
(* is taken, whatever the order in which allocations and insertions run    *)
(* (CodeSequenceService.next).                                             *)
CodesUnique ==
    /\ \A i, k \in Ids : (i # k /\ row[i].code # Nil /\ row[i].tenant = row[k].tenant)
                         => row[i].code # row[k].code
    /\ \A j \in Job : Busy(j) /\ job[j].code # Nil =>
         /\ \A i \in Ids : row[i].tenant = job[j].tenant => row[i].code # job[j].code
         /\ \A o \in Job \ {j} : Busy(o) /\ job[o].tenant = job[j].tenant
                                 => job[o].code # job[j].code

(* Every member of a row has, or had, access to the firm of the row: the   *)
(* users are counted before the write and the access may be suspended in   *)
(* between, but a user who was never of the firm is never stored           *)
(* (assertUsersBelongToTenant).                                            *)
MembersOfTheFirm ==
    \A i \in Ids : Live(i) => \A u \in row[i].team : access[u][row[i].tenant] # "none"

(* The VAT status of a company whose tax number ANAF confirmed, and that   *)
(* nobody chose by hand, is the one ANAF reported for that very number:    *)
(* concurrent updates and an outage in between never pair the number of    *)
(* one answer with the status of another (resolveTaxId, update).           *)
VatFollowsRegistry ==
    \A i \in Ids : Live(i) /\ row[i].checked /\ ~row[i].chosen =>
        row[i].tax \in Registered /\ row[i].vat = (row[i].tax \in VatPayers)

(* When the members of a row change, one request has written all those it  *)
(* asked for; and they are exactly these, unless another replacement of    *)
(* the row's members ran beside it and one of the two PATCHes sets no      *)
(* column, so that no lock kept them apart.  Replacements that set a       *)
(* column never leave a mixture, whatever else happens to the row (the     *)
(* transaction of CompaniesService.update, TasksService and NotesService). *)
TeamReplacedAsSet ==
    [][\A i \in Ids : Live(i) /\ row'[i].st = "live" /\ row'[i].team # row[i].team =>
          \E j \in Job : /\ Replaces(j) /\ job[j].target = i
                         /\ job[j].team \subseteq row'[i].team
                         /\ swap[j].beside \/ row'[i].team = job[j].team]_vars

(* A stored row changes only by a step of a request of its own firm, the   *)
(* columns that a deletion clears included.                                *)
TenantIsolation ==
    [][\A i \in Ids : Live(i) /\ row'[i] # row[i] =>
          \E j \in Job : Busy(j) /\ job'[j] # job[j] /\ job[j].tenant = row[i].tenant]_vars
=============================================================================
