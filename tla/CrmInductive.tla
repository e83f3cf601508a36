--------------------------- MODULE CrmInductive ---------------------------
(***************************************************************************)
(* The inductive invariant from which the properties of Crm follow: what   *)
(* the checks a request has made still guarantee when it writes, although  *)
(* the tables have changed since.                                          *)
(***************************************************************************)
EXTENDS Crm

(* What a check leaves true for good: ids are not reused, a row never      *)
(* changes firm, an access row is never deleted.                           *)
VettedBy(q, what, rows, accesses) ==
    /\ what = "team" /\ q.team # Keep => \A u \in q.team : accesses[u][q.tenant] # "none"
    /\ what = "tax" => q.tax # "malformed"
    /\ what \in Kind /\ q.links[what] \in Id =>
         /\ rows[q.links[what]].st # "unborn"
         /\ rows[q.links[what]].tenant = q.tenant
         /\ KindOf[q.links[what]] = what

(* What the body of a request under way is like, and how far it has come.  *)
Body(q) ==
    /\ \A l \in Kind : q.links[l] \in Id => q.op # "remove" /\ l \in LinksOf(q.kind)
    /\ \A l \in Kind : q.op = "create" => q.links[l] # Keep
    /\ q.op # "create" => q.target \in Id
    /\ q.op = "update" /\ ~q.columns => NoColumn(q)
    /\ q.op = "create" => q.tax # Nil
    /\ q.op = "create" => q.year \in (IF q.kind = "deal" THEN Year ELSE {Nil})
    /\ q.kind # "company" => q.tax = Keep /\ q.vat = Keep
    /\ q.kind \notin Staffed => q.team = Keep
    /\ q.kind # "invoice"
Shape(q) ==
    /\ Body(q)
    /\ q.at <= Len(ChecksOf(q.op, q.kind)) + 1
    /\ q.checked => q.tax \in Registered
    /\ q.code # Nil => q.op = "create"

WellChecked(q, rows, accesses) ==
    /\ Shape(q)
    /\ q.pc # "check" => q.at = Len(ChecksOf(q.op, q.kind)) + 1 /\ q.op = "update"
    /\ \A n \in 1 .. Len(ChecksOf(q.op, q.kind)) :
         n < q.at => VettedBy(q, ChecksOf(q.op, q.kind)[n], rows, accesses)
JobInv == \A j \in Job : Busy(j) => WellChecked(job[j], row, access)

(* A transaction that sets a column owns its row and keeps the rows it      *)
(* refers to; a replacement that no other has met without a lock deletes   *)
(* all the members there are.                                              *)
TransactionInv ==
    \A j \in Job : InTransaction(j) =>
        /\ job[j].kind \in Staffed
        /\ job[j].target \in Ids /\ row[job[j].target].st # "unborn"
        /\ row[job[j].target].tenant = job[j].tenant /\ KindOf[job[j].target] = job[j].kind
        /\ job[j].columns => Live(job[j].target) /\ LinksExist(job[j])
        /\ job[j].pc \in {"clear", "delete"} => job[j].team # Keep
        /\ job[j].pc \in {"delete", "fill"} /\ job[j].team # Keep /\ ~swap[j].beside =>
             swap[j].found = row[job[j].target].team
        /\ \A o \in Job \ {j} : InTransaction(o) /\ job[o].target = job[j].target =>
             /\ ~job[j].columns \/ ~job[o].columns
             /\ Replaces(j) /\ Replaces(o) => swap[j].beside

(* The counters are ahead of every code handed out.                        *)
CodesBehind ==
    /\ \A i \in Ids : row[i].code # Nil =>
         row[i].tenant \in Tenant /\ row[i].code[2] < nextValue[row[i].tenant][row[i].code[1]]
    /\ \A j \in Job : Busy(j) /\ job[j].code # Nil =>
         job[j].code[2] < nextValue[job[j].tenant][job[j].code[1]]

(* A row in the tables has a firm.                                         *)
RowsOwned == \A i \in Id : row[i].st # "unborn" => row[i].tenant \in Tenant /\ i \in Ids

CrmInv ==
    /\ TypeOK
    /\ JobInv
    /\ TransactionInv
    /\ CodesBehind
    /\ CodesUnique
    /\ RowsOwned
    /\ LinksLive
    /\ MembersOfTheFirm
    /\ VatFollowsRegistry
=============================================================================
