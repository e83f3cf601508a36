--------------------------- MODULE GateInductive ---------------------------
(***************************************************************************)
(* The inductive invariant from which the properties of Gate follow.       *)
(***************************************************************************)
EXTENDS Gate

(* What a guard found is remembered: from the next guard on, the demand it *)
(* stands for has been met.                                                *)
After(pc) == CASE pc = "module" -> {"jwt"} [] pc = "global" -> {"jwt", "module"}
               [] pc = "role" -> {"jwt", "module", "global"}
               [] pc \in {"handler", "firms", "found", "write", "commit"} ->
                    {"jwt", "module", "global", "role"}
               [] OTHER -> {}

HeldInv ==
    \A j \in Job :
        /\ job[j].pc # "waiting" => Met(job[j].call) \subseteq held[j]
        /\ Demands(job[j].call.route) \cap After(job[j].pc) \subseteq held[j]

(* The token of a request under way, unless it is refused, names a firm    *)
(* where its user has a row, or no firm and a route that allows that.      *)
HasRow(k) == k.tenant # Nil => access[k.sub][k.tenant] # NoRow
TokenInv ==
    /\ \A k \in tokens : HasRow(k)
    /\ \A j \in Job :
         /\ Valid(job[j].call)
         /\ job[j].pc \notin {"waiting", "done"} /\ job[j].call.token # Nil =>
              HasRow(job[j].call.token)
         /\ "jwt" \in After(job[j].pc) /\ ~job[j].call.route.public => job[j].call.token # Nil
         /\ "jwt" \in After(job[j].pc) /\ OfAFirm(job[j].call.route) =>
              job[j].call.token.tenant # Nil

(* Where the handlers with several steps are.                              *)
HandlerInv ==
    \A j \in Job :
        /\ job[j].pc = "firms" => job[j].call.route.name = "login"
        /\ job[j].pc = "found" =>
             /\ job[j].call.route.name \in {"assignModuleRole", "listModuleRoles"}
             /\ access[job[j].call.target][job[j].call.token.tenant] # NoRow
        /\ job[j].pc \in {"write", "commit"} =>
             \/ /\ job[j].call.route.name = "updateUser"
                /\ access[job[j].call.target][job[j].call.token.tenant] # NoRow
                /\ <<job[j].call.target, Nil>> \in job[j].reads
                /\ job[j].call.newRole # Nil \/ job[j].call.isActive # Nil =>
                     <<job[j].call.target, job[j].call.token.tenant>> \in job[j].writes
             \/ /\ job[j].call.route.name = "resetPassword"
                /\ job[j].reads = {job[j].call.target} \X Tenant
                /\ job[j].writes = {<<job[j].call.target, Nil>>}
        /\ job[j].committed => job[j].pc = "done"
        /\ job[j].seen \subseteq Committed

(* While a reset runs, whoever activates the user's access to another firm *)
(* commits unseen, having read the row of users that the reset is to write. *)
ResetInv ==
    \A j \in Job, t \in Tenant :
        /\ job[j].pc \in {"write", "commit"} /\ job[j].call.route.name = "resetPassword"
        /\ t # job[j].call.token.tenant /\ access[job[j].call.target][t].isActive
        => \E p \in Committed \ job[j].seen :
             /\ <<job[j].call.target, t>> \in job[p].writes
             /\ <<job[j].call.target, Nil>> \in job[p].reads

GateInv == TypeOK /\ HeldInv /\ TokenInv /\ HandlerInv /\ ResetInv /\ RolesOfMembers
=============================================================================
